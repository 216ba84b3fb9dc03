------------------------- MODULE RequestPoolProofs --------------------------
(***************************************************************************)
(* Proofs about the pool of requests behind the cache, for every value of  *)
(* the cache's constants and any client: what points to a request, and who *)
(* gives it back.                                                          *)
(*                                                                         *)
(* The queues of pointers run beside the cache's queues of lines.  Zip     *)
(* takes two such queues for the set of their pairs; that keeps the        *)
(* invariant, and what a step does to it, free of indices.                 *)
(***************************************************************************)
EXTENDS RequestPool, L1iStandaloneProofs

Zip(s, t) == {<<s[n], t[n]>> : n \in DOMAIN s}

Object == [req_obj : ReqObj, da : Lines]

Answering == Zip(answered, super_in_response_buffer)

PoolTypes ==
  /\ heap \in Seq(Object)
  /\ free_request_list \in Seq(Nat) /\ answered \in Seq(Nat) /\ dropped \subseteq Nat
  /\ queued \in [ReqObj -> Seq(Nat)] /\ miss_requests \in [Dues -> Seq(Nat)]

(* The queues of pointers are as long as those of lines.                   *)
Beside ==
  /\ \A obj \in ReqObj : Len(queued[obj]) = Len(super_in_request_buffer[obj])
  /\ \A k \in Dues : Len(miss_requests[k]) = Len(super_in_miss_buffer[k])
  /\ Len(answered) = Len(super_in_response_buffer)

(* What is pointed to is as it was made.                                   *)
QueuesIntact ==
  /\ \A obj \in ReqObj : \A p \in Zip(queued[obj], super_in_request_buffer[obj]) :
       heap[p[1]] = [req_obj |-> obj, da |-> p[2]]
  /\ \A p \in Answering : heap[p[1]] = [req_obj |-> "f", da |-> p[2].da]

(* A miss that a fetch has made is pointed to by the fetch's response as   *)
(* well, which is not due before the miss is.                              *)
MissesIntact ==
  \A k \in Dues : \A p \in Zip(miss_requests[k], super_in_miss_buffer[k]) :
    /\ heap[p[1]].da = p[2]
    /\ heap[p[1]].req_obj = "f" =>
         \E r \in Answering : r[1] = p[1] /\ r[2].response_time = k

NotTwice ==
  /\ Distinct(free_request_list) /\ Distinct(answered)
  /\ Distinct(queued["f"]) /\ Distinct(queued["pf"])

Free   == Elements(free_request_list)
Fetch  == Elements(queued["f"])
Pref   == Elements(queued["pf"])
Answer == Elements(answered)

(* Each request is in one place, but for those of fetch misses.            *)
Apart ==
  /\ DOMAIN heap = Free \cup Missing \cup Fetch \cup Pref \cup Answer \cup dropped
  /\ Fetch \cap Answer = {} /\ Pref \cap Missing = {} /\ Fetch \cap Missing = {}
  /\ Free \cap (Missing \cup Fetch \cup Pref \cup Answer) = {}
  /\ dropped \cap (Free \cup Missing \cup Fetch \cup Pref \cup Answer) = {}

PoolInv == PoolTypes /\ Beside /\ QueuesIntact /\ MissesIntact /\ NotTwice /\ Apart

-----------------------------------------------------------------------------
(* The pairs of two queues, after push_back and pop_front of both.         *)
LEMMA ZipTypes ==
  ASSUME NEW S, NEW T, NEW s \in Seq(S), NEW t \in Seq(T), Len(s) = Len(t)
  PROVE  /\ \A p \in Zip(s, t) : p = <<p[1], p[2]>> /\ p[1] \in Elements(s) /\ p[1] \in S
                                 /\ p[2] \in T /\ p[2] \in Elements(t)
         /\ \A q \in Elements(s) : \E p \in Zip(s, t) : p[1] = q
<1>1. DOMAIN s = DOMAIN t /\ \A n \in DOMAIN s : s[n] \in S /\ t[n] \in T
      OBVIOUS
<1>2. ASSUME NEW p \in Zip(s, t)
      PROVE  p = <<p[1], p[2]>> /\ p[1] \in Elements(s) /\ p[1] \in S /\ p[2] \in T
             /\ p[2] \in Elements(t)
  <2>1. PICK n \in DOMAIN s : p = <<s[n], t[n]>>
        BY <1>2 DEF Zip
  <2>2. p[1] = s[n] /\ p[2] = t[n]
        BY <2>1
  <2> QED
      BY <1>1, <2>1, <2>2 DEF Elements
<1>3. ASSUME NEW q \in Elements(s)
      PROVE  \E p \in Zip(s, t) : p[1] = q
  <2>1. PICK n \in DOMAIN s : q = s[n]
        BY <1>3 DEF Elements
  <2>2. <<s[n], t[n]>> \in Zip(s, t) /\ <<s[n], t[n]>>[1] = q
        BY <2>1 DEF Zip
  <2> QED
      BY <2>2
<1> QED
    BY <1>2, <1>3

LEMMA ZipAppend ==
  ASSUME NEW S, NEW T, NEW s \in Seq(S), NEW t \in Seq(T), Len(s) = Len(t), NEW q \in S, NEW x \in T
  PROVE  /\ Zip(Append(s, q), Append(t, x)) = Zip(s, t) \cup {<<q, x>>}
         /\ Append(s, q) \in Seq(S) /\ Append(t, x) \in Seq(T)
         /\ Len(Append(s, q)) = Len(Append(t, x))
<1> DEFINE u == Append(s, q)
           v == Append(t, x)
<1>1. /\ Len(s) \in Nat /\ DOMAIN s = 1 .. Len(s) /\ DOMAIN u = 1 .. Len(s) + 1
      /\ u[Len(s) + 1] = q /\ v[Len(s) + 1] = x
      /\ u \in Seq(S) /\ v \in Seq(T) /\ Len(u) = Len(s) + 1 /\ Len(v) = Len(s) + 1
      /\ \A n \in 1 .. Len(s) : u[n] = s[n] /\ v[n] = t[n]
      BY AppendProperties
<1> HIDE DEF u, v
<1>2. \A n \in 1 .. Len(s) + 1 : n \in 1 .. Len(s) \/ n = Len(s) + 1
      BY <1>1
<1>3. Len(s) + 1 \in 1 .. Len(s) + 1 /\ \A n \in 1 .. Len(s) : n \in 1 .. Len(s) + 1
      BY <1>1
<1>4. ASSUME NEW p \in Zip(u, v) PROVE p \in Zip(s, t) \cup {<<q, x>>}
  <2>1. PICK n \in 1 .. Len(s) + 1 : p = <<u[n], v[n]>>
        BY <1>1, <1>4 DEF Zip
  <2> QED
      BY <1>1, <1>2, <2>1 DEF Zip
<1>5. ASSUME NEW p \in Zip(s, t) PROVE p \in Zip(u, v)
  <2>1. PICK n \in 1 .. Len(s) : p = <<s[n], t[n]>>
        BY <1>1, <1>5 DEF Zip
  <2> QED
      BY <1>1, <1>3, <2>1 DEF Zip
<1>6. <<q, x>> \in Zip(u, v)
      BY <1>1, <1>3 DEF Zip
<1>7. Zip(u, v) = Zip(s, t) \cup {<<q, x>>}
      BY <1>4, <1>5, <1>6
<1> QED
    BY <1>1, <1>7 DEF u, v

LEMMA ZipTail ==
  ASSUME NEW S, NEW T, NEW s \in Seq(S), NEW t \in Seq(T), Len(s) = Len(t), s # <<>>
  PROVE  /\ Zip(s, t) = Zip(Tail(s), Tail(t)) \cup {<<Head(s), Head(t)>>}
         /\ Tail(s) \in Seq(S) /\ Tail(t) \in Seq(T) /\ Len(Tail(s)) = Len(Tail(t))
         /\ Head(s) \in S /\ Head(t) \in T
         /\ Head(s) \in Elements(s) /\ t # <<>>
<1> DEFINE u == Tail(s)
           v == Tail(t)
<1>1. /\ Len(s) \in Nat \ {0} /\ DOMAIN s = 1 .. Len(s) /\ DOMAIN u = 1 .. Len(s) - 1
      /\ Head(s) = s[1] /\ Head(t) = t[1] /\ t # <<>>
      /\ u \in Seq(S) /\ v \in Seq(T) /\ Len(u) = Len(s) - 1 /\ Len(v) = Len(s) - 1
      /\ Head(s) \in S /\ Head(t) \in T
      /\ \A n \in 1 .. Len(s) - 1 : u[n] = s[n + 1] /\ v[n] = t[n + 1]
      OBVIOUS
<1> HIDE DEF u, v
<1>2. \A n \in 1 .. Len(s) - 1 : n + 1 \in 1 .. Len(s)
      BY <1>1
<1>3. \A n \in 1 .. Len(s) : n = 1 \/ (n - 1 \in 1 .. Len(s) - 1 /\ (n - 1) + 1 = n)
      BY <1>1
<1>4. 1 \in 1 .. Len(s)
      BY <1>1
<1>5. ASSUME NEW p \in Zip(u, v) PROVE p \in Zip(s, t)
  <2>1. PICK n \in 1 .. Len(s) - 1 : p = <<u[n], v[n]>>
        BY <1>1, <1>5 DEF Zip
  <2> QED
      BY <1>1, <1>2, <2>1 DEF Zip
<1>6. ASSUME NEW p \in Zip(s, t) PROVE p \in Zip(u, v) \cup {<<Head(s), Head(t)>>}
  <2>1. PICK n \in 1 .. Len(s) : p = <<s[n], t[n]>>
        BY <1>1, <1>6 DEF Zip
  <2>2. CASE n = 1
        BY <1>1, <2>1, <2>2
  <2>3. CASE n # 1
    <3>1. n - 1 \in 1 .. Len(s) - 1 /\ p = <<u[n - 1], v[n - 1]>>
          BY <1>1, <1>3, <2>1, <2>3
    <3> QED
        BY <1>1, <3>1 DEF Zip
  <2> QED
      BY <2>2, <2>3
<1>7. <<Head(s), Head(t)>> \in Zip(s, t) /\ Head(s) \in Elements(s)
      BY <1>1, <1>4 DEF Zip, Elements
<1>8. Zip(s, t) = Zip(u, v) \cup {<<Head(s), Head(t)>>}
      BY <1>5, <1>6, <1>7
<1> QED
    BY <1>1, <1>7, <1>8 DEF u, v

(* A stack without repetitions after pop_back.                             *)
LEMMA PopBackElements ==
  ASSUME NEW S, NEW s \in Seq(S), s # <<>>, Distinct(s)
  PROVE  LET f == SubSeq(s, 1, Len(s) - 1)
         IN  /\ f \in Seq(S) /\ Distinct(f)
             /\ s[Len(s)] \in Elements(s) /\ s[Len(s)] \in S
             /\ Elements(f) = Elements(s) \ {s[Len(s)]}
<1> DEFINE f == SubSeq(s, 1, Len(s) - 1)
           n == Len(s)
<1>1. n \in Nat \ {0} /\ DOMAIN s = 1 .. n /\ \A m \in 1 .. n : s[m] \in S
      OBVIOUS
<1>2. f \in Seq(S) /\ Len(f) = n - 1 /\ \A m \in 1 .. n - 1 : f[m] = s[m]
  <2>1. 1 \in Int /\ n - 1 \in Int /\ \A m \in 1 .. n - 1 : s[m] \in S
        BY <1>1
  <2>2. /\ f \in Seq(S) /\ Len(f) = IF 1 <= n - 1 THEN (n - 1) - 1 + 1 ELSE 0
        /\ \A m \in 1 .. (n - 1) - 1 + 1 : f[m] = s[1 + m - 1]
    <3> HIDE DEF n
    <3>1. /\ SubSeq(s, 1, n - 1) \in Seq(S)
          /\ Len(SubSeq(s, 1, n - 1)) = IF 1 <= n - 1 THEN (n - 1) - 1 + 1 ELSE 0
          /\ \A m \in 1 .. (n - 1) - 1 + 1 : SubSeq(s, 1, n - 1)[m] = s[1 + m - 1]
          BY <2>1, SubSeqProperties
    <3> QED
        BY <3>1 DEF n
  <2> HIDE DEF f, n
  <2>3. Len(f) = n - 1
        BY <1>1, <2>2
  <2>4. \A m \in 1 .. n - 1 : m \in 1 .. (n - 1) - 1 + 1 /\ 1 + m - 1 = m
        BY <1>1
  <2>5. \A m \in 1 .. n - 1 : f[m] = s[m]
        BY <2>2, <2>4
  <2> QED
      BY <2>2, <2>3, <2>5
<1>3. DOMAIN f = 1 .. n - 1
      BY <1>2
<1> HIDE DEF f, n
<1>4. \A m \in 1 .. n - 1 : m \in 1 .. n /\ m # n
      BY <1>1
<1>5. n \in 1 .. n /\ \A m \in 1 .. n : m = n \/ m \in 1 .. n - 1
      BY <1>1
<1>6. Distinct(f)
      BY <1>1, <1>2, <1>3, <1>4 DEF Distinct
<1>7. ASSUME NEW x \in Elements(f) PROVE x \in Elements(s) \ {s[n]}
  <2>1. PICK m \in 1 .. n - 1 : x = s[m]
        BY <1>2, <1>3, <1>7 DEF Elements
  <2> QED
      BY <1>1, <1>4, <1>5, <2>1 DEF Elements, Distinct
<1>8. ASSUME NEW x \in Elements(s), x # s[n] PROVE x \in Elements(f)
  <2>1. PICK m \in 1 .. n : x = s[m]
        BY <1>1, <1>8 DEF Elements
  <2> QED
      BY <1>2, <1>3, <1>5, <1>8, <2>1 DEF Elements
<1>9. s[n] \in Elements(s) /\ s[n] \in S
      BY <1>1, <1>5 DEF Elements
<1>10. Elements(f) = Elements(s) \ {s[n]}
      BY <1>7, <1>8
<1> QED
    BY <1>2, <1>6, <1>9, <1>10 DEF f, n

-----------------------------------------------------------------------------
(* The places of the invariant, by their pairs.                            *)
QueuePairs(obj) == Zip(queued[obj], super_in_request_buffer[obj])
MissPairs(k)    == Zip(miss_requests[k], super_in_miss_buffer[k])

LEMMA QueueSlots ==
  ASSUME CoreTypeOK, PoolTypes, Beside, NEW obj \in ReqObj
  PROVE  /\ queued[obj] \in Seq(Nat) /\ super_in_request_buffer[obj] \in Seq(Lines)
         /\ Len(queued[obj]) = Len(super_in_request_buffer[obj])
         /\ \A p \in QueuePairs(obj) : /\ p[1] \in Elements(queued[obj]) /\ p[1] \in Nat
                                       /\ p[2] \in Lines
         /\ \A q \in Elements(queued[obj]) : \E p \in QueuePairs(obj) : p[1] = q
<1>1. /\ queued[obj] \in Seq(Nat) /\ super_in_request_buffer[obj] \in Seq(Lines)
      /\ Len(queued[obj]) = Len(super_in_request_buffer[obj])
      BY DEF CoreTypeOK, QueuesTypeOK, PoolTypes, Beside
<1> QED
    BY <1>1, ZipTypes DEF QueuePairs

LEMMA AnswerSlots ==
  ASSUME CoreTypeOK, PoolTypes, Beside
  PROVE  /\ answered \in Seq(Nat) /\ super_in_response_buffer \in Seq(Response)
         /\ Len(answered) = Len(super_in_response_buffer)
         /\ \A p \in Answering : p[1] \in Answer /\ p[1] \in Nat /\ p[2] \in Response
         /\ \A q \in Answer : \E p \in Answering : p[1] = q
<1>1. /\ answered \in Seq(Nat) /\ super_in_response_buffer \in Seq(Response)
      /\ Len(answered) = Len(super_in_response_buffer)
      BY DEF CoreTypeOK, QueuesTypeOK, PoolTypes, Beside
<1> QED
    BY <1>1, ZipTypes DEF Answering, Answer

LEMMA MissSlots ==
  ASSUME CoreTypeOK, PoolTypes, Beside
  PROVE  /\ \A k \in Dues :
              /\ miss_requests[k] \in Seq(Nat) /\ super_in_miss_buffer[k] \in Seq(Lines)
              /\ Len(miss_requests[k]) = Len(super_in_miss_buffer[k])
         /\ \A k \in Dues : \A p \in MissPairs(k) :
              /\ p[1] \in Missing /\ p[1] \in Nat
              /\ p[2] \in Lines /\ p[2] \in Elements(super_in_miss_buffer[k])
         /\ \A q \in Missing : \E k \in Dues : \E p \in MissPairs(k) : p[1] = q
<1>1. DOMAIN miss_requests = Dues
      BY DEF PoolTypes
<1>2. ASSUME NEW k \in Dues
      PROVE  /\ miss_requests[k] \in Seq(Nat) /\ super_in_miss_buffer[k] \in Seq(Lines)
             /\ Len(miss_requests[k]) = Len(super_in_miss_buffer[k])
      BY <1>2 DEF CoreTypeOK, MshrTypeOK, PoolTypes, Beside
<1>3. ASSUME NEW k \in Dues
      PROVE  /\ \A p \in MissPairs(k) :
                  /\ p[1] \in Elements(miss_requests[k]) /\ p[1] \in Nat
                  /\ p[2] \in Lines /\ p[2] \in Elements(super_in_miss_buffer[k])
             /\ \A q \in Elements(miss_requests[k]) : \E p \in MissPairs(k) : p[1] = q
      BY <1>2, <1>3, ZipTypes DEF MissPairs
<1>4. \A q : q \in Missing <=> \E k \in Dues : q \in Elements(miss_requests[k])
      BY <1>1 DEF Missing, Entries, Elements
<1> QED
    BY <1>2, <1>3, <1>4

(* A line is missed in one place, and so is a request.                     *)
LEMMA MissedOnce ==
  ASSUME L1iInv, PoolInv, NEW j \in Dues, NEW k \in Dues,
         NEW p \in MissPairs(j), NEW r \in MissPairs(k), p[1] = r[1]
  PROVE  j = k /\ p[2] = r[2]
<1>1. p[2] = r[2]
      BY DEF PoolInv, MissesIntact, MissPairs
<1>2. p[2] \in Elements(super_in_miss_buffer[j]) /\ r[2] \in Elements(super_in_miss_buffer[k])
      BY MissSlots DEF L1iInv, PoolInv
<1> QED
    BY <1>1, <1>2 DEF L1iInv, MshrCoherent, BufferedOutstanding, Elements

(* NewRequest hands out an object that nothing points to.                  *)
LEMMA NewObject ==
  ASSUME PoolInv, NEW obj \in ReqObj, NEW line \in Lines, NewRequest(obj, line)
  PROVE  /\ NextFree \in Nat
         /\ heap' \in Seq(Object) /\ DOMAIN heap' = DOMAIN heap \cup {NextFree}
         /\ heap'[NextFree] = [req_obj |-> obj, da |-> line]
         /\ \A q \in DOMAIN heap : q # NextFree => heap'[q] = heap[q]
         /\ free_request_list' \in Seq(Nat) /\ Distinct(free_request_list')
         /\ Free' = Free \ {NextFree}
         /\ NextFree \notin Missing \cup Fetch \cup Pref \cup Answer \cup dropped
<1> DEFINE object == [req_obj |-> obj, da |-> line]
<1>1. /\ heap \in Seq(Object) /\ free_request_list \in Seq(Nat) /\ Distinct(free_request_list)
      /\ object \in Object /\ Len(heap) \in Nat /\ DOMAIN heap = 1 .. Len(heap)
      BY DEF PoolInv, PoolTypes, NotTwice, Object
<1>2. CASE free_request_list = <<>>
  <2>1. /\ NextFree = Len(heap) + 1 /\ heap' = Append(heap, object)
        /\ free_request_list' = free_request_list
        BY <1>2 DEF NewRequest, NextFree
  <2>2. /\ heap' \in Seq(Object) /\ Len(heap') = Len(heap) + 1 /\ heap'[Len(heap) + 1] = object
        /\ \A q \in 1 .. Len(heap) : heap'[q] = heap[q]
        BY <1>1, <2>1, AppendProperties
  <2>3. DOMAIN heap' = 1 .. Len(heap) + 1
        BY <1>1, <2>2
  <2>4. 1 .. Len(heap) + 1 = (1 .. Len(heap)) \cup {Len(heap) + 1} /\ NextFree \notin DOMAIN heap
        BY <1>1, <2>1
  <2>5. Free' = Free /\ NextFree \notin Free \cup Missing \cup Fetch \cup Pref \cup Answer \cup dropped
        BY <2>1, <2>4 DEF Free, PoolInv, Apart
  <2> QED
      BY <1>1, <2>1, <2>2, <2>3, <2>4, <2>5
<1>3. CASE free_request_list # <<>>
  <2>1. /\ NextFree = free_request_list[Len(free_request_list)]
        /\ heap' = [heap EXCEPT ![NextFree] = object]
        /\ free_request_list' = SubSeq(free_request_list, 1, Len(free_request_list) - 1)
        BY <1>3 DEF NewRequest, NextFree
  <2>2. /\ free_request_list' \in Seq(Nat) /\ Distinct(free_request_list')
        /\ NextFree \in Free /\ NextFree \in Nat /\ Free' = Free \ {NextFree}
        BY <1>1, <1>3, <2>1, PopBackElements DEF Free
  <2>3. NextFree \in DOMAIN heap
        BY <2>2 DEF PoolInv, Apart
  <2>4. /\ heap' \in Seq(Object) /\ DOMAIN heap' = DOMAIN heap /\ heap'[NextFree] = object
        /\ \A q \in DOMAIN heap : q # NextFree => heap'[q] = heap[q]
    <3> HIDE DEF object
    <3> QED
        BY <1>1, <2>1, <2>3
  <2>5. NextFree \notin Missing \cup Fetch \cup Pref \cup Answer \cup dropped
        BY <2>2 DEF PoolInv, Apart
  <2> QED
      BY <2>2, <2>3, <2>4, <2>5
<1> QED
    BY <1>2, <1>3

(* FreeRequest takes one back that is not there yet.                       *)
LEMMA FreedObject ==
  ASSUME PoolInv, NEW q \in Nat, q \notin Free, FreeRequest(q)
  PROVE  /\ heap' = heap /\ free_request_list' \in Seq(Nat) /\ Distinct(free_request_list')
         /\ Free' = Free \cup {q}
BY AppendElements DEF PoolInv, PoolTypes, NotTwice, FreeRequest, Free

-----------------------------------------------------------------------------
(* What an answered request is.                                            *)
LEMMA AnswerMade ==
  ASSUME CoreTypeOK, PoolInv, NEW q \in Answer
  PROVE  heap[q].req_obj = "f"
<1>1. PICK p \in Answering : p[1] = q
      BY AnswerSlots DEF PoolInv
<1>2. heap[q] = [req_obj |-> "f", da |-> p[2].da]
      BY <1>1 DEF PoolInv, QueuesIntact
<1> QED
    BY <1>2

LEMMA QueueMade ==
  ASSUME CoreTypeOK, PoolInv, NEW obj \in ReqObj, NEW q \in Elements(queued[obj])
  PROVE  heap[q].req_obj = obj
<1>1. PICK p \in QueuePairs(obj) : p[1] = q
      BY QueueSlots DEF PoolInv
<1>2. heap[q] = [req_obj |-> obj, da |-> p[2]]
      BY <1>1 DEF PoolInv, QueuesIntact, QueuePairs
<1> QED
    BY <1>2

(* A request leaves the miss buffer.                                       *)
LEMMA FillLeaves ==
  ASSUME L1iInv, PoolInv, NEW k \in Dues, FillRequest(k)
  PROVE  LET request == Head(miss_requests[k])
         IN  /\ \A j \in Dues' : /\ miss_requests'[j] \in Seq(Nat)
                                 /\ Len(miss_requests'[j]) = Len(super_in_miss_buffer'[j])
             /\ DOMAIN miss_requests' = Dues' /\ Dues' \subseteq Dues
             /\ \A j \in Dues' : Zip(miss_requests'[j], super_in_miss_buffer'[j]) \subseteq MissPairs(j)
             /\ request \in Missing /\ \E line \in Lines : <<request, line>> \in MissPairs(k)
             /\ Missing' = Missing \ {request}
<1> DEFINE request == Head(miss_requests[k])
           line    == Head(super_in_miss_buffer[k])
           s       == miss_requests[k]
           t       == super_in_miss_buffer[k]
<1>0. CoreTypeOK /\ PoolTypes /\ Beside
      BY DEF L1iInv, PoolInv
<1>1. /\ s \in Seq(Nat) /\ t \in Seq(Lines) /\ Len(s) = Len(t) /\ s # <<>> /\ t # <<>>
  <2>1. FillLine(k)
        BY DEF FillRequest
  <2>2. t \in Seq(Lines) /\ t # <<>>
        BY <2>1, FillNow
  <2>3. s \in Seq(Nat) /\ Len(s) = Len(t)
        BY <1>0, MissSlots
  <2> HIDE DEF s, t
  <2> QED
      BY <2>2, <2>3
<1>2. /\ Zip(s, t) = Zip(Tail(s), Tail(t)) \cup {<<request, line>>}
      /\ Tail(s) \in Seq(Nat) /\ Tail(t) \in Seq(Lines) /\ Len(Tail(s)) = Len(Tail(t))
      /\ request \in Nat /\ line \in Lines
      BY <1>1, ZipTail
<1>3. /\ DOMAIN miss_requests' = Dues' /\ Dues' \subseteq Dues
      /\ \A j \in Dues' : j # k => /\ miss_requests'[j] = miss_requests[j]
                                   /\ super_in_miss_buffer'[j] = super_in_miss_buffer[j]
      /\ k \in Dues' => miss_requests'[k] = Tail(s) /\ super_in_miss_buffer'[k] = Tail(t)
      /\ k \notin Dues' => Tail(t) = <<>>
      /\ \A j \in Dues : j # k => j \in Dues'
      BY DEF FillRequest, FillLine, Dues
<1>4. <<request, line>> \in MissPairs(k)
      BY <1>2 DEF MissPairs
<1>5. Distinct(t)
      BY DEF L1iInv, MshrCoherent, BufferedOnce, Distinct
<1>6. \A p \in Zip(Tail(s), Tail(t)) : p[2] # line
  <2>1. Elements(Tail(t)) = Elements(t) \ {line}
        BY <1>1, <1>5, TailElements
  <2>2. \A p \in Zip(Tail(s), Tail(t)) : p[2] \in Elements(Tail(t))
    <3> HIDE DEF s, t
    <3> QED
        BY <1>2, ZipTypes
  <2> QED
      BY <2>1, <2>2
<1> HIDE DEF request, line
<1>7. ASSUME NEW j \in Dues'
      PROVE  /\ miss_requests'[j] \in Seq(Nat) /\ super_in_miss_buffer'[j] \in Seq(Lines)
             /\ Len(miss_requests'[j]) = Len(super_in_miss_buffer'[j])
             /\ Zip(miss_requests'[j], super_in_miss_buffer'[j]) \subseteq MissPairs(j)
             /\ \A p \in Zip(miss_requests'[j], super_in_miss_buffer'[j]) : p[1] # request
  <2>1. CASE j = k
    <3>1. Zip(miss_requests'[j], super_in_miss_buffer'[j]) = Zip(Tail(s), Tail(t))
          BY <1>3, <1>7, <2>1
    <3>2. Zip(Tail(s), Tail(t)) \subseteq MissPairs(j)
          BY <1>2, <2>1 DEF MissPairs
    <3>3. ASSUME NEW p \in Zip(Tail(s), Tail(t)), p[1] = request
          PROVE  FALSE
      <4>1. p \in MissPairs(k) /\ p[2] # line
            BY <1>6, <2>1, <3>2, <3>3
      <4>2. <<request, line>>[1] = request /\ <<request, line>>[2] = line
            OBVIOUS
      <4>3. p[2] = line
            BY <1>4, <3>3, <4>1, <4>2, MissedOnce
      <4> QED
          BY <4>1, <4>3
    <3> QED
        BY <1>2, <1>3, <1>7, <2>1, <3>1, <3>2, <3>3
  <2>2. CASE j # k
    <3>1. /\ miss_requests'[j] = miss_requests[j] /\ j \in Dues
          /\ super_in_miss_buffer'[j] = super_in_miss_buffer[j]
          BY <1>3, <1>7, <2>2
    <3>2. \A p \in MissPairs(j) : p[1] # request
      <4>1. SUFFICES ASSUME NEW p \in MissPairs(j), p[1] = request PROVE FALSE
            OBVIOUS
      <4>2. <<request, line>>[1] = request
            OBVIOUS
      <4> QED
          BY <1>4, <2>2, <3>1, <4>1, <4>2, MissedOnce
    <3> QED
        BY <1>0, <3>1, <3>2, MissSlots DEF MissPairs
  <2> QED
      BY <2>1, <2>2
<1>8. request \in Missing
  <2>1. <<request, line>>[1] = request
        OBVIOUS
  <2> QED
      BY <1>0, <1>4, <2>1, MissSlots
<1>9. ASSUME NEW q \in Missing'
      PROVE  q \in Missing \ {request}
  <2>1. PICK j \in Dues' : q \in Elements(miss_requests'[j])
        BY <1>3, <1>9 DEF Missing, Entries, Elements
  <2>2. PICK p \in Zip(miss_requests'[j], super_in_miss_buffer'[j]) : p[1] = q
        BY <1>7, <2>1, ZipTypes
  <2>3. p \in MissPairs(j) /\ q # request /\ j \in Dues
        BY <1>3, <1>7, <2>2
  <2> QED
      BY <1>0, <2>2, <2>3, MissSlots
<1>10. ASSUME NEW q \in Missing, q # request
       PROVE  q \in Missing'
  <2>0. PICK j \in Dues : \E p \in MissPairs(j) : p[1] = q
        BY <1>0, <1>10, MissSlots
  <2>1. PICK p \in MissPairs(j) : p[1] = q
        BY <2>0
  <2>2. CASE j # k
    <3>1. j \in Dues' /\ miss_requests'[j] = miss_requests[j] /\ q \in Elements(miss_requests[j])
      <4>1. q \in Elements(miss_requests[j])
            BY <1>0, <2>1, MissSlots, ZipTypes DEF MissPairs
      <4> QED
          BY <1>3, <2>2, <4>1
    <3> QED
        BY <1>3, <3>1 DEF Missing, Entries, Elements
  <2>3. CASE j = k
    <3>1. p \in Zip(Tail(s), Tail(t))
      <4>1. p \in Zip(s, t)
            BY <2>1, <2>3 DEF MissPairs
      <4>2. p # <<request, line>>
        <5>1. <<request, line>>[1] = request
              OBVIOUS
        <5> QED
            BY <1>10, <2>1, <5>1
      <4> QED
          BY <1>2, <4>1, <4>2
    <3>2. q \in Elements(Tail(s))
      <4> HIDE DEF s, t
      <4> QED
          BY <1>2, <2>1, <3>1, ZipTypes
    <3>3. k \in Dues'
      <4>0. \A u \in Seq(Nat) : u # <<>> => Len(u) # 0
            OBVIOUS
      <4> HIDE DEF s, t
      <4>1. Tail(s) # <<>>
            BY <3>2 DEF Elements
      <4>2. Len(Tail(s)) # 0
            BY <1>2, <4>0, <4>1
      <4>3. Tail(t) # <<>>
            BY <1>2, <4>2
      <4> QED
          BY <1>3, <4>3 DEF s, t
    <3> QED
        BY <1>3, <3>2, <3>3 DEF Missing, Entries, Elements
  <2> QED
      BY <2>2, <2>3
<1>11. Missing' = Missing \ {request}
       BY <1>9, <1>10
<1> QED
    BY <1>2, <1>3, <1>4, <1>7, <1>8, <1>11 DEF request

(* A request joins the miss buffer.                                        *)
LEMMA MissJoins ==
  ASSUME CoreTypeOK, PoolInv, NEW line \in Lines, NEW request \in Nat,
         AllocateMiss(line), RecordMiss(request)
  PROVE  LET due == steps + MissLatency
         IN  /\ DOMAIN miss_requests' = Dues' /\ Dues' = Dues \cup {due}
             /\ \A j \in Dues' : /\ miss_requests'[j] \in Seq(Nat)
                                 /\ Len(miss_requests'[j]) = Len(super_in_miss_buffer'[j])
             /\ \A j \in Dues' : \A p \in Zip(miss_requests'[j], super_in_miss_buffer'[j]) :
                  \/ j \in Dues /\ p \in MissPairs(j)
                  \/ j = due /\ p = <<request, line>>
             /\ Missing' = Missing \cup {request}
<1> DEFINE due == steps + MissLatency
           s == IF due \in Dues THEN miss_requests[due] ELSE <<>>
           t == IF due \in Dues THEN super_in_miss_buffer[due] ELSE <<>>
<1>0. PoolTypes /\ Beside /\ DOMAIN miss_requests = Dues
      BY DEF PoolInv, PoolTypes
<1>1. /\ DOMAIN miss_requests' = Dues' /\ Dues' = Dues \cup {due}
      /\ miss_requests'[due] = Append(s, request)
      /\ super_in_miss_buffer'[due] = Append(t, line)
      /\ \A j \in Dues : j # due => /\ miss_requests'[j] = miss_requests[j]
                                    /\ super_in_miss_buffer'[j] = super_in_miss_buffer[j]
      BY <1>0 DEF RecordMiss, AllocateMiss, Dues
<1> HIDE DEF due
<1>2. s \in Seq(Nat) /\ t \in Seq(Lines) /\ Len(s) = Len(t)
  <2>1. CASE due \in Dues
        BY <1>0, <2>1, MissSlots
  <2>2. CASE due \notin Dues
    <3>1. s = <<>> /\ t = <<>>
          BY <2>2
    <3> HIDE DEF s, t
    <3> QED
        BY <3>1
  <2> QED
      BY <2>1, <2>2
<1>3. due \in Dues => s = miss_requests[due] /\ Zip(s, t) = MissPairs(due)
      BY DEF MissPairs
<1>4. due \notin Dues => s = <<>> /\ Zip(s, t) = {}
      BY DEF Zip
<1> HIDE DEF s, t
<1>5. /\ Zip(Append(s, request), Append(t, line)) = Zip(s, t) \cup {<<request, line>>}
      /\ Append(s, request) \in Seq(Nat) /\ Append(t, line) \in Seq(Lines)
      /\ Len(Append(s, request)) = Len(Append(t, line))
      BY <1>2, ZipAppend
<1>6. Elements(Append(s, request)) = Elements(s) \cup {request}
      BY <1>2, AppendElements
<1>7. ASSUME NEW j \in Dues'
      PROVE  /\ miss_requests'[j] \in Seq(Nat)
             /\ Len(miss_requests'[j]) = Len(super_in_miss_buffer'[j])
             /\ \A p \in Zip(miss_requests'[j], super_in_miss_buffer'[j]) :
                  \/ j \in Dues /\ p \in MissPairs(j)
                  \/ j = due /\ p = <<request, line>>
  <2>1. CASE j = due
        BY <1>1, <1>3, <1>4, <1>5, <2>1
  <2>2. CASE j # due
    <3>1. j \in Dues /\ miss_requests'[j] = miss_requests[j]
          /\ super_in_miss_buffer'[j] = super_in_miss_buffer[j]
          BY <1>1, <1>7, <2>2
    <3> QED
        BY <1>0, <3>1, MissSlots DEF MissPairs
  <2> QED
      BY <2>1, <2>2
<1>8. \A q : q \in Missing <=> \E j \in Dues : q \in Elements(miss_requests[j])
      BY <1>0 DEF Missing, Entries, Elements
<1>9. \A q : q \in Missing' <=> \E j \in Dues' : q \in Elements(miss_requests'[j])
      BY <1>1 DEF Missing, Entries, Elements
<1>10. due \notin Dues => Elements(s) = {}
      BY <1>4 DEF Elements
<1>11. ASSUME NEW q \in Missing' PROVE q \in Missing \cup {request}
  <2>1. PICK j \in Dues' : q \in Elements(miss_requests'[j])
        BY <1>9, <1>11
  <2>2. CASE j = due
        BY <1>1, <1>3, <1>6, <1>8, <1>10, <2>1, <2>2
  <2>3. CASE j # due
        BY <1>1, <1>8, <2>1, <2>3
  <2> QED
      BY <2>2, <2>3
<1>12. ASSUME NEW q \in Missing PROVE q \in Missing'
  <2>1. PICK j \in Dues : q \in Elements(miss_requests[j])
        BY <1>8, <1>12
  <2>2. CASE j = due
        BY <1>1, <1>3, <1>6, <1>9, <2>1, <2>2
  <2>3. CASE j # due
        BY <1>1, <1>9, <2>1, <2>3
  <2> QED
      BY <2>2, <2>3
<1>13. request \in Missing'
      BY <1>1, <1>6, <1>9
<1>14. Missing' = Missing \cup {request}
      BY <1>11, <1>12, <1>13
<1> QED
    BY <1>1, <1>7, <1>14 DEF due

(* A request leaves its queue.                                             *)
LEMMA QueueLeaves ==
  ASSUME CoreTypeOK, PoolInv, NEW obj \in ReqObj, NEW line,
         NextRequest(obj, line), PopRequest(obj), Dequeue(obj)
  PROVE  LET request == Head(queued[obj])
         IN  /\ queued' \in [ReqObj -> Seq(Nat)]
             /\ \A o \in ReqObj : Len(queued'[o]) = Len(super_in_request_buffer'[o])
             /\ \A o \in ReqObj : Zip(queued'[o], super_in_request_buffer'[o]) \subseteq QueuePairs(o)
             /\ line \in Lines /\ request \in Nat /\ request \in Elements(queued[obj])
             /\ heap[request] = [req_obj |-> obj, da |-> line]
             /\ Elements(queued'[obj]) = Elements(queued[obj]) \ {request}
             /\ \A o \in ReqObj : o # obj => queued'[o] = queued[o]
             /\ Distinct(queued'["f"]) /\ Distinct(queued'["pf"])
<1> DEFINE s == queued[obj]
           t == super_in_request_buffer[obj]
           request == Head(s)
<1>0. PoolTypes /\ Beside /\ obj \in {"f", "pf"}
      BY DEF PoolInv, ReqObj
<1>1. /\ s \in Seq(Nat) /\ t \in Seq(Lines) /\ Len(s) = Len(t)
      BY <1>0, QueueSlots
<1>2. t # <<>> /\ line = Head(t)
      BY DEF NextRequest
<1>3. Distinct(s) /\ QueuePairs(obj) = Zip(s, t)
      BY <1>0 DEF PoolInv, NotTwice, QueuePairs
<1>4. /\ queued' = [queued EXCEPT ![obj] = Tail(s)] /\ queued \in [ReqObj -> Seq(Nat)]
      /\ super_in_request_buffer' = [super_in_request_buffer EXCEPT ![obj] = Tail(t)]
      /\ super_in_request_buffer \in [ReqObj -> Seq(Lines)]
      BY <1>0 DEF PopRequest, Dequeue, PoolTypes, CoreTypeOK, QueuesTypeOK
<1> HIDE DEF s, t
<1>5. /\ Zip(s, t) = Zip(Tail(s), Tail(t)) \cup {<<request, line>>}
      /\ Tail(s) \in Seq(Nat) /\ Tail(t) \in Seq(Lines) /\ Len(Tail(s)) = Len(Tail(t))
      /\ request \in Nat /\ line \in Lines /\ request \in Elements(s) /\ s # <<>>
  <2>1. s # <<>>
        BY <1>1, <1>2
  <2> QED
      BY <1>1, <1>2, <2>1, ZipTail
<1>6. Elements(Tail(s)) = Elements(s) \ {request} /\ Distinct(Tail(s))
      BY <1>1, <1>3, <1>5, TailElements
<1> HIDE DEF request
<1>7. /\ queued' \in [ReqObj -> Seq(Nat)] /\ queued'[obj] = Tail(s)
      /\ super_in_request_buffer'[obj] = Tail(t)
      /\ \A o \in ReqObj : o # obj => /\ queued'[o] = queued[o]
                                      /\ super_in_request_buffer'[o] = super_in_request_buffer[o]
      BY <1>4, <1>5
<1>8. heap[request] = [req_obj |-> obj, da |-> line]
  <2>1. <<request, line>> \in QueuePairs(obj) /\ <<request, line>>[1] = request
        /\ <<request, line>>[2] = line
        BY <1>3, <1>5
  <2> QED
      BY <2>1 DEF PoolInv, QueuesIntact, QueuePairs
<1>9. ASSUME NEW o \in ReqObj
      PROVE  /\ Len(queued'[o]) = Len(super_in_request_buffer'[o])
             /\ Zip(queued'[o], super_in_request_buffer'[o]) \subseteq QueuePairs(o)
             /\ Distinct(queued'[o])
  <2>1. CASE o = obj
        BY <1>3, <1>5, <1>6, <1>7, <2>1
  <2>2. CASE o # obj
    <3>1. Distinct(queued[o])
          BY DEF PoolInv, NotTwice, ReqObj
    <3> QED
        BY <1>0, <1>7, <2>2, <3>1 DEF Beside, QueuePairs
  <2> QED
      BY <2>1, <2>2
<1>10. "f" \in ReqObj /\ "pf" \in ReqObj
      BY DEF ReqObj
<1> QED
    BY <1>5, <1>6, <1>7, <1>8, <1>9, <1>10 DEF request, s

(* A response, and with it its request, join the queue of answers.         *)
LEMMA AnswerJoins ==
  ASSUME CoreTypeOK, PoolInv, NEW request \in Nat, NEW response \in Response,
         answered' = Append(answered, request),
         super_in_response_buffer' = Append(super_in_response_buffer, response)
  PROVE  /\ answered' \in Seq(Nat) /\ Len(answered') = Len(super_in_response_buffer')
         /\ Answering' = Answering \cup {<<request, response>>}
         /\ Answer' = Answer \cup {request}
         /\ request \notin Answer => Distinct(answered')
<1>1. /\ answered \in Seq(Nat) /\ super_in_response_buffer \in Seq(Response)
      /\ Len(answered) = Len(super_in_response_buffer) /\ Distinct(answered)
      BY AnswerSlots DEF PoolInv, NotTwice
<1>2. /\ Zip(Append(answered, request), Append(super_in_response_buffer, response))
           = Zip(answered, super_in_response_buffer) \cup {<<request, response>>}
      /\ answered' \in Seq(Nat) /\ Len(answered') = Len(super_in_response_buffer')
      BY <1>1, ZipAppend
<1>3. /\ Elements(Append(answered, request)) = Elements(answered) \cup {request}
      /\ request \notin Elements(answered) => Distinct(Append(answered, request))
      BY <1>1, AppendElements
<1> QED
    BY <1>2, <1>3 DEF Answering, Answer

-----------------------------------------------------------------------------
(* Each action keeps the invariant.                                        *)
LEMMA FillRequestInv ==
  ASSUME L1iInv, PoolInv, NEW k \in Dues, FillRequest(k)
  PROVE  PoolInv'
<1> DEFINE request == Head(miss_requests[k])
<1>0. CoreTypeOK /\ PoolTypes /\ Beside
      BY DEF L1iInv, PoolInv
<1>1. /\ UNCHANGED <<queued, answered, dropped, super_in_request_buffer, super_in_response_buffer>>
      /\ IF heap[request].req_obj = "pf" THEN FreeRequest(request) ELSE NothingFreed
      BY DEF FillRequest, FillLine, ioVars
<1>2. /\ \A j \in Dues' : /\ miss_requests'[j] \in Seq(Nat)
                          /\ Len(miss_requests'[j]) = Len(super_in_miss_buffer'[j])
      /\ DOMAIN miss_requests' = Dues' /\ Dues' \subseteq Dues
      /\ \A j \in Dues' : Zip(miss_requests'[j], super_in_miss_buffer'[j]) \subseteq MissPairs(j)
      /\ request \in Missing /\ \E line \in Lines : <<request, line>> \in MissPairs(k)
      /\ Missing' = Missing \ {request}
      BY FillLeaves
<1> HIDE DEF request
<1>3. request \in Nat /\ request \notin Free /\ request \notin Fetch /\ request \notin Pref
  <2>1. request \in Nat
        BY <1>0, <1>2, MissSlots
  <2> QED
      BY <1>2, <2>1 DEF PoolInv, Apart
<1>4. heap[request].req_obj \in {"f", "pf"}
  <2>1. request \in DOMAIN heap
        BY <1>2 DEF PoolInv, Apart
  <2>2. heap \in Seq(Object)
        BY <1>0 DEF PoolTypes
  <2>3. heap[request] \in Object
        BY <2>1, <2>2
  <2> QED
      BY <2>3 DEF Object, ReqObj
<1>5. heap[request].req_obj = "f" => request \in Answer
  <2> SUFFICES ASSUME heap[request].req_obj = "f" PROVE request \in Answer
      OBVIOUS
  <2>1. PICK line \in Lines : <<request, line>> \in MissPairs(k)
        BY <1>2
  <2>2. <<request, line>>[1] = request
        OBVIOUS
  <2>3. \E r \in Answering : r[1] = request
        BY <2>1, <2>2 DEF PoolInv, MissesIntact, MissPairs
  <2> QED
      BY <1>0, <2>3, AnswerSlots
<1>6. heap[request].req_obj = "pf" => request \notin Answer
      BY <1>0, AnswerMade
<1>7. heap' = heap
      BY <1>1 DEF FreeRequest, NothingFreed, poolVars
<1>8. /\ free_request_list' \in Seq(Nat) /\ Distinct(free_request_list')
      /\ Free' = IF heap[request].req_obj = "pf" THEN Free \cup {request} ELSE Free
  <2>1. CASE heap[request].req_obj = "pf"
        BY <1>1, <1>3, <2>1, FreedObject
  <2>2. CASE heap[request].req_obj # "pf"
        BY <1>1, <2>2 DEF NothingFreed, poolVars, PoolInv, PoolTypes, NotTwice, Free
  <2> QED
      BY <2>1, <2>2
<1>9. Fetch' = Fetch /\ Pref' = Pref /\ Answer' = Answer /\ Answering' = Answering
      BY <1>1 DEF Fetch, Pref, Answer, Answering
<1>10. PoolTypes'
  <2>1. \A j \in Dues' : miss_requests'[j] \in Seq(Nat)
        BY <1>2
  <2>2. miss_requests' \in [Dues' -> Seq(Nat)]
    <3>1. miss_requests' = [j \in Dues' |-> miss_requests'[j]]
          BY <1>2 DEF FillRequest
    <3> QED
        BY <2>1, <3>1
  <2> QED
      BY <1>0, <1>1, <1>7, <1>8, <2>2 DEF PoolTypes
<1>11. Beside'
      BY <1>0, <1>1, <1>2 DEF Beside
<1>12. QueuesIntact'
      BY <1>1, <1>7, <1>9 DEF PoolInv, QueuesIntact
<1>13. MissesIntact'
      BY <1>2, <1>7, <1>9 DEF PoolInv, MissesIntact, MissPairs
<1>14. NotTwice'
      BY <1>1, <1>8 DEF PoolInv, NotTwice
<1>15. Apart'
  <2>1. CASE heap[request].req_obj = "pf"
        BY <1>1, <1>2, <1>3, <1>6, <1>7, <1>8, <1>9, <2>1 DEF PoolInv, Apart
  <2>2. CASE heap[request].req_obj = "f"
        BY <1>1, <1>2, <1>3, <1>5, <1>7, <1>8, <1>9, <2>2 DEF PoolInv, Apart
  <2> QED
      BY <1>4, <2>1, <2>2
<1> QED
    BY <1>10, <1>11, <1>12, <1>13, <1>14, <1>15 DEF PoolInv

LEMMA ServeFetchInv ==
  ASSUME L1iInv, PoolInv, NEW line \in Lines, ServeFetch(line)
  PROVE  PoolInv'
<1> DEFINE request == Head(queued["f"])
<1>0. CoreTypeOK /\ PoolTypes /\ Beside /\ "f" \in ReqObj /\ "pf" \in ReqObj
      BY DEF L1iInv, PoolInv, ReqObj
<1>1. /\ NextRequest("f", line) /\ PopRequest("f") /\ Dequeue("f")
      /\ UNCHANGED <<heap, free_request_list, dropped>>
      /\ answered' = Append(answered, request)
      BY DEF ServeFetch, FetchHit, FetchMerge, FetchMiss, Respond, NothingFreed, poolVars
<1>2. PICK time \in Nat :
        /\ super_in_response_buffer' =
             Append(super_in_response_buffer, [da |-> line, response_time |-> time])
        /\ \/ UNCHANGED <<miss_requests, super_in_miss_buffer>>
           \/ AllocateMiss(line) /\ RecordMiss(request) /\ time = steps + MissLatency
  <2>1. steps \in Nat /\ steps + MissLatency \in Nat
        BY <1>0, L1iAssumption DEF CoreTypeOK, ControlTypeOK
  <2>2. InCompletion(line) => super_in_request_completion[line] \in Nat
        BY <1>0 DEF CoreTypeOK, MshrTypeOK, InCompletion
  <2> QED
      BY <2>1, <2>2 DEF ServeFetch, FetchHit, FetchMerge, FetchMiss, Respond, mshrVars
<1> DEFINE response == [da |-> line, response_time |-> time]
<1>3. /\ queued' \in [ReqObj -> Seq(Nat)]
      /\ \A o \in ReqObj : Len(queued'[o]) = Len(super_in_request_buffer'[o])
      /\ \A o \in ReqObj : Zip(queued'[o], super_in_request_buffer'[o]) \subseteq QueuePairs(o)
      /\ request \in Nat /\ request \in Elements(queued["f"])
      /\ heap[request] = [req_obj |-> "f", da |-> line]
      /\ Elements(queued'["f"]) = Elements(queued["f"]) \ {request}
      /\ \A o \in ReqObj : o # "f" => queued'[o] = queued[o]
      /\ Distinct(queued'["f"]) /\ Distinct(queued'["pf"])
      BY <1>0, <1>1, QueueLeaves
<1> HIDE DEF request
<1>4. /\ Fetch' = Fetch \ {request} /\ request \in Fetch /\ Pref' = Pref
      /\ Free' = Free
      BY <1>0, <1>1, <1>3 DEF Fetch, Pref, Free
<1>5. request \notin Answer /\ request \notin Missing /\ request \notin Pref
  <2>1. request \notin Answer /\ request \notin Missing
        BY <1>4 DEF PoolInv, Apart
  <2>2. request \notin Pref
        BY <1>0, <1>3, QueueMade DEF Pref
  <2> QED
      BY <2>1, <2>2
<1>6. /\ response \in Response /\ response.da = line /\ response.response_time = time
      BY DEF Response
<1>7. /\ answered' \in Seq(Nat) /\ Len(answered') = Len(super_in_response_buffer')
      /\ Answering' = Answering \cup {<<request, response>>}
      /\ Answer' = Answer \cup {request} /\ Distinct(answered')
      BY <1>0, <1>1, <1>2, <1>3, <1>5, <1>6, AnswerJoins
<1> HIDE DEF response
<1>8. /\ DOMAIN miss_requests' = Dues' /\ miss_requests' \in [Dues' -> Seq(Nat)]
      /\ \A j \in Dues' : Len(miss_requests'[j]) = Len(super_in_miss_buffer'[j])
      /\ \A j \in Dues' : \A p \in Zip(miss_requests'[j], super_in_miss_buffer'[j]) :
           \/ j \in Dues /\ p \in MissPairs(j)
           \/ j = time /\ p = <<request, line>>
      /\ Missing' = Missing \/ Missing' = Missing \cup {request}
  <2>1. CASE UNCHANGED <<miss_requests, super_in_miss_buffer>>
        BY <1>0, <2>1 DEF Dues, PoolTypes, Beside, MissPairs, Missing
  <2>2. CASE AllocateMiss(line) /\ RecordMiss(request) /\ time = steps + MissLatency
    <3>1. /\ DOMAIN miss_requests' = Dues'
          /\ \A j \in Dues' : /\ miss_requests'[j] \in Seq(Nat)
                              /\ Len(miss_requests'[j]) = Len(super_in_miss_buffer'[j])
          /\ \A j \in Dues' : \A p \in Zip(miss_requests'[j], super_in_miss_buffer'[j]) :
               \/ j \in Dues /\ p \in MissPairs(j)
               \/ j = time /\ p = <<request, line>>
          /\ Missing' = Missing \cup {request}
          BY <1>0, <1>3, <2>2, MissJoins
    <3>2. miss_requests' = [j \in Dues' |-> miss_requests'[j]]
          BY <2>2, <3>1 DEF RecordMiss
    <3>3. miss_requests' \in [Dues' -> Seq(Nat)]
          BY <3>1, <3>2
    <3> QED
        BY <3>1, <3>3
  <2> QED
      BY <1>2, <2>1, <2>2
<1>9. PoolTypes'
      BY <1>0, <1>1, <1>3, <1>7, <1>8 DEF PoolTypes
<1>10. Beside'
      BY <1>3, <1>7, <1>8 DEF Beside
<1>11. QueuesIntact'
  <2>1. \A p \in Answering' : heap[p[1]] = [req_obj |-> "f", da |-> p[2].da]
    <3>1. <<request, response>>[1] = request /\ <<request, response>>[2] = response
          OBVIOUS
    <3> QED
        BY <1>3, <1>6, <1>7, <3>1 DEF PoolInv, QueuesIntact
  <2> QED
      BY <1>1, <1>3, <2>1 DEF PoolInv, QueuesIntact, QueuePairs
<1>12. MissesIntact'
  <2> SUFFICES ASSUME NEW j \in Dues', NEW p \in Zip(miss_requests'[j], super_in_miss_buffer'[j])
               PROVE  /\ heap[p[1]].da = p[2]
                      /\ heap[p[1]].req_obj = "f" =>
                           \E r \in Answering' : r[1] = p[1] /\ r[2].response_time = j
      BY <1>1 DEF MissesIntact
  <2>1. CASE j \in Dues /\ p \in MissPairs(j)
        BY <1>7, <2>1 DEF PoolInv, MissesIntact, MissPairs
  <2>2. CASE j = time /\ p = <<request, line>>
    <3>1. p[1] = request /\ p[2] = line /\ heap[request].da = line
          BY <1>3, <2>2
    <3>2. <<request, response>>[1] = request /\ <<request, response>>[2] = response
          OBVIOUS
    <3> QED
        BY <1>6, <1>7, <2>2, <3>1, <3>2
  <2> QED
      BY <1>8, <2>1, <2>2
<1>13. NotTwice'
      BY <1>1, <1>3, <1>7 DEF PoolInv, NotTwice
<1>14. Apart'
      BY <1>1, <1>4, <1>5, <1>7, <1>8 DEF PoolInv, Apart
<1> QED
    BY <1>9, <1>10, <1>11, <1>12, <1>13, <1>14 DEF PoolInv

LEMMA FinishPrefetchInv ==
  ASSUME L1iInv, PoolInv, NEW line \in Lines, FinishPrefetch(line)
  PROVE  PoolInv'
<1> DEFINE request == Head(queued["pf"])
<1>0. CoreTypeOK /\ PoolTypes /\ Beside /\ "f" \in ReqObj /\ "pf" \in ReqObj
      BY DEF L1iInv, PoolInv, ReqObj
<1>1. /\ NextRequest("pf", line) /\ PopRequest("pf") /\ Dequeue("pf") /\ FreeRequest(request)
      /\ UNCHANGED <<miss_requests, answered, dropped, super_in_miss_buffer,
                     super_in_response_buffer>>
      BY DEF FinishPrefetch, PrefetchMerge, PrefetchHit, mshrVars
<1>2. /\ queued' \in [ReqObj -> Seq(Nat)]
      /\ \A o \in ReqObj : Len(queued'[o]) = Len(super_in_request_buffer'[o])
      /\ \A o \in ReqObj : Zip(queued'[o], super_in_request_buffer'[o]) \subseteq QueuePairs(o)
      /\ request \in Nat /\ request \in Elements(queued["pf"])
      /\ heap[request] = [req_obj |-> "pf", da |-> line]
      /\ Elements(queued'["pf"]) = Elements(queued["pf"]) \ {request}
      /\ \A o \in ReqObj : o # "pf" => queued'[o] = queued[o]
      /\ Distinct(queued'["f"]) /\ Distinct(queued'["pf"])
      BY <1>0, <1>1, QueueLeaves
<1> HIDE DEF request
<1>3. Pref' = Pref \ {request} /\ request \in Pref /\ Fetch' = Fetch
      BY <1>0, <1>2 DEF Pref, Fetch
<1>4. request \notin Free /\ request \notin Missing /\ request \notin Answer /\ request \notin Fetch
      /\ request \notin dropped
  <2>1. heap[request].req_obj = "pf"
        BY <1>2
  <2>2. request \notin Answer
        BY <1>0, <2>1, AnswerMade
  <2>3. request \notin Fetch
        BY <1>0, <2>1, QueueMade DEF Fetch
  <2> QED
      BY <1>3, <2>2, <2>3 DEF PoolInv, Apart
<1>5. /\ heap' = heap /\ free_request_list' \in Seq(Nat) /\ Distinct(free_request_list')
      /\ Free' = Free \cup {request}
      BY <1>1, <1>2, <1>4, FreedObject
<1>6. /\ Answer' = Answer /\ Answering' = Answering /\ Missing' = Missing /\ Dues' = Dues
      BY <1>1 DEF Answer, Answering, Missing, Dues
<1>7. PoolTypes' /\ Beside'
      BY <1>0, <1>1, <1>2, <1>5, <1>6 DEF PoolTypes, Beside
<1>8. QueuesIntact'
      BY <1>2, <1>5, <1>6 DEF PoolInv, QueuesIntact, QueuePairs
<1>9. MissesIntact'
      BY <1>1, <1>5, <1>6 DEF PoolInv, MissesIntact
<1>10. NotTwice'
      BY <1>1, <1>2, <1>5 DEF PoolInv, NotTwice
<1>11. Apart'
      BY <1>1, <1>3, <1>4, <1>5, <1>6 DEF PoolInv, Apart
<1> QED
    BY <1>7, <1>8, <1>9, <1>10, <1>11 DEF PoolInv

LEMMA IssuePrefetchInv ==
  ASSUME L1iInv, PoolInv, NEW line \in Lines, IssuePrefetch(line)
  PROVE  PoolInv'
<1> DEFINE request == Head(queued["pf"])
<1>0. CoreTypeOK /\ PoolTypes /\ Beside /\ "f" \in ReqObj /\ "pf" \in ReqObj
      BY DEF L1iInv, PoolInv, ReqObj
<1>1. /\ NextRequest("pf", line) /\ PopRequest("pf") /\ Dequeue("pf")
      /\ AllocateMiss(line) /\ RecordMiss(request)
      /\ UNCHANGED <<heap, free_request_list, answered, dropped, super_in_response_buffer>>
      BY DEF IssuePrefetch, PrefetchMiss, PrefetchMissable, NothingFreed, poolVars
<1>2. /\ queued' \in [ReqObj -> Seq(Nat)]
      /\ \A o \in ReqObj : Len(queued'[o]) = Len(super_in_request_buffer'[o])
      /\ \A o \in ReqObj : Zip(queued'[o], super_in_request_buffer'[o]) \subseteq QueuePairs(o)
      /\ request \in Nat /\ request \in Elements(queued["pf"])
      /\ heap[request] = [req_obj |-> "pf", da |-> line]
      /\ Elements(queued'["pf"]) = Elements(queued["pf"]) \ {request}
      /\ \A o \in ReqObj : o # "pf" => queued'[o] = queued[o]
      /\ Distinct(queued'["f"]) /\ Distinct(queued'["pf"])
      BY <1>0, <1>1, QueueLeaves
<1> HIDE DEF request
<1>3. Pref' = Pref \ {request} /\ request \in Pref /\ Fetch' = Fetch
      BY <1>0, <1>2 DEF Pref, Fetch
<1>4. request \notin Free /\ request \notin Missing /\ request \notin Answer /\ request \notin Fetch
      /\ request \notin dropped
  <2>1. heap[request].req_obj = "pf"
        BY <1>2
  <2>2. request \notin Answer
        BY <1>0, <2>1, AnswerMade
  <2>3. request \notin Fetch
        BY <1>0, <2>1, QueueMade DEF Fetch
  <2> QED
      BY <1>3, <2>2, <2>3 DEF PoolInv, Apart
<1>5. /\ DOMAIN miss_requests' = Dues' /\ miss_requests' \in [Dues' -> Seq(Nat)]
      /\ \A j \in Dues' : Len(miss_requests'[j]) = Len(super_in_miss_buffer'[j])
      /\ \A j \in Dues' : \A p \in Zip(miss_requests'[j], super_in_miss_buffer'[j]) :
           (j \in Dues /\ p \in MissPairs(j)) \/ p = <<request, line>>
      /\ Missing' = Missing \cup {request}
  <2>1. /\ DOMAIN miss_requests' = Dues'
        /\ \A j \in Dues' : /\ miss_requests'[j] \in Seq(Nat)
                            /\ Len(miss_requests'[j]) = Len(super_in_miss_buffer'[j])
        /\ \A j \in Dues' : \A p \in Zip(miss_requests'[j], super_in_miss_buffer'[j]) :
             \/ j \in Dues /\ p \in MissPairs(j)
             \/ j = steps + MissLatency /\ p = <<request, line>>
        /\ Missing' = Missing \cup {request}
        BY <1>0, <1>1, <1>2, MissJoins
  <2>2. miss_requests' = [j \in Dues' |-> miss_requests'[j]]
        BY <1>1, <2>1 DEF RecordMiss
  <2>3. miss_requests' \in [Dues' -> Seq(Nat)]
        BY <2>1, <2>2
  <2> QED
      BY <2>1, <2>3
<1>6. /\ Answer' = Answer /\ Answering' = Answering /\ Free' = Free
      BY <1>1 DEF Answer, Answering, Free
<1>7. PoolTypes' /\ Beside'
      BY <1>0, <1>1, <1>2, <1>5 DEF PoolTypes, Beside
<1>8. QueuesIntact'
      BY <1>1, <1>2, <1>6 DEF PoolInv, QueuesIntact, QueuePairs
<1>9. MissesIntact'
  <2> SUFFICES ASSUME NEW j \in Dues', NEW p \in Zip(miss_requests'[j], super_in_miss_buffer'[j])
               PROVE  /\ heap[p[1]].da = p[2]
                      /\ heap[p[1]].req_obj = "f" =>
                           \E r \in Answering : r[1] = p[1] /\ r[2].response_time = j
      BY <1>1, <1>6 DEF MissesIntact
  <2>1. CASE j \in Dues /\ p \in MissPairs(j)
        BY <2>1 DEF PoolInv, MissesIntact, MissPairs
  <2>2. CASE p = <<request, line>>
    <3>1. p[1] = request /\ p[2] = line
          BY <2>2
    <3>2. heap[request].da = line /\ heap[request].req_obj = "pf"
          BY <1>2
    <3> QED
        BY <3>1, <3>2
  <2> QED
      BY <1>5, <2>1, <2>2
<1>10. NotTwice'
      BY <1>1, <1>2 DEF PoolInv, NotTwice
<1>11. Apart'
      BY <1>1, <1>3, <1>4, <1>5, <1>6 DEF PoolInv, Apart
<1> QED
    BY <1>7, <1>8, <1>9, <1>10, <1>11 DEF PoolInv

(* The request of a response that is due is not missed any more: what is   *)
(* missed at the client's turn is due later.                               *)
LEMMA ReceiveResponseInv ==
  ASSUME L1iInv, PoolInv, ReceiveResponse
  PROVE  PoolInv'
<1> DEFINE request  == Head(answered)
           response == Head(super_in_response_buffer)
<1>0. CoreTypeOK /\ PoolTypes /\ Beside
      BY DEF L1iInv, PoolInv
<1>1. /\ pc = "cpu" /\ super_in_response_buffer # <<>> /\ response.response_time <= steps
      /\ answered' = Tail(answered) /\ super_in_response_buffer' = Tail(super_in_response_buffer)
      /\ FreeRequest(request)
      /\ UNCHANGED <<miss_requests, queued, dropped, super_in_miss_buffer, super_in_request_buffer>>
      BY DEF ReceiveResponse, ClientReceive, ResponseReady, mshrVars
<1>2. /\ answered \in Seq(Nat) /\ super_in_response_buffer \in Seq(Response)
      /\ Len(answered) = Len(super_in_response_buffer) /\ Distinct(answered)
      BY <1>0, AnswerSlots DEF PoolInv, NotTwice
<1>3. answered # <<>>
      BY <1>1, <1>2
<1>4. /\ Zip(answered, super_in_response_buffer)
           = Zip(Tail(answered), Tail(super_in_response_buffer)) \cup {<<request, response>>}
      /\ Tail(answered) \in Seq(Nat) /\ Len(Tail(answered)) = Len(Tail(super_in_response_buffer))
      /\ request \in Nat /\ response \in Response /\ request \in Elements(answered)
      BY <1>2, <1>3, ZipTail
<1>5. Elements(Tail(answered)) = Elements(answered) \ {request} /\ Distinct(Tail(answered))
      BY <1>2, <1>3, TailElements
<1> HIDE DEF request, response
<1>6. /\ Answering = Answering' \cup {<<request, response>>}
      /\ answered' \in Seq(Nat) /\ Len(answered') = Len(super_in_response_buffer')
      /\ Answer' = Answer \ {request} /\ request \in Answer /\ Distinct(answered')
      BY <1>1, <1>4, <1>5 DEF Answering, Answer
<1>7. \A r \in Answering : r[1] = request => r = <<request, response>>
  <2> SUFFICES ASSUME NEW r \in Answering, r[1] = request, r \in Answering' PROVE FALSE
      BY <1>6
  <2>1. Tail(super_in_response_buffer) \in Seq(Response)
        BY <1>1, <1>2
  <2>2. r[1] \in Elements(Tail(answered))
        BY <1>1, <1>4, <2>1, ZipTypes DEF Answering
  <2> QED
      BY <1>5, <2>2
<1>8. heap[request].req_obj = "f"
      BY <1>0, <1>6, AnswerMade
<1>9. request \notin Missing
  <2> SUFFICES ASSUME request \in Missing PROVE FALSE
      OBVIOUS
  <2>1. PICK k \in Dues : \E p \in MissPairs(k) : p[1] = request
        BY <1>0, MissSlots
  <2>2. \E r \in Answering : r[1] = request /\ r[2].response_time = k
        BY <1>8, <2>1 DEF PoolInv, MissesIntact, MissPairs
  <2>3. <<request, response>>[2] = response
        OBVIOUS
  <2>4. response.response_time = k
        BY <1>7, <2>2, <2>3
  <2>5. steps < k /\ steps \in Nat /\ k \in Nat
        BY <1>1, <2>1 DEF L1iInv, DueWindow, CoreTypeOK, ControlTypeOK, MshrTypeOK
  <2> QED
      BY <1>1, <2>4, <2>5
<1>10. request \notin Pref
      BY <1>0, <1>8, QueueMade DEF Pref, ReqObj
<1>11. request \notin Free /\ request \notin Fetch /\ request \notin dropped
      BY <1>6 DEF PoolInv, Apart
<1>12. /\ heap' = heap /\ free_request_list' \in Seq(Nat) /\ Distinct(free_request_list')
       /\ Free' = Free \cup {request}
      BY <1>1, <1>4, <1>11, FreedObject
<1>13. /\ Fetch' = Fetch /\ Pref' = Pref /\ Missing' = Missing /\ Dues' = Dues
      BY <1>1 DEF Fetch, Pref, Missing, Dues
<1>14. PoolTypes' /\ Beside'
      BY <1>0, <1>1, <1>6, <1>12, <1>13 DEF PoolTypes, Beside
<1>15. QueuesIntact'
      BY <1>1, <1>6, <1>12 DEF PoolInv, QueuesIntact
<1>16. MissesIntact'
  <2> SUFFICES ASSUME NEW k \in Dues, NEW p \in MissPairs(k)
               PROVE  /\ heap[p[1]].da = p[2]
                      /\ heap[p[1]].req_obj = "f" =>
                           \E r \in Answering' : r[1] = p[1] /\ r[2].response_time = k
      BY <1>1, <1>12, <1>13 DEF MissesIntact, MissPairs
  <2>1. /\ heap[p[1]].da = p[2]
        /\ heap[p[1]].req_obj = "f" =>
             \E r \in Answering : r[1] = p[1] /\ r[2].response_time = k
        BY DEF PoolInv, MissesIntact, MissPairs
  <2>2. p[1] # request
        BY <1>0, <1>9, MissSlots
  <2>3. <<request, response>>[1] = request
        OBVIOUS
  <2> QED
      BY <1>6, <2>1, <2>2, <2>3
<1>17. NotTwice'
      BY <1>1, <1>6, <1>12 DEF PoolInv, NotTwice
<1>18. Apart'
      BY <1>1, <1>6, <1>9, <1>10, <1>11, <1>12, <1>13 DEF PoolInv, Apart
<1> QED
    BY <1>14, <1>15, <1>16, <1>17, <1>18 DEF PoolInv

-----------------------------------------------------------------------------
(* Both queues of the requester after push_back of a request and its line. *)
LEMMA SendPushes ==
  ASSUME CoreTypeOK, PoolInv, NEW obj \in ReqObj, NEW line \in Lines, NEW request \in Nat,
         request \notin Fetch \cup Pref
  PROVE  LET pushed == [queued EXCEPT ![obj] = Append(@, request)]
             lines  == [super_in_request_buffer EXCEPT ![obj] = Append(@, line)]
         IN  \A o \in ReqObj :
               /\ pushed[o] \in Seq(Nat) /\ lines[o] \in Seq(Lines)
               /\ Len(pushed[o]) = Len(lines[o])
               /\ Zip(pushed[o], lines[o])
                    = QueuePairs(o) \cup IF o = obj THEN {<<request, line>>} ELSE {}
               /\ Elements(pushed[o])
                    = Elements(queued[o]) \cup IF o = obj THEN {request} ELSE {}
               /\ Distinct(pushed[o])
<1> DEFINE pushed == [queued EXCEPT ![obj] = Append(@, request)]
           lines  == [super_in_request_buffer EXCEPT ![obj] = Append(@, line)]
<1> SUFFICES ASSUME NEW o \in ReqObj
             PROVE  /\ pushed[o] \in Seq(Nat) /\ lines[o] \in Seq(Lines)
                    /\ Len(pushed[o]) = Len(lines[o])
                    /\ Zip(pushed[o], lines[o])
                         = QueuePairs(o) \cup IF o = obj THEN {<<request, line>>} ELSE {}
                    /\ Elements(pushed[o])
                         = Elements(queued[o]) \cup IF o = obj THEN {request} ELSE {}
                    /\ Distinct(pushed[o])
    OBVIOUS
<1>1. DOMAIN queued = ReqObj /\ DOMAIN super_in_request_buffer = ReqObj
      BY DEF PoolInv, PoolTypes, CoreTypeOK, QueuesTypeOK
<1>2. /\ queued[o] \in Seq(Nat) /\ super_in_request_buffer[o] \in Seq(Lines)
      /\ Len(queued[o]) = Len(super_in_request_buffer[o])
      BY QueueSlots DEF PoolInv
<1>3. Distinct(queued[o]) /\ request \notin Elements(queued[o])
      BY DEF PoolInv, NotTwice, Fetch, Pref, ReqObj
<1>4. CASE o # obj
  <2>1. pushed[o] = queued[o] /\ lines[o] = super_in_request_buffer[o]
        BY <1>1, <1>4
  <2> HIDE DEF pushed, lines
  <2> QED
      BY <1>2, <1>3, <1>4, <2>1 DEF QueuePairs
<1>5. CASE o = obj
  <2>1. /\ pushed[o] = Append(queued[o], request)
        /\ lines[o] = Append(super_in_request_buffer[o], line)
        BY <1>1, <1>5
  <2> HIDE DEF pushed, lines
  <2>2. /\ Zip(pushed[o], lines[o])
             = Zip(queued[o], super_in_request_buffer[o]) \cup {<<request, line>>}
        /\ pushed[o] \in Seq(Nat) /\ lines[o] \in Seq(Lines)
        /\ Len(pushed[o]) = Len(lines[o])
    <3> DEFINE s == queued[o]
               t == super_in_request_buffer[o]
    <3>1. s \in Seq(Nat) /\ t \in Seq(Lines) /\ Len(s) = Len(t)
          BY <1>2
    <3> HIDE DEF s, t
    <3>2. /\ Zip(Append(s, request), Append(t, line)) = Zip(s, t) \cup {<<request, line>>}
          /\ Append(s, request) \in Seq(Nat) /\ Append(t, line) \in Seq(Lines)
          /\ Len(Append(s, request)) = Len(Append(t, line))
          BY <3>1, ZipAppend
    <3> QED
        BY <2>1, <3>2 DEF s, t
  <2>3. /\ Elements(pushed[o]) = Elements(queued[o]) \cup {request} /\ Distinct(pushed[o])
        BY <1>2, <1>3, <2>1, AppendElements
  <2> QED
      BY <1>5, <2>2, <2>3 DEF QueuePairs
<1> QED
    BY <1>4, <1>5

(* A request that is sent is queued, and the one that is lost, if any, is  *)
(* a prefetch: the new one, or the oldest.                                 *)
LEMMA SendQueues ==
  ASSUME CoreTypeOK, PoolInv, NEW obj \in ReqObj, NEW line \in Lines, SendRequest(obj, line),
         NextFree \in Nat, NextFree \notin Fetch \cup Pref
  PROVE  /\ queued' \in [ReqObj -> Seq(Nat)]
         /\ \A o \in ReqObj : Len(queued'[o]) = Len(super_in_request_buffer'[o])
         /\ \A o \in ReqObj : \A p \in Zip(queued'[o], super_in_request_buffer'[o]) :
              p \in QueuePairs(o) \/ (o = obj /\ p = <<NextFree, line>>)
         /\ \A o \in ReqObj : Distinct(queued'[o])
         /\ \E gone \in SUBSET (Pref \cup {NextFree}) :
              /\ dropped' = dropped \cup gone
              /\ Fetch' \cup Pref' \cup gone = Fetch \cup Pref \cup {NextFree}
              /\ gone \cap (Fetch' \cup Pref') = {}
              /\ Fetch' \subseteq Fetch \cup {NextFree} /\ Pref' \subseteq Pref \cup {NextFree}
<1> DEFINE request == NextFree
           pushed == [queued EXCEPT ![obj] = Append(@, request)]
           lines  == [super_in_request_buffer EXCEPT ![obj] = Append(@, line)]
           ignored == obj = "pf" /\ InCompletion(line)
<1>0. PoolTypes /\ Beside /\ "f" \in ReqObj /\ "pf" \in ReqObj
      BY DEF PoolInv, ReqObj
<1>1. /\ queued' = IF ignored THEN queued
                   ELSE IF Len(pushed["pf"]) > InRequestBufferSize
                   THEN [pushed EXCEPT !["pf"] = Tail(@)] ELSE pushed
      /\ dropped' = dropped \cup IF ignored THEN {request}
                                 ELSE IF Len(pushed["pf"]) > InRequestBufferSize
                                 THEN {Head(pushed["pf"])} ELSE {}
      /\ super_in_request_buffer' =
           IF ignored THEN super_in_request_buffer
           ELSE IF Len(lines["pf"]) > InRequestBufferSize
           THEN [lines EXCEPT !["pf"] = Tail(@)] ELSE lines
      BY DEF SendRequest, ClientSend, sub_send_request
<1>2. \A o \in ReqObj :
        /\ pushed[o] \in Seq(Nat) /\ lines[o] \in Seq(Lines)
        /\ Len(pushed[o]) = Len(lines[o])
        /\ Zip(pushed[o], lines[o])
             = QueuePairs(o) \cup IF o = obj THEN {<<request, line>>} ELSE {}
        /\ Elements(pushed[o])
             = Elements(queued[o]) \cup IF o = obj THEN {request} ELSE {}
        /\ Distinct(pushed[o])
      BY SendPushes
<1>3. DOMAIN pushed = ReqObj /\ DOMAIN lines = ReqObj
      BY DEF PoolInv, PoolTypes, CoreTypeOK, QueuesTypeOK
<1>4. pushed \in [ReqObj -> Seq(Nat)]
  <2>1. pushed = [o \in ReqObj |-> pushed[o]]
        BY <1>3
  <2> HIDE DEF pushed, lines
  <2> QED
      BY <1>2, <2>1
<1> HIDE DEF pushed, lines, request
<1>5. CASE ignored
  <2>1. /\ queued' = queued /\ dropped' = dropped \cup {request}
        /\ super_in_request_buffer' = super_in_request_buffer
        BY <1>1, <1>5
  <2> HIDE DEF ignored
  <2>2. Fetch' = Fetch /\ Pref' = Pref
        BY <2>1 DEF Fetch, Pref
  <2>3. \A o \in ReqObj : Distinct(queued[o])
        BY DEF PoolInv, NotTwice, ReqObj
  <2>4. {request} \in SUBSET (Pref \cup {request})
        OBVIOUS
  <2>5. \E gone \in SUBSET (Pref \cup {NextFree}) :
          /\ dropped' = dropped \cup gone
          /\ Fetch' \cup Pref' \cup gone = Fetch \cup Pref \cup {NextFree}
          /\ gone \cap (Fetch' \cup Pref') = {}
          /\ Fetch' \subseteq Fetch \cup {NextFree} /\ Pref' \subseteq Pref \cup {NextFree}
        BY <2>1, <2>2, <2>4 DEF request
  <2> QED
      BY <1>0, <2>1, <2>3, <2>5 DEF PoolTypes, Beside, QueuePairs
<1>6. Fetch \cup Pref \cup {request} = Elements(pushed["f"]) \cup Elements(pushed["pf"])
      BY <1>0, <1>2 DEF Fetch, Pref, ReqObj
<1>7. Elements(pushed["f"]) \subseteq Fetch \cup {request}
      /\ Elements(pushed["pf"]) \subseteq Pref \cup {request}
      BY <1>0, <1>2 DEF Fetch, Pref
<1>8. Elements(pushed["f"]) \cap Elements(pushed["pf"]) = {}
  <2>1. Fetch \cap Pref = {}
        BY <1>0, QueueMade DEF Fetch, Pref
  <2>2. request \notin Fetch \cup Pref
        BY DEF request
  <2>3. obj = "f" \/ obj = "pf"
        BY DEF ReqObj
  <2>4. \/ Elements(pushed["f"]) = Fetch \cup {request} /\ Elements(pushed["pf"]) = Pref
        \/ Elements(pushed["f"]) = Fetch /\ Elements(pushed["pf"]) = Pref \cup {request}
        BY <1>0, <1>2, <2>3 DEF Fetch, Pref
  <2> QED
      BY <2>1, <2>2, <2>4
<1>9. CASE ~ ignored /\ ~ (Len(pushed["pf"]) > InRequestBufferSize)
  <2>1. queued' = pushed /\ dropped' = dropped /\ super_in_request_buffer' = lines
        BY <1>0, <1>1, <1>2, <1>9
  <2>2. Fetch' = Elements(pushed["f"]) /\ Pref' = Elements(pushed["pf"])
        BY <2>1 DEF Fetch, Pref
  <2>3. {} \in SUBSET (Pref \cup {request})
        OBVIOUS
  <2>4. \E gone \in SUBSET (Pref \cup {NextFree}) :
          /\ dropped' = dropped \cup gone
          /\ Fetch' \cup Pref' \cup gone = Fetch \cup Pref \cup {NextFree}
          /\ gone \cap (Fetch' \cup Pref') = {}
          /\ Fetch' \subseteq Fetch \cup {NextFree} /\ Pref' \subseteq Pref \cup {NextFree}
        BY <1>6, <1>7, <2>1, <2>2, <2>3 DEF request
  <2>5. queued' \in [ReqObj -> Seq(Nat)]
        BY <1>4, <2>1
  <2>6. \A o \in ReqObj : Len(queued'[o]) = Len(super_in_request_buffer'[o]) /\ Distinct(queued'[o])
        BY <1>2, <2>1
  <2>7. ASSUME NEW o \in ReqObj, NEW p \in Zip(queued'[o], super_in_request_buffer'[o])
        PROVE  p \in QueuePairs(o) \/ (o = obj /\ p = <<NextFree, line>>)
    <3>1. p \in QueuePairs(o) \cup IF o = obj THEN {<<request, line>>} ELSE {}
          BY <1>2, <2>1, <2>7, Zenon
    <3> HIDE DEF QueuePairs
    <3> QED
        BY <3>1 DEF request
  <2> QED
      BY <2>4, <2>5, <2>6, <2>7
<1>10. CASE ~ ignored /\ Len(pushed["pf"]) > InRequestBufferSize
  <2>1. /\ queued' = [pushed EXCEPT !["pf"] = Tail(@)]
        /\ dropped' = dropped \cup {Head(pushed["pf"])}
        /\ super_in_request_buffer' = [lines EXCEPT !["pf"] = Tail(@)]
        BY <1>0, <1>1, <1>2, <1>10
  <2>2. pushed["pf"] # <<>>
        BY <1>10, L1iAssumption
  <2>3. /\ queued'["pf"] = Tail(pushed["pf"]) /\ super_in_request_buffer'["pf"] = Tail(lines["pf"])
        /\ \A o \in ReqObj : o # "pf" => /\ queued'[o] = pushed[o]
                                         /\ super_in_request_buffer'[o] = lines[o]
        /\ DOMAIN queued' = ReqObj
        BY <1>0, <1>3, <2>1
  <2>4. /\ Zip(Tail(pushed["pf"]), Tail(lines["pf"])) \subseteq Zip(pushed["pf"], lines["pf"])
        /\ Tail(pushed["pf"]) \in Seq(Nat)
        /\ Len(Tail(pushed["pf"])) = Len(Tail(lines["pf"]))
        /\ Head(pushed["pf"]) \in Elements(pushed["pf"])
        BY <1>0, <1>2, <2>2, ZipTail
  <2>5. /\ Elements(Tail(pushed["pf"])) = Elements(pushed["pf"]) \ {Head(pushed["pf"])}
        /\ Distinct(Tail(pushed["pf"]))
        BY <1>0, <1>2, <2>2, TailElements
  <2>6. queued' = [o \in ReqObj |-> queued'[o]]
        BY <1>3, <2>1, <2>3
  <2>7. \A o \in ReqObj : queued'[o] \in Seq(Nat)
        BY <1>2, <2>3, <2>4
  <2>8. /\ Fetch' = Elements(pushed["f"])
        /\ Pref' = Elements(pushed["pf"]) \ {Head(pushed["pf"])}
        BY <1>0, <2>3, <2>5 DEF Fetch, Pref
  <2>9. {Head(pushed["pf"])} \in SUBSET (Pref \cup {request})
        BY <1>7, <2>4
  <2>10. \E gone \in SUBSET (Pref \cup {NextFree}) :
           /\ dropped' = dropped \cup gone
           /\ Fetch' \cup Pref' \cup gone = Fetch \cup Pref \cup {NextFree}
           /\ gone \cap (Fetch' \cup Pref') = {}
           /\ Fetch' \subseteq Fetch \cup {NextFree} /\ Pref' \subseteq Pref \cup {NextFree}
    <3> DEFINE gone == {Head(pushed["pf"])}
    <3>1. gone \subseteq Elements(pushed["pf"]) /\ Pref' = Elements(pushed["pf"]) \ gone
          BY <2>4, <2>8
    <3>2. gone \in SUBSET (Pref \cup {request}) /\ dropped' = dropped \cup gone
          BY <2>1, <2>9
    <3> HIDE DEF gone
    <3>3. Fetch' \cup Pref' \cup gone = Fetch \cup Pref \cup {request}
          BY <1>6, <2>8, <3>1
    <3>4. gone \cap (Fetch' \cup Pref') = {}
          BY <1>8, <2>8, <3>1
    <3> QED
        BY <1>7, <2>8, <3>1, <3>2, <3>3, <3>4 DEF request
  <2>11. \A o \in ReqObj : Len(queued'[o]) = Len(super_in_request_buffer'[o])
         BY <1>2, <2>3, <2>4
  <2>12. \A o \in ReqObj : \A p \in Zip(queued'[o], super_in_request_buffer'[o]) :
              p \in QueuePairs(o) \/ (o = obj /\ p = <<request, line>>)
         BY <1>2, <2>3, <2>4
  <2>13. \A o \in ReqObj : Distinct(queued'[o])
         BY <1>2, <2>3, <2>5
  <2> QED
      BY <2>6, <2>7, <2>10, <2>11, <2>12, <2>13 DEF request
<1> QED
    BY <1>5, <1>9, <1>10

LEMMA SendRequestInv ==
  ASSUME L1iInv, PoolInv, NEW obj \in ReqObj, NEW line \in Lines, SendRequest(obj, line)
  PROVE  PoolInv'
<1>0. CoreTypeOK /\ PoolTypes /\ Beside /\ NewRequest(obj, line)
      BY DEF L1iInv, PoolInv, SendRequest
<1>1. UNCHANGED <<miss_requests, answered, super_in_miss_buffer, super_in_response_buffer>>
      BY DEF SendRequest, ClientSend, mshrVars
<1>2. /\ NextFree \in Nat
      /\ heap' \in Seq(Object) /\ DOMAIN heap' = DOMAIN heap \cup {NextFree}
      /\ heap'[NextFree] = [req_obj |-> obj, da |-> line]
      /\ \A q \in DOMAIN heap : q # NextFree => heap'[q] = heap[q]
      /\ free_request_list' \in Seq(Nat) /\ Distinct(free_request_list')
      /\ Free' = Free \ {NextFree}
      /\ NextFree \notin Missing \cup Fetch \cup Pref \cup Answer \cup dropped
      BY <1>0, NewObject
<1>3. /\ queued' \in [ReqObj -> Seq(Nat)]
      /\ \A o \in ReqObj : Len(queued'[o]) = Len(super_in_request_buffer'[o])
      /\ \A o \in ReqObj : \A p \in Zip(queued'[o], super_in_request_buffer'[o]) :
           p \in QueuePairs(o) \/ (o = obj /\ p = <<NextFree, line>>)
      /\ \A o \in ReqObj : Distinct(queued'[o])
      BY <1>0, <1>2, SendQueues
<1>4. PICK gone \in SUBSET (Pref \cup {NextFree}) :
        /\ dropped' = dropped \cup gone
        /\ Fetch' \cup Pref' \cup gone = Fetch \cup Pref \cup {NextFree}
        /\ gone \cap (Fetch' \cup Pref') = {}
        /\ Fetch' \subseteq Fetch \cup {NextFree} /\ Pref' \subseteq Pref \cup {NextFree}
      BY <1>0, <1>2, SendQueues
<1>5. /\ Answer' = Answer /\ Answering' = Answering /\ Missing' = Missing /\ Dues' = Dues
      /\ \A k \in Dues : Zip(miss_requests'[k], super_in_miss_buffer'[k]) = MissPairs(k)
      BY <1>1 DEF Answer, Answering, Missing, Dues, MissPairs
<1>6. \A q \in Missing \cup Fetch \cup Pref \cup Answer : heap'[q] = heap[q]
      BY <1>2 DEF PoolInv, Apart
<1>7. Pref \subseteq Nat
  <2>1. "pf" \in ReqObj
        BY DEF ReqObj
  <2>2. queued["pf"] \in Seq(Nat)
        BY <1>0, <2>1, QueueSlots
  <2>3. \A n \in DOMAIN queued["pf"] : queued["pf"][n] \in Nat
        BY <2>2
  <2> QED
      BY <2>3 DEF Pref, Elements
<1>8. PoolTypes'
      BY <1>0, <1>1, <1>2, <1>3, <1>4, <1>5, <1>7 DEF PoolTypes
<1>9. Beside'
      BY <1>0, <1>1, <1>3, <1>5 DEF Beside
<1>10. QueuesIntact'
  <2>1. ASSUME NEW o \in ReqObj, NEW p \in Zip(queued'[o], super_in_request_buffer'[o])
        PROVE  heap'[p[1]] = [req_obj |-> o, da |-> p[2]]
    <3>1. CASE p \in QueuePairs(o)
      <4>1. p[1] \in Elements(queued[o])
            BY <1>0, <3>1, QueueSlots
      <4>2. p[1] \in Fetch \cup Pref
            BY <4>1 DEF Fetch, Pref, ReqObj
      <4> QED
          BY <1>6, <3>1, <4>2 DEF PoolInv, QueuesIntact, QueuePairs
    <3>2. CASE o = obj /\ p = <<NextFree, line>>
          BY <1>2, <3>2
    <3> QED
        BY <1>3, <2>1, <3>1, <3>2
  <2>2. ASSUME NEW p \in Answering
        PROVE  heap'[p[1]] = [req_obj |-> "f", da |-> p[2].da]
    <3>1. p[1] \in Answer
          BY <1>0, AnswerSlots
    <3> QED
        BY <1>6, <3>1 DEF PoolInv, QueuesIntact
  <2> QED
      BY <1>5, <2>1, <2>2 DEF QueuesIntact
<1>11. MissesIntact'
  <2> SUFFICES ASSUME NEW k \in Dues, NEW p \in MissPairs(k)
               PROVE  /\ heap'[p[1]].da = p[2]
                      /\ heap'[p[1]].req_obj = "f" =>
                           \E r \in Answering : r[1] = p[1] /\ r[2].response_time = k
      BY <1>5 DEF MissesIntact
  <2>1. p[1] \in Missing
        BY <1>0, MissSlots
  <2> QED
      BY <1>6, <2>1 DEF PoolInv, MissesIntact, MissPairs
<1>12. NotTwice'
      BY <1>1, <1>2, <1>3 DEF PoolInv, NotTwice, ReqObj
<1>13. Apart'
  <2>1. Fetch \cap Pref = {}
        BY <1>0, QueueMade DEF Fetch, Pref, ReqObj
  <2>2. DOMAIN heap' = Free' \cup Missing' \cup Fetch' \cup Pref' \cup Answer' \cup dropped'
    <3>1. DOMAIN heap = Free \cup Missing \cup Fetch \cup Pref \cup Answer \cup dropped
          BY DEF PoolInv, Apart
    <3>2. Missing' = Missing /\ Answer' = Answer
          BY <1>5
    <3>3. DOMAIN heap' = (Free \ {NextFree}) \cup Missing \cup (Fetch \cup Pref \cup {NextFree})
                         \cup Answer \cup dropped
          BY <1>2, <3>1
    <3> QED
        BY <1>2, <1>4, <3>2, <3>3
  <2>3. /\ Fetch' \cap Answer' = {} /\ Pref' \cap Missing' = {} /\ Fetch' \cap Missing' = {}
        BY <1>2, <1>4, <1>5 DEF PoolInv, Apart
  <2>4. Free' \cap (Missing' \cup Fetch' \cup Pref' \cup Answer') = {}
        BY <1>2, <1>4, <1>5 DEF PoolInv, Apart
  <2>5. Pref \cap Answer = {}
    <3>1. \A q \in Pref : heap[q].req_obj = "pf"
          BY <1>0, QueueMade DEF Pref, ReqObj
    <3>2. \A q \in Answer : heap[q].req_obj = "f"
          BY <1>0, AnswerMade
    <3> QED
        BY <3>1, <3>2
  <2>6. gone \cap (Free' \cup Missing' \cup Answer') = {}
        BY <1>2, <1>4, <1>5, <2>5 DEF PoolInv, Apart
  <2>7. dropped \cap (Free' \cup Missing' \cup Fetch' \cup Pref' \cup Answer') = {}
        BY <1>2, <1>4, <1>5 DEF PoolInv, Apart
  <2>8. dropped' \cap (Free' \cup Missing' \cup Fetch' \cup Pref' \cup Answer') = {}
        BY <1>4, <2>6, <2>7
  <2> QED
      BY <2>2, <2>3, <2>4, <2>8 DEF Apart
<1> QED
    BY <1>8, <1>9, <1>10, <1>11, <1>12, <1>13 DEF PoolInv

-----------------------------------------------------------------------------
LEMMA PoolInitInv == PoolInit => PoolInv
<1> SUFFICES ASSUME PoolInit PROVE PoolInv
    OBVIOUS
<1>1. /\ heap = <<>> /\ free_request_list = <<>> /\ miss_requests = <<>> /\ answered = <<>>
      /\ dropped = {} /\ queued = [obj \in ReqObj |-> <<>>]
      /\ super_in_miss_buffer = <<>> /\ super_in_response_buffer = <<>>
      /\ super_in_request_buffer = [obj \in ReqObj |-> <<>>]
      BY DEF PoolInit, L1iInit
<1>2. DOMAIN miss_requests = {} /\ Dues = {}
      BY <1>1 DEF Dues
<1>3. queued["f"] = <<>> /\ queued["pf"] = <<>> /\ \A obj \in ReqObj : queued[obj] = <<>>
      BY <1>1 DEF ReqObj
<1>4. Elements(<<>>) = {} /\ Distinct(<<>>) /\ \A t : Zip(<<>>, t) = {}
      BY DEF Elements, Distinct, Zip
<1>5. PoolTypes
  <2>1. miss_requests = [k \in {} |-> miss_requests[k]]
        BY <1>1
  <2>2. miss_requests \in [Dues -> Seq(Nat)]
        BY <1>2, <2>1
  <2> QED
      BY <1>1, <2>2 DEF PoolTypes
<1>6. Beside
      BY <1>1, <1>2 DEF Beside
<1>7. QueuesIntact
      BY <1>1, <1>3, <1>4 DEF QueuesIntact, Answering
<1>8. MissesIntact
      BY <1>2 DEF MissesIntact
<1>9. NotTwice
      BY <1>1, <1>3, <1>4 DEF NotTwice
<1>10. Free = {} /\ Fetch = {} /\ Pref = {} /\ Answer = {} /\ Missing = {} /\ DOMAIN heap = {}
  <2>1. Missing = {}
        BY <1>2 DEF Missing
  <2>2. DOMAIN heap = {}
        BY <1>1
  <2> QED
      BY <1>1, <1>3, <1>4, <2>1, <2>2 DEF Free, Fetch, Pref, Answer
<1>11. Apart
      BY <1>1, <1>10 DEF Apart
<1> QED
    BY <1>5, <1>6, <1>7, <1>8, <1>9, <1>11 DEF PoolInv

(* The end of a loop, a cycle, or nothing at all.                          *)
LEMMA PointersUnchanged ==
  ASSUME PoolInv,
         UNCHANGED <<poolVars, pointerVars, dropped, super_in_miss_buffer,
                     super_in_request_buffer, super_in_response_buffer>>
  PROVE  PoolInv'
<1>1. UNCHANGED <<heap, free_request_list, miss_requests, queued, answered, dropped,
                  super_in_miss_buffer, super_in_request_buffer, super_in_response_buffer>>
      BY DEF poolVars, pointerVars
<1>2. /\ UNCHANGED <<Answering, Free, Fetch, Pref, Answer, Missing, Dues>>
      BY <1>1 DEF Answering, Free, Fetch, Pref, Answer, Missing, Dues
<1> QED
    BY <1>1, <1>2 DEF PoolInv, PoolTypes, Beside, QueuesIntact, MissesIntact, NotTwice, Apart

LEMMA PoolNextInv ==
  ASSUME L1iInv, PoolInv, [PoolNext]_requestVars
  PROVE  PoolInv'
<1>1. ASSUME NEW k \in Dues, FillRequest(k) PROVE PoolInv'
      BY <1>1, FillRequestInv
<1>2. ASSUME NEW line \in Lines, ServeFetch(line) PROVE PoolInv'
      BY <1>2, ServeFetchInv
<1>3. ASSUME NEW line \in Lines, FinishPrefetch(line) PROVE PoolInv'
      BY <1>3, FinishPrefetchInv
<1>4. ASSUME NEW line \in Lines, IssuePrefetch(line) PROVE PoolInv'
      BY <1>4, IssuePrefetchInv
<1>5. ASSUME NEW obj \in ReqObj, NEW line \in Lines, SendRequest(obj, line) PROVE PoolInv'
      BY <1>5, SendRequestInv
<1>6. CASE ReceiveResponse
      BY <1>6, ReceiveResponseInv
<1>7. CASE PassOn
  <2>1. UNCHANGED <<poolVars, pointerVars, dropped, super_in_miss_buffer,
                    super_in_request_buffer, super_in_response_buffer>>
        BY <1>7 DEF PassOn, FillEnd, FetchEnd, PrefetchEnd, NextCycle, mshrVars, ioVars
  <2> QED
      BY <2>1, PointersUnchanged
<1>8. CASE UNCHANGED requestVars
  <2>1. UNCHANGED <<poolVars, pointerVars, dropped, super_in_miss_buffer,
                    super_in_request_buffer, super_in_response_buffer>>
        BY <1>8 DEF requestVars, l1iVars, mshrVars, ioVars
  <2> QED
      BY <2>1, PointersUnchanged
<1> QED
    BY <1>1, <1>2, <1>3, <1>4, <1>5, <1>6, <1>7, <1>8 DEF PoolNext, Dues

(* With their pointers the actions are still those of the cache.           *)
LEMMA PoolStepIsCacheStep == [PoolNext]_requestVars => [L1iNext]_l1iVars
<1> SUFFICES ASSUME [PoolNext]_requestVars PROVE [L1iNext]_l1iVars
    OBVIOUS
<1>1. ASSUME NEW k \in Dues, FillRequest(k) PROVE CacheStep
      BY <1>1 DEF FillRequest, CacheStep, FillStep, Dues
<1>2. ASSUME NEW line \in Lines, ServeFetch(line) PROVE CacheStep
      BY <1>2 DEF ServeFetch, CacheStep, FetchStep
<1>3. ASSUME NEW line \in Lines, FinishPrefetch(line) \/ IssuePrefetch(line) PROVE CacheStep
      BY <1>3 DEF FinishPrefetch, IssuePrefetch, CacheStep, PrefetchStep
<1>4. ASSUME NEW obj \in ReqObj, NEW line \in Lines, SendRequest(obj, line) PROVE ClientStep
      BY <1>4 DEF SendRequest, ClientStep
<1>5. ReceiveResponse => ClientStep
      BY DEF ReceiveResponse, ClientStep
<1>6. PassOn => CacheStep \/ ClientStep
      BY DEF PassOn, CacheStep, FillStep, FetchStep, PrefetchStep, ClientStep
<1>7. UNCHANGED requestVars => UNCHANGED l1iVars
      BY DEF requestVars
<1> QED
    BY <1>1, <1>2, <1>3, <1>4, <1>5, <1>6, <1>7 DEF PoolNext, L1iNext, Dues

LEMMA PoolImplementsCache == PoolSpec => L1iSpec
<1>1. PoolInit => L1iInit
      BY DEF PoolInit
<1> QED
    BY <1>1, PoolStepIsCacheStep, PTL DEF PoolSpec, L1iSpec

(* The invariant of the pool.                                              *)
THEOREM PoolInvariant == PoolSpec => []PoolInv
<1>1. L1iInv /\ PoolInv /\ [PoolNext]_requestVars => PoolInv'
      BY PoolNextInv
<1>2. PoolSpec => []L1iInv
      BY PoolImplementsCache, L1iInvariant
<1> QED
    BY PoolInitInv, <1>1, <1>2, PTL DEF PoolSpec

-----------------------------------------------------------------------------
(* No queue sees a recycled object: whatever is pointed to has the line    *)
(* and the requester it was made with.                                     *)
THEOREM QueuesKeepRequests == PoolSpec => []RequestsIntact
<1>1. L1iInv /\ PoolInv => RequestsIntact
  <2> SUFFICES ASSUME L1iInv, PoolInv PROVE RequestsIntact
      OBVIOUS
  <2>0. CoreTypeOK /\ PoolTypes /\ Beside
        BY DEF L1iInv, PoolInv
  <2>1. \A obj \in ReqObj : Len(queued[obj]) = Len(super_in_request_buffer[obj])
        BY <2>0 DEF Beside
  <2>2. ASSUME NEW obj \in ReqObj, NEW n \in DOMAIN queued[obj]
        PROVE  heap[queued[obj][n]] = [req_obj |-> obj, da |-> super_in_request_buffer[obj][n]]
    <3> DEFINE p == <<queued[obj][n], super_in_request_buffer[obj][n]>>
    <3>1. p \in Zip(queued[obj], super_in_request_buffer[obj])
          BY <2>2 DEF Zip
    <3>2. p[1] = queued[obj][n] /\ p[2] = super_in_request_buffer[obj][n]
          OBVIOUS
    <3> HIDE DEF p
    <3> QED
        BY <3>1, <3>2 DEF PoolInv, QueuesIntact
  <2>3. ASSUME NEW k \in Dues, NEW n \in DOMAIN super_in_miss_buffer[k]
        PROVE  heap[miss_requests[k][n]].da = super_in_miss_buffer[k][n]
    <3> DEFINE p == <<miss_requests[k][n], super_in_miss_buffer[k][n]>>
    <3>1. n \in DOMAIN miss_requests[k]
          BY <2>0, <2>3, MissSlots
    <3>2. p \in Zip(miss_requests[k], super_in_miss_buffer[k])
          BY <3>1 DEF Zip
    <3>3. p[1] = miss_requests[k][n] /\ p[2] = super_in_miss_buffer[k][n]
          OBVIOUS
    <3> HIDE DEF p
    <3> QED
        BY <3>2, <3>3 DEF PoolInv, MissesIntact
  <2>4. ASSUME NEW n \in DOMAIN super_in_response_buffer
        PROVE  heap[answered[n]] = [req_obj |-> "f", da |-> super_in_response_buffer[n].da]
    <3> DEFINE p == <<answered[n], super_in_response_buffer[n]>>
    <3>1. n \in DOMAIN answered
          BY <2>0, <2>4, AnswerSlots
    <3>2. p \in Answering
          BY <3>1 DEF Zip, Answering
    <3>3. p[1] = answered[n] /\ p[2] = super_in_response_buffer[n]
          OBVIOUS
    <3> HIDE DEF p
    <3> QED
        BY <3>2, <3>3 DEF PoolInv, QueuesIntact
  <2> QED
      BY <2>1, <2>2, <2>3, <2>4 DEF RequestsIntact
<1>2. PoolSpec => []L1iInv
      BY PoolImplementsCache, L1iInvariant
<1> QED
    BY <1>1, <1>2, PoolInvariant, PTL

LEMMA PlacesNamed ==
  /\ Entries(free_request_list) = Free
  /\ Held = Missing \cup (Fetch \cup Pref) \cup Answer
BY DEF Entries, Elements, Held, Waiting, Free, Fetch, Pref, Answer

(* No request is freed twice, nor while something points to it.            *)
THEOREM RequestsFreedOnce == PoolSpec => []FreedOnce
<1>1. PoolInv => FreedOnce
  <2> SUFFICES ASSUME PoolInv PROVE FreedOnce
      OBVIOUS
  <2>1. Cardinality(Free) = Len(free_request_list)
        BY DistinctCount DEF PoolInv, PoolTypes, NotTwice, Free
  <2>2. Free \cap (Missing \cup (Fetch \cup Pref) \cup Answer) = {}
        BY DEF PoolInv, Apart
  <2> QED
      BY <2>1, <2>2, PlacesNamed DEF FreedOnce
<1> QED
    BY <1>1, PoolInvariant, PTL

(* Every request is free, is pointed to, or was a prefetch that was let    *)
(* go.                                                                     *)
THEOREM RequestsAccounted == PoolSpec => []OnlyDroppedLost
<1>1. PoolInv => OnlyDroppedLost
  <2> SUFFICES ASSUME PoolInv PROVE OnlyDroppedLost
      OBVIOUS
  <2>1. DOMAIN heap = Free \cup (Missing \cup (Fetch \cup Pref) \cup Answer) \cup dropped
        BY DEF PoolInv, Apart
  <2>2. dropped \cap (Free \cup (Missing \cup (Fetch \cup Pref) \cup Answer)) = {}
        BY DEF PoolInv, Apart
  <2> QED
      BY <2>1, <2>2, PlacesNamed DEF OnlyDroppedLost
<1> QED
    BY <1>1, PoolInvariant, PTL
=============================================================================
