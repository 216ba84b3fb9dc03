------------------------ MODULE L1iStandaloneProofs -------------------------
(***************************************************************************)
(* Proofs about the L1 instruction cache, for every value of the           *)
(* constants that L1iAssumption and TagStoreAssumption allow.              *)
(*                                                                         *)
(* L1iInv, about the outstanding misses, does not need the tag store:      *)
(* which requests hit decides nothing there.  The tag store's own          *)
(* invariant and the spacing of misses come after it.                      *)
(***************************************************************************)
EXTENDS L1iStandalone, DataLemmas

(* What the proofs need of the types: everything but the tag store.        *)
CoreTypeOK == ControlTypeOK /\ MshrTypeOK /\ QueuesTypeOK

LEMMA CoreTypeInit == L1iInit => CoreTypeOK
<1> SUFFICES ASSUME L1iInit PROVE CoreTypeOK
    OBVIOUS
<1>1. ControlTypeOK
      BY DEF L1iInit, ControlTypeOK
<1>2. MshrTypeOK
  <2>1. Dues = {} /\ DOMAIN super_in_request_completion = {}
        BY DEF L1iInit, Dues
  <2>2. IsFiniteSet(Dues)
        BY <2>1, FS_EmptySet
  <2> QED
      BY <2>1, <2>2 DEF L1iInit, MshrTypeOK, Dues
<1>3. QueuesTypeOK
      BY DEF L1iInit, QueuesTypeOK, ReqObj
<1> QED
    BY <1>1, <1>2, <1>3 DEF CoreTypeOK

(* Allocating a miss keeps the types of the two tables.                    *)
LEMMA AllocateMissType ==
  ASSUME CoreTypeOK, NEW line \in Lines, AllocateMiss(line)
  PROVE  MshrTypeOK'
<1> DEFINE due == steps + MissLatency
<1>1. due \in Nat
      BY L1iAssumption DEF CoreTypeOK, ControlTypeOK
<1>2. Dues' = Dues \cup {due} /\ IsFiniteSet(Dues')
  <2>1. Dues' = Dues \cup {due}
        BY DEF AllocateMiss, Dues
  <2> QED
      BY <2>1, FS_AddElement DEF CoreTypeOK, MshrTypeOK
<1>3. super_in_miss_buffer' \in [Dues' -> Seq(Lines)]
      BY <1>2 DEF AllocateMiss, Dues, CoreTypeOK, MshrTypeOK
<1>4. /\ DOMAIN super_in_request_completion' \subseteq Lines
      /\ super_in_request_completion' \in [DOMAIN super_in_request_completion' -> Nat]
      BY <1>1 DEF AllocateMiss, CoreTypeOK, MshrTypeOK
<1> QED
    BY <1>1, <1>2, <1>3, <1>4 DEF MshrTypeOK, CoreTypeOK

LEMMA L2AcceptType ==
  ASSUME CoreTypeOK, L2_accept
  PROVE  last_miss_cycle' \in Nat /\ last_miss_bytes' \in Nat
BY TagStoreAssumption DEF L2_accept, bwVars, CoreTypeOK, ControlTypeOK

LEMMA RespondType ==
  ASSUME CoreTypeOK, NEW line \in Lines, NextRequest("f", line),
         NEW time \in Nat, Respond(line, time)
  PROVE  QueuesTypeOK' /\ i' \in Nat
BY DEF Respond, PopRequest, NextRequest, CoreTypeOK, ControlTypeOK, QueuesTypeOK,
       ReqObj, Response

LEMMA PopRequestType ==
  ASSUME CoreTypeOK, NEW obj \in ReqObj, super_in_request_buffer[obj] # <<>>,
         PopRequest(obj), UNCHANGED super_in_response_buffer
  PROVE  QueuesTypeOK'
BY DEF PopRequest, CoreTypeOK, QueuesTypeOK, ReqObj

LEMMA SendType ==
  ASSUME CoreTypeOK, NEW obj \in ReqObj, NEW line \in Lines,
         sub_send_request(obj, line), UNCHANGED super_in_response_buffer
  PROVE  QueuesTypeOK'
<1> DEFINE pushed == [super_in_request_buffer EXCEPT ![obj] = Append(@, line)]
<1>1. pushed \in [ReqObj -> Seq(Lines)]
      BY DEF CoreTypeOK, QueuesTypeOK
<1>2. "pf" \in ReqObj
      BY DEF ReqObj
<1>3. ASSUME Len(pushed["pf"]) > InRequestBufferSize
      PROVE  [pushed EXCEPT !["pf"] = Tail(@)] \in [ReqObj -> Seq(Lines)]
  <2>1. pushed["pf"] \in Seq(Lines) /\ pushed["pf"] # <<>>
        BY <1>1, <1>2, <1>3, L1iAssumption
  <2>2. Tail(pushed["pf"]) \in Seq(Lines)
        BY <2>1
  <2> HIDE DEF pushed
  <2> QED
      BY <1>1, <2>2
<1> QED
    BY <1>1, <1>3 DEF sub_send_request, CoreTypeOK, QueuesTypeOK

LEMMA FillLineType ==
  ASSUME CoreTypeOK, NEW k \in Dues, FillLine(k), super_in_miss_buffer[k] # <<>>
  PROVE  CoreTypeOK'
<1> USE DEF CoreTypeOK
<1> DEFINE requests == super_in_miss_buffer[k]
           cycles   == Dues \ (IF Tail(requests) = <<>> THEN {k} ELSE {})
<1>1. requests \in Seq(Lines)
      BY DEF MshrTypeOK
<1>2. Dues' = cycles /\ IsFiniteSet(cycles) /\ cycles \subseteq Dues
  <2>1. Dues' = cycles
        BY DEF FillLine, Dues
  <2>2. IsFiniteSet(cycles)
        BY FS_Subset DEF MshrTypeOK
  <2> QED
      BY <2>1, <2>2
<1>3. super_in_miss_buffer' \in [cycles -> Seq(Lines)]
      BY <1>1 DEF FillLine, Dues, MshrTypeOK
<1>4. /\ DOMAIN super_in_request_completion' \subseteq Lines
      /\ super_in_request_completion' \in [DOMAIN super_in_request_completion' -> Nat]
      BY DEF FillLine, MshrTypeOK
<1>5. MshrTypeOK'
      BY <1>2, <1>3, <1>4 DEF MshrTypeOK
<1>6. ControlTypeOK'
      BY DEF FillLine, ControlTypeOK, bwVars
<1>7. QueuesTypeOK'
      BY DEF FillLine, QueuesTypeOK, ioVars
<1> QED
    BY <1>5, <1>6, <1>7

-----------------------------------------------------------------------------
(* The inductive invariant.  MshrCoherent and the response times of        *)
(* FetchBackedByMiss are disturbed by the fill loop and by the clock;      *)
(* DueWindow says, loop by loop, which cycles the miss buffer may hold, so *)
(* that a fill takes only what is due and the clock never passes a miss.   *)

DueWindow ==
  \A k \in Dues :
    /\ IF pc = "fill"
       THEN /\ IF i = 0 THEN steps <= k ELSE steps < k
            /\ k < steps + MissLatency
       ELSE steps < k /\ k <= steps + MissLatency

L1iInv == CoreTypeOK /\ MshrCoherent /\ DueWindow /\ FetchBackedByMiss

LEMMA InitInv == L1iInit => L1iInv
<1> SUFFICES ASSUME L1iInit PROVE L1iInv
    OBVIOUS
<1>1. Dues = {} /\ DOMAIN super_in_request_completion = {}
      BY DEF L1iInit, Dues
<1>2. MshrCoherent /\ DueWindow
      BY <1>1 DEF MshrCoherent, BufferedOutstanding, BufferedOnce, OutstandingBuffered,
                  NoEmptyDue, DueWindow
<1>3. FetchBackedByMiss
      BY DEF L1iInit, FetchBackedByMiss
<1> QED
    BY <1>2, <1>3, CoreTypeInit DEF L1iInv

(* Only the cycle that the clock shows is ever filled, in the first round  *)
(* of the loop.                                                            *)
LEMMA FillNow ==
  ASSUME L1iInv, NEW k \in Dues, FillLine(k)
  PROVE  /\ k = steps /\ i = 0
         /\ super_in_miss_buffer[k] \in Seq(Lines) /\ super_in_miss_buffer[k] # <<>>
BY DEF L1iInv, CoreTypeOK, ControlTypeOK, MshrTypeOK, MshrCoherent, NoEmptyDue,
   DueWindow, FillLine, FillDue, Dues

LEMMA FillLineInv ==
  ASSUME L1iInv, NEW k \in Dues, FillLine(k)
  PROVE  L1iInv'
<1> DEFINE requests == super_in_miss_buffer[k]
           line     == Head(requests)
           last     == Tail(requests) = <<>>
<1>1. /\ k = steps /\ i = 0
      /\ requests \in Seq(Lines) /\ requests # <<>>
      BY FillNow
<1>2. CoreTypeOK'
      BY <1>1, FillLineType DEF L1iInv
<1>3. /\ InCompletion(line) /\ super_in_request_completion[line] = k
      /\ \A n \in DOMAIN requests : requests[n] = line => n = 1
  <2>1. 1 \in DOMAIN requests /\ requests[1] = line
        BY <1>1
  <2> QED
      BY <2>1 DEF L1iInv, MshrCoherent, BufferedOutstanding, BufferedOnce
<1>4. /\ \A j \in Dues' : j \in Dues /\ (j = k => ~ last)
      /\ \A j \in Dues : j # k => j \in Dues' /\ super_in_miss_buffer'[j] = super_in_miss_buffer[j]
      /\ ~ last => k \in Dues' /\ super_in_miss_buffer'[k] = Tail(requests)
      BY DEF FillLine, Dues
<1>5. /\ DOMAIN super_in_request_completion' = DOMAIN super_in_request_completion \ {line}
      /\ \A l \in DOMAIN super_in_request_completion' :
           super_in_request_completion'[l] = super_in_request_completion[l]
      BY DEF FillLine
<1>6. \A n \in DOMAIN Tail(requests) :
         n \in Nat \ {0} /\ n + 1 \in DOMAIN requests /\ Tail(requests)[n] = requests[n + 1]
      BY <1>1
<1>7. ASSUME NEW j \in Dues', NEW n \in DOMAIN super_in_miss_buffer'[j]
      PROVE  \E m \in DOMAIN super_in_miss_buffer[j] :
               /\ super_in_miss_buffer[j][m] = super_in_miss_buffer'[j][n]
               /\ super_in_miss_buffer[j][m] # line
               /\ m = IF j = k THEN n + 1 ELSE n
  <2>1. CASE j = k
    <3>1. super_in_miss_buffer'[j] = Tail(requests) /\ super_in_miss_buffer[j] = requests
          BY <2>1, <1>4, <1>7
    <3>2. n \in Nat \ {0} /\ n + 1 \in DOMAIN requests /\ requests[n + 1] = Tail(requests)[n]
          BY <3>1, <1>6, <1>7
    <3>3. requests[n + 1] # line
          BY <3>2, <1>3
    <3> HIDE DEF requests, line
    <3> QED
        BY <2>1, <3>1, <3>2, <3>3
  <2>2. CASE j # k
        BY <2>2, <1>3, <1>4, <1>7 DEF L1iInv, MshrCoherent, BufferedOutstanding
  <2> QED
      BY <2>1, <2>2
<1>8. BufferedOutstanding'
      BY <1>4, <1>5, <1>7 DEF L1iInv, MshrCoherent, BufferedOutstanding, InCompletion
<1>9. BufferedOnce'
  <2> SUFFICES ASSUME NEW j \in Dues',
                      NEW m \in DOMAIN super_in_miss_buffer'[j],
                      NEW n \in DOMAIN super_in_miss_buffer'[j],
                      super_in_miss_buffer'[j][m] = super_in_miss_buffer'[j][n]
               PROVE  m = n
      BY DEF BufferedOnce
  <2>1. CASE j = k
    <3>1. super_in_miss_buffer'[j] = Tail(requests) /\ requests = super_in_miss_buffer[j]
          BY <2>1, <1>4
    <3>2. requests[m + 1] = requests[n + 1]
          BY <3>1, <1>6
    <3>3. /\ m \in Nat /\ n \in Nat
          /\ m + 1 \in DOMAIN requests /\ n + 1 \in DOMAIN requests
          BY <3>1, <1>6
    <3>4. m + 1 = n + 1
          BY <2>1, <3>2, <3>3 DEF L1iInv, MshrCoherent, BufferedOnce
    <3> QED
        BY <3>3, <3>4
  <2>2. CASE j # k
        BY <2>2, <1>4 DEF L1iInv, MshrCoherent, BufferedOnce
  <2> QED
      BY <2>1, <2>2
<1>10. OutstandingBuffered'
  <2> SUFFICES ASSUME NEW l \in DOMAIN super_in_request_completion'
               PROVE  /\ super_in_request_completion'[l] \in Dues'
                      /\ \E n \in DOMAIN super_in_miss_buffer'[super_in_request_completion'[l]] :
                           super_in_miss_buffer'[super_in_request_completion'[l]][n] = l
      BY DEF OutstandingBuffered
  <2> DEFINE j == super_in_request_completion[l]
  <2>1. l # line /\ j = super_in_request_completion'[l]
        BY <1>5
  <2>2. j \in Dues
        BY <1>5 DEF L1iInv, MshrCoherent, OutstandingBuffered
  <2>3. PICK n \in DOMAIN super_in_miss_buffer[j] : super_in_miss_buffer[j][n] = l
        BY <1>5 DEF L1iInv, MshrCoherent, OutstandingBuffered
  <2>4. CASE j # k
        BY <2>1, <2>2, <2>3, <2>4, <1>4
  <2>5. CASE j = k
    <3>1. n \in 2 .. Len(requests)
          BY <2>1, <2>3, <2>5, <1>1
    <3>2. ~ last /\ n - 1 \in DOMAIN Tail(requests) /\ Tail(requests)[n - 1] = l
          BY <3>1, <2>3, <2>5, <1>1
    <3> QED
        BY <3>2, <2>1, <2>5, <1>4
  <2> QED
      BY <2>4, <2>5
<1>11. NoEmptyDue'
      BY <1>4 DEF L1iInv, MshrCoherent, NoEmptyDue
<1>12. DueWindow'
  <2>1. pc = "fill" /\ pc' = "fill" /\ steps' = steps /\ i' = IF last THEN i + 1 ELSE i
        BY DEF FillLine
  <2> QED
      BY <2>1, <1>1, <1>4 DEF L1iInv, DueWindow, CoreTypeOK, ControlTypeOK, MshrTypeOK
<1>13. FetchBackedByMiss'
  <2>1. steps' = steps /\ super_in_response_buffer' = super_in_response_buffer
        BY DEF FillLine, ioVars
  <2>2. steps \in Nat
        BY DEF L1iInv, CoreTypeOK, ControlTypeOK
  <2> QED
      BY <2>1, <2>2, <1>1, <1>3, <1>5 DEF L1iInv, FetchBackedByMiss, InCompletion
<1> QED
    BY <1>2, <1>8, <1>9, <1>10, <1>11, <1>12, <1>13 DEF L1iInv, MshrCoherent

(* What a new miss does to the completion table.                           *)
LEMMA AllocateMissCompletion ==
  ASSUME NEW line, AllocateMiss(line)
  PROVE  /\ DOMAIN super_in_request_completion'
              = DOMAIN super_in_request_completion \cup {line}
         /\ super_in_request_completion'[line] = steps + MissLatency
         /\ \A l \in DOMAIN super_in_request_completion :
              l # line => super_in_request_completion'[l] = super_in_request_completion[l]
BY DEF AllocateMiss

LEMMA AllocateMissInv ==
  ASSUME L1iInv, NEW line \in Lines, ~ InCompletion(line), AllocateMiss(line),
         pc \in {"f", "pf"}, UNCHANGED <<steps, pc>>
  PROVE  MshrCoherent' /\ DueWindow'
<1> DEFINE due == steps + MissLatency
           queued == IF due \in Dues THEN super_in_miss_buffer[due] ELSE <<>>
<1>1. steps \in Nat /\ due \in Nat /\ queued \in Seq(Lines)
      BY L1iAssumption DEF L1iInv, CoreTypeOK, ControlTypeOK, MshrTypeOK
<1>2. /\ Dues' = Dues \cup {due}
      /\ super_in_miss_buffer'[due] = Append(queued, line)
      /\ \A k \in Dues : k # due => super_in_miss_buffer'[k] = super_in_miss_buffer[k]
      BY DEF AllocateMiss, Dues
<1> DEFINE completion == super_in_request_completion
<1>3. /\ DOMAIN completion' = DOMAIN completion \cup {line}
      /\ completion'[line] = due
      /\ \A l \in DOMAIN completion : l # line /\ completion'[l] = completion[l]
      BY AllocateMissCompletion DEF InCompletion
(* A line in the buffer after the step is the new one, or was there.       *)
<1>4. ASSUME NEW k \in Dues', NEW n \in DOMAIN super_in_miss_buffer'[k]
      PROVE  \/ /\ k = due /\ n = Len(queued) + 1 /\ super_in_miss_buffer'[k][n] = line
             \/ /\ k \in Dues /\ n \in DOMAIN super_in_miss_buffer[k]
                /\ super_in_miss_buffer'[k][n] = super_in_miss_buffer[k][n]
                /\ super_in_miss_buffer[k][n] \in DOMAIN completion
                /\ completion[super_in_miss_buffer[k][n]] = k
                /\ k = due => n \in 1 .. Len(queued)
  <2>1. CASE k # due
        BY <2>1, <1>2, <1>4 DEF L1iInv, MshrCoherent, BufferedOutstanding, InCompletion
  <2>2. CASE k = due /\ n = Len(queued) + 1
        BY <2>2, <1>1, <1>2
  <2>3. CASE k = due /\ n # Len(queued) + 1
    <3>1. n \in 1 .. Len(queued) /\ Append(queued, line)[n] = queued[n]
          BY <2>3, <1>1, <1>2, <1>4
    <3>2. k \in Dues /\ queued = super_in_miss_buffer[k] /\ n \in DOMAIN queued
          BY <3>1, <2>3, <1>1
    <3> QED
        BY <3>1, <3>2, <2>3, <1>2 DEF L1iInv, MshrCoherent, BufferedOutstanding, InCompletion
  <2> QED
      BY <2>1, <2>2, <2>3
<1>5. BufferedOutstanding'
      BY <1>3, <1>4 DEF BufferedOutstanding, InCompletion
<1>6. BufferedOnce'
  <2> SUFFICES ASSUME NEW k \in Dues',
                      NEW m \in DOMAIN super_in_miss_buffer'[k],
                      NEW n \in DOMAIN super_in_miss_buffer'[k],
                      super_in_miss_buffer'[k][m] = super_in_miss_buffer'[k][n]
               PROVE  m = n
      BY DEF BufferedOnce
  <2>1. CASE super_in_miss_buffer'[k][m] = line
    <3>1. line \notin DOMAIN completion
          BY <1>3
    <3>2. m = Len(queued) + 1
          BY <2>1, <3>1, <1>4
    <3>3. super_in_miss_buffer'[k][n] = line
          BY <2>1
    <3>4. n = Len(queued) + 1
          BY <3>1, <3>3, <1>4
    <3> QED
        BY <3>2, <3>4
  <2>2. CASE super_in_miss_buffer'[k][m] # line
        BY <2>2, <1>4 DEF L1iInv, MshrCoherent, BufferedOnce
  <2> QED
      BY <2>1, <2>2
<1>7. OutstandingBuffered'
  <2>1. due \in Dues' /\ Len(queued) + 1 \in DOMAIN super_in_miss_buffer'[due]
        /\ super_in_miss_buffer'[due][Len(queued) + 1] = line
        BY <1>1, <1>2
  <2>2. ASSUME NEW l \in DOMAIN completion
        PROVE  /\ completion'[l] \in Dues'
               /\ \E n \in DOMAIN super_in_miss_buffer'[completion'[l]] :
                    super_in_miss_buffer'[completion'[l]][n] = l
    <3>1. completion'[l] = completion[l] /\ completion[l] \in Dues
          BY <1>3 DEF L1iInv, MshrCoherent, OutstandingBuffered
    <3>2. PICK n \in DOMAIN super_in_miss_buffer[completion[l]] :
                 super_in_miss_buffer[completion[l]][n] = l
          BY DEF L1iInv, MshrCoherent, OutstandingBuffered
    <3>3. CASE completion[l] # due
          BY <3>1, <3>2, <3>3, <1>2
    <3>4. CASE completion[l] = due
      <4>1. n \in DOMAIN queued /\ queued[n] = l
            BY <3>1, <3>2, <3>4
      <4>2. n \in DOMAIN Append(queued, line) /\ Append(queued, line)[n] = l
            BY <4>1, <1>1
      <4> QED
          BY <4>2, <3>1, <3>4, <1>2
    <3> QED
        BY <3>3, <3>4
  <2> QED
      BY <2>1, <2>2, <1>3 DEF OutstandingBuffered
<1>8. NoEmptyDue'
  <2>1. Append(queued, line) # <<>>
        BY <1>1
  <2> QED
      BY <2>1, <1>2 DEF L1iInv, MshrCoherent, NoEmptyDue
<1>9. DueWindow'
      BY <1>1, <1>2, L1iAssumption DEF L1iInv, DueWindow, CoreTypeOK, MshrTypeOK
<1> QED
    BY <1>5, <1>6, <1>7, <1>8, <1>9 DEF MshrCoherent

(* A new response is backed if it is due now, or with the line it is for.  *)
LEMMA RespondBacked ==
  ASSUME L1iInv, NEW line \in Lines, NEW time \in Nat, NextRequest("f", line),
         Respond(line, time), UNCHANGED steps,
         \A l \in DOMAIN super_in_request_completion :
           /\ l \in DOMAIN super_in_request_completion'
           /\ super_in_request_completion'[l] = super_in_request_completion[l],
         time > steps => InCompletion(line)' /\ super_in_request_completion'[line] = time
  PROVE  FetchBackedByMiss'
<1>1. super_in_response_buffer \in Seq(Response)
      BY DEF L1iInv, CoreTypeOK, QueuesTypeOK
<1> SUFFICES ASSUME NEW n \in DOMAIN super_in_response_buffer',
                    super_in_response_buffer'[n].response_time > steps
             PROVE  /\ super_in_response_buffer'[n].da \in DOMAIN super_in_request_completion'
                    /\ super_in_request_completion'[super_in_response_buffer'[n].da]
                         = super_in_response_buffer'[n].response_time
    BY DEF FetchBackedByMiss, InCompletion
<1>2. CASE n = Len(super_in_response_buffer) + 1
      BY <1>1, <1>2 DEF Respond, InCompletion
<1>3. CASE n # Len(super_in_response_buffer) + 1
  <2>1. n \in DOMAIN super_in_response_buffer
        /\ super_in_response_buffer'[n] = super_in_response_buffer[n]
        BY <1>1, <1>3 DEF Respond
  <2> QED
      BY <2>1 DEF L1iInv, FetchBackedByMiss, InCompletion
<1> QED
    BY <1>2, <1>3

(* With both tables as they were, only the types and the responses matter. *)
LEMMA TablesUnchanged ==
  ASSUME L1iInv, UNCHANGED mshrVars, UNCHANGED <<steps, pc>>, pc # "fill"
  PROVE  MshrCoherent' /\ DueWindow' /\ MshrTypeOK'
BY DEF L1iInv, mshrVars, MshrCoherent, BufferedOutstanding, BufferedOnce,
       OutstandingBuffered, NoEmptyDue, DueWindow, CoreTypeOK, MshrTypeOK, InCompletion, Dues

-----------------------------------------------------------------------------
(* Every step keeps the invariant.                                         *)

LEMMA FillEndInv ==
  ASSUME L1iInv, FillEnd
  PROVE  L1iInv'
<1>1. CoreTypeOK' /\ MshrCoherent' /\ FetchBackedByMiss'
      BY DEF FillEnd, mshrVars, ioVars, bwVars, L1iInv, CoreTypeOK, ControlTypeOK, MshrTypeOK,
             QueuesTypeOK, MshrCoherent, BufferedOutstanding, BufferedOnce, OutstandingBuffered,
             NoEmptyDue, FetchBackedByMiss, InCompletion, Dues
<1>2. DueWindow'
  <2> SUFFICES ASSUME NEW k \in Dues, ~ steps < k
               PROVE  FALSE
      BY L1iAssumption
         DEF FillEnd, mshrVars, DueWindow, L1iInv, CoreTypeOK, ControlTypeOK, MshrTypeOK, Dues
  <2>1. i = 0 /\ k = steps /\ \A j \in Dues : k <= j
        BY DEF FillEnd, DueWindow, L1iInv, CoreTypeOK, ControlTypeOK, MshrTypeOK
  <2>2. Cardinality(Dues) \in Nat /\ Cardinality(Dues) # 0
        BY FS_CardinalityType, FS_EmptySet DEF L1iInv, CoreTypeOK, MshrTypeOK
  <2>3. FillDue(k)
        BY <2>1, <2>2 DEF FillDue, Dues, L1iInv, CoreTypeOK, ControlTypeOK
  <2> QED
      BY <2>3 DEF FillEnd, Dues
<1> QED
    BY <1>1, <1>2 DEF L1iInv

LEMMA FetchHitInv ==
  ASSUME L1iInv, NEW line \in Lines, FetchHit(line)
  PROVE  L1iInv'
<1>1. UNCHANGED mshrVars /\ UNCHANGED <<steps, pc>> /\ pc # "fill" /\ UNCHANGED bwVars
      BY DEF FetchHit
<1>2. NextRequest("f", line) /\ Respond(line, steps) /\ steps \in Nat
      BY DEF FetchHit, L1iInv, CoreTypeOK, ControlTypeOK
<1>3. QueuesTypeOK' /\ i' \in Nat
      BY <1>2, RespondType DEF L1iInv
<1>4. FetchBackedByMiss'
      BY <1>1, <1>2, RespondBacked DEF mshrVars, L1iInv, CoreTypeOK
<1> QED
    BY <1>1, <1>3, <1>4, TablesUnchanged DEF L1iInv, CoreTypeOK, ControlTypeOK, bwVars

LEMMA FetchMergeInv ==
  ASSUME L1iInv, NEW line \in Lines, FetchMerge(line)
  PROVE  L1iInv'
<1> DEFINE time == super_in_request_completion[line]
<1>1. UNCHANGED mshrVars /\ UNCHANGED <<steps, pc>> /\ pc # "fill" /\ UNCHANGED bwVars
      BY DEF FetchMerge
<1>2. NextRequest("f", line) /\ Respond(line, time) /\ time \in Nat /\ InCompletion(line)
      BY DEF FetchMerge, L1iInv, CoreTypeOK, MshrTypeOK, InCompletion
<1>3. QueuesTypeOK' /\ i' \in Nat
      BY <1>2, RespondType DEF L1iInv
<1>4. FetchBackedByMiss'
      BY <1>1, <1>2, RespondBacked DEF mshrVars, InCompletion
<1> QED
    BY <1>1, <1>3, <1>4, TablesUnchanged DEF L1iInv, CoreTypeOK, ControlTypeOK, bwVars

LEMMA FetchMissInv ==
  ASSUME L1iInv, NEW line \in Lines, FetchMiss(line)
  PROVE  L1iInv'
<1> DEFINE due == steps + MissLatency
<1>1. /\ AllocateMiss(line) /\ ~ InCompletion(line) /\ L2_accept
      /\ NextRequest("f", line) /\ Respond(line, due)
      /\ UNCHANGED <<steps, pc>> /\ pc = "f"
      BY DEF FetchMiss
<1>2. due \in Nat
      BY L1iAssumption DEF L1iInv, CoreTypeOK, ControlTypeOK
<1>3. MshrTypeOK' /\ MshrCoherent' /\ DueWindow'
      BY <1>1, AllocateMissType, AllocateMissInv DEF L1iInv
<1>4. QueuesTypeOK' /\ i' \in Nat
      BY <1>1, <1>2, RespondType DEF L1iInv
<1>5. FetchBackedByMiss'
  <2>1. /\ \A l \in DOMAIN super_in_request_completion :
             /\ l \in DOMAIN super_in_request_completion'
             /\ super_in_request_completion'[l] = super_in_request_completion[l]
        /\ InCompletion(line)' /\ super_in_request_completion'[line] = due
        BY <1>1, AllocateMissCompletion DEF InCompletion
  <2> QED
      BY <2>1, <1>1, <1>2, RespondBacked
<1>6. ControlTypeOK'
      BY <1>1, <1>4, L2AcceptType DEF L1iInv, CoreTypeOK, ControlTypeOK
<1> QED
    BY <1>3, <1>4, <1>5, <1>6 DEF L1iInv, CoreTypeOK

(* A prefetch that is dropped or found changes a queue only.               *)
LEMMA PrefetchPoppedInv ==
  ASSUME L1iInv, NEW line \in Lines, PrefetchMerge(line) \/ PrefetchHit(line)
  PROVE  L1iInv'
<1>1. /\ UNCHANGED mshrVars /\ UNCHANGED <<steps, pc>> /\ pc # "fill"
      /\ UNCHANGED bwVars /\ UNCHANGED super_in_response_buffer
      /\ NextRequest("pf", line) /\ PopRequest("pf")
      /\ i' \in {i, i + 1}
      BY DEF PrefetchMerge, PrefetchHit
<1>2. QueuesTypeOK'
      BY <1>1, PopRequestType DEF L1iInv, NextRequest, ReqObj
<1>3. FetchBackedByMiss'
      BY <1>1 DEF L1iInv, FetchBackedByMiss, mshrVars, InCompletion
<1> QED
    BY <1>1, <1>2, <1>3, TablesUnchanged DEF L1iInv, CoreTypeOK, ControlTypeOK, bwVars

LEMMA PrefetchMissInv ==
  ASSUME L1iInv, NEW line \in Lines, PrefetchMiss(line)
  PROVE  L1iInv'
<1>1. /\ AllocateMiss(line) /\ ~ InCompletion(line) /\ L2_accept
      /\ NextRequest("pf", line) /\ PopRequest("pf")
      /\ UNCHANGED <<steps, pc, i>> /\ UNCHANGED super_in_response_buffer /\ pc = "pf"
      BY DEF PrefetchMiss, PrefetchMissable
<1>2. MshrTypeOK' /\ MshrCoherent' /\ DueWindow'
      BY <1>1, AllocateMissType, AllocateMissInv DEF L1iInv
<1>3. QueuesTypeOK'
      BY <1>1, PopRequestType DEF L1iInv, NextRequest, ReqObj
<1>4. FetchBackedByMiss'
  <2>1. \A l \in DOMAIN super_in_request_completion :
          /\ l \in DOMAIN super_in_request_completion'
          /\ super_in_request_completion'[l] = super_in_request_completion[l]
        BY <1>1, AllocateMissCompletion DEF InCompletion
  <2> QED
      BY <2>1, <1>1 DEF L1iInv, FetchBackedByMiss, InCompletion
<1>5. ControlTypeOK'
      BY <1>1, L2AcceptType DEF L1iInv, CoreTypeOK, ControlTypeOK
<1> QED
    BY <1>2, <1>3, <1>4, <1>5 DEF L1iInv, CoreTypeOK

(* The ends of the loops over requests.                                    *)
LEMMA LoopEndInv ==
  ASSUME L1iInv, FetchEnd \/ PrefetchEnd
  PROVE  L1iInv'
BY DEF FetchEnd, PrefetchEnd, mshrVars, ioVars, bwVars, L1iInv, CoreTypeOK, ControlTypeOK,
       MshrTypeOK, QueuesTypeOK, MshrCoherent, BufferedOutstanding, BufferedOnce,
       OutstandingBuffered, NoEmptyDue, DueWindow, FetchBackedByMiss, InCompletion, Dues

LEMMA ClientSendInv ==
  ASSUME L1iInv, NEW obj \in ReqObj, NEW line \in Lines, ClientSend(obj, line)
  PROVE  L1iInv'
<1>1. /\ UNCHANGED mshrVars /\ UNCHANGED <<steps, pc, i>> /\ pc # "fill"
      /\ UNCHANGED bwVars /\ UNCHANGED super_in_response_buffer
      BY DEF ClientSend
<1>2. QueuesTypeOK'
      BY SendType DEF ClientSend, L1iInv
<1>3. FetchBackedByMiss'
      BY <1>1 DEF L1iInv, FetchBackedByMiss, mshrVars, InCompletion
<1> QED
    BY <1>1, <1>2, <1>3, TablesUnchanged DEF L1iInv, CoreTypeOK, ControlTypeOK, bwVars

LEMMA ClientReceiveInv ==
  ASSUME L1iInv, ClientReceive
  PROVE  L1iInv'
<1>1. /\ UNCHANGED mshrVars /\ UNCHANGED <<steps, pc, i>> /\ pc # "fill"
      /\ UNCHANGED bwVars /\ UNCHANGED super_in_request_buffer
      /\ super_in_response_buffer # <<>>
      /\ super_in_response_buffer' = Tail(super_in_response_buffer)
      BY DEF ClientReceive, ResponseReady
<1>2. super_in_response_buffer \in Seq(Response)
      BY DEF L1iInv, CoreTypeOK, QueuesTypeOK
<1>3. QueuesTypeOK'
      BY <1>1, <1>2 DEF L1iInv, CoreTypeOK, QueuesTypeOK
<1>4. FetchBackedByMiss'
  <2>1. \A n \in DOMAIN super_in_response_buffer' :
          /\ n + 1 \in DOMAIN super_in_response_buffer
          /\ super_in_response_buffer'[n] = super_in_response_buffer[n + 1]
        BY <1>1, <1>2
  <2> QED
      BY <2>1, <1>1 DEF L1iInv, FetchBackedByMiss, mshrVars, InCompletion
<1> QED
    BY <1>1, <1>3, <1>4, TablesUnchanged DEF L1iInv, CoreTypeOK, ControlTypeOK, bwVars

(* The clock moves by one, at most up to the first miss that is due.       *)
LEMMA NextCycleInv ==
  ASSUME L1iInv, NextCycle
  PROVE  L1iInv'
<1>1. CoreTypeOK' /\ MshrCoherent'
      BY DEF NextCycle, mshrVars, ioVars, bwVars, L1iInv, CoreTypeOK, ControlTypeOK, MshrTypeOK,
             QueuesTypeOK, MshrCoherent, BufferedOutstanding, BufferedOnce,
             OutstandingBuffered, NoEmptyDue, InCompletion, Dues
<1>2. DueWindow'
      BY L1iAssumption
         DEF NextCycle, mshrVars, L1iInv, DueWindow, CoreTypeOK, ControlTypeOK, MshrTypeOK, Dues
<1>3. FetchBackedByMiss'
  <2>1. \A n \in DOMAIN super_in_response_buffer : super_in_response_buffer[n].response_time \in Nat
    <3>1. super_in_response_buffer \in Seq(Response)
          BY DEF L1iInv, CoreTypeOK, QueuesTypeOK
    <3>2. \A n \in DOMAIN super_in_response_buffer : super_in_response_buffer[n] \in Response
          BY <3>1
    <3> QED
        BY <3>2 DEF Response
  <2>2. steps \in Nat /\ steps' = steps + 1
        BY DEF NextCycle, L1iInv, CoreTypeOK, ControlTypeOK
  <2> QED
      BY <2>1, <2>2 DEF NextCycle, mshrVars, ioVars, L1iInv, FetchBackedByMiss, InCompletion
<1> QED
    BY <1>1, <1>2, <1>3 DEF L1iInv

LEMMA StutterInv ==
  ASSUME L1iInv, UNCHANGED l1iVars
  PROVE  L1iInv'
BY DEF l1iVars, mshrVars, ioVars, bwVars, L1iInv, CoreTypeOK, ControlTypeOK,
       MshrTypeOK, QueuesTypeOK, MshrCoherent, BufferedOutstanding, BufferedOnce,
       OutstandingBuffered, NoEmptyDue, DueWindow, FetchBackedByMiss, InCompletion, Dues

LEMMA NextInv ==
  ASSUME L1iInv, [L1iNext]_l1iVars
  PROVE  L1iInv'
<1>1. CASE FillStep
      BY <1>1, FillLineInv, FillEndInv DEF FillStep, Dues
<1>2. CASE FetchStep
      BY <1>2, FetchHitInv, FetchMergeInv, FetchMissInv, LoopEndInv DEF FetchStep
<1>3. CASE PrefetchStep
      BY <1>3, PrefetchPoppedInv, PrefetchMissInv, LoopEndInv DEF PrefetchStep
<1>4. CASE ClientStep
      BY <1>4, ClientSendInv, ClientReceiveInv, NextCycleInv DEF ClientStep
<1>5. CASE UNCHANGED l1iVars
      BY <1>5, StutterInv
<1> QED
    BY <1>1, <1>2, <1>3, <1>4, <1>5 DEF L1iNext, CacheStep

(* The invariant holds in every reachable state, under any client.         *)
THEOREM L1iInvariant == L1iSpec => []L1iInv
<1>1. L1iInv /\ [L1iNext]_l1iVars => L1iInv'
      BY NextInv
<1> QED
    BY InitInv, <1>1, PTL DEF L1iSpec

(* The two tables of outstanding misses of the L1i always agree: step()    *)
(* never loses a miss, lists it twice or forgets when it is due.           *)
THEOREM MshrCoherence == L1iSpec => []MshrCoherent
<1>1. L1iInv => MshrCoherent
      BY DEF L1iInv
<1> QED
    BY L1iInvariant, <1>1, PTL

(* The shrinking bound of the fill loop never leaves a due miss behind.    *)
THEOREM FillLoopComplete == L1iSpec => []NoOverdueMiss
<1>1. L1iInv => NoOverdueMiss
      BY DEF L1iInv, DueWindow, NoOverdueMiss
<1> QED
    BY L1iInvariant, <1>1, PTL

(* A fetch response that is held back is for a line that is still on its   *)
(* way and is due when the response is.                                    *)
THEOREM FetchResponsesBacked == L1iSpec => []FetchBackedByMiss
<1>1. L1iInv => FetchBackedByMiss
      BY DEF L1iInv
<1> QED
    BY L1iInvariant, <1>1, PTL

-----------------------------------------------------------------------------
(* The cache implements the first-in first-out channel.  A request moves   *)
(* from the head of the request queue to the back of the response queue,   *)
(* which leaves the concatenation of the two as it was.                    *)

LEMMA AppendHeadConcatTail ==
  ASSUME NEW S, NEW s \in Seq(S), NEW t \in Seq(S), t # <<>>
  PROVE  Append(s, Head(t)) \o Tail(t) = s \o t
OBVIOUS

LEMMA EqualSeq ==
  ASSUME NEW S, NEW s \in Seq(S), NEW n \in Nat, Len(s) = n,
         NEW f, f = [k \in 1 .. n |-> f[k]], \A k \in 1 .. n : f[k] = s[k]
  PROVE  f = s
OBVIOUS

ResponseLines ==
  [n \in DOMAIN super_in_response_buffer |-> super_in_response_buffer[n].da]

LEMMA ResponseLinesType ==
  ASSUME QueuesTypeOK
  PROVE  /\ ResponseLines \in Seq(Lines)
         /\ Len(ResponseLines) = Len(super_in_response_buffer)
         /\ super_in_request_buffer["f"] \in Seq(Lines)
<1>1. super_in_response_buffer \in Seq(Response) /\ super_in_request_buffer["f"] \in Seq(Lines)
      BY DEF QueuesTypeOK, ReqObj
<1>2. \A n \in DOMAIN super_in_response_buffer : super_in_response_buffer[n].da \in Lines
  <2>1. \A n \in DOMAIN super_in_response_buffer : super_in_response_buffer[n] \in Response
        BY <1>1
  <2> QED
      BY <2>1 DEF Response
<1>3. DOMAIN super_in_response_buffer = 1 .. Len(super_in_response_buffer)
      /\ Len(super_in_response_buffer) \in Nat
      BY <1>1
<1>4. ResponseLines \in [1 .. Len(super_in_response_buffer) -> Lines]
      BY <1>2, <1>3 DEF ResponseLines
<1> QED
    BY <1>1, <1>3, <1>4

LEMMA PendingUnchanged ==
  ASSUME UNCHANGED super_in_response_buffer,
         super_in_request_buffer'["f"] = super_in_request_buffer["f"]
  PROVE  PendingFetches' = PendingFetches
BY DEF PendingFetches

LEMMA RespondKeepsPending ==
  ASSUME L1iInv, NEW line \in Lines, NEW time \in Nat,
         NextRequest("f", line), Respond(line, time)
  PROVE  PendingFetches' = PendingFetches
<1> DEFINE f == super_in_request_buffer["f"]
<1>1. /\ super_in_response_buffer \in Seq(Response)
      /\ ResponseLines \in Seq(Lines) /\ Len(ResponseLines) = Len(super_in_response_buffer)
      /\ f \in Seq(Lines) /\ f # <<>> /\ line = Head(f)
      BY ResponseLinesType DEF L1iInv, CoreTypeOK, QueuesTypeOK, NextRequest
<1>2. super_in_request_buffer'["f"] = Tail(f)
      BY DEF Respond, PopRequest, L1iInv, CoreTypeOK, QueuesTypeOK, ReqObj
<1>3. ResponseLines' = Append(ResponseLines, line)
  <2> DEFINE r == super_in_response_buffer
  <2>1. r' = Append(r, [da |-> line, response_time |-> time])
        BY DEF Respond
  <2>2. /\ r' \in Seq(Response) /\ Len(r') = Len(r) + 1 /\ Len(r) \in Nat
        /\ \A n \in 1 .. Len(r) : r'[n] = r[n]
        /\ r'[Len(r) + 1] = [da |-> line, response_time |-> time]
        BY <2>1, <1>1 DEF Response
  <2>3. DOMAIN r' = 1 .. Len(r) + 1 /\ DOMAIN r = 1 .. Len(r)
        BY <2>2, <1>1
  <2>4. ResponseLines' = [n \in 1 .. Len(r) + 1 |-> r'[n].da]
        BY <2>3 DEF ResponseLines
  <2>5. Append(ResponseLines, line) \in Seq(Lines)
        /\ Len(Append(ResponseLines, line)) = Len(r) + 1
        /\ \A n \in 1 .. Len(r) + 1 :
             Append(ResponseLines, line)[n] = IF n = Len(r) + 1 THEN line ELSE ResponseLines[n]
        BY <1>1, <2>2
  <2>6. \A n \in 1 .. Len(r) : ResponseLines[n] = r[n].da
        BY <2>3 DEF ResponseLines
  <2>7. \A n \in 1 .. Len(r) + 1 : ResponseLines'[n] = Append(ResponseLines, line)[n]
        BY <2>2, <2>4, <2>5, <2>6
  <2>8. ResponseLines' = [n \in 1 .. Len(r) + 1 |-> ResponseLines'[n]]
        BY <2>4
  <2> HIDE DEF r
  <2> QED
      BY <2>2, <2>5, <2>7, <2>8, EqualSeq
<1>4. Append(ResponseLines, Head(f)) \o Tail(f) = ResponseLines \o f
      BY <1>1, AppendHeadConcatTail
<1> QED
    BY <1>1, <1>2, <1>3, <1>4 DEF PendingFetches, ResponseLines

LEMMA SendPending ==
  ASSUME L1iInv, NEW obj \in ReqObj, NEW line \in Lines, ClientSend(obj, line)
  PROVE  \/ obj = "f"  /\ PendingFetches' = Append(PendingFetches, line)
         \/ obj = "pf" /\ PendingFetches' = PendingFetches
<1> DEFINE pushed == [super_in_request_buffer EXCEPT ![obj] = Append(@, line)]
           f == super_in_request_buffer["f"]
<1>1. /\ super_in_request_buffer \in [ReqObj -> Seq(Lines)] /\ f \in Seq(Lines)
      /\ ResponseLines \in Seq(Lines)
      BY ResponseLinesType DEF L1iInv, CoreTypeOK, QueuesTypeOK
<1>2. UNCHANGED super_in_response_buffer /\ sub_send_request(obj, line)
      BY DEF ClientSend
<1>3. super_in_request_buffer'["f"] = IF obj = "f" THEN Append(f, line) ELSE f
      BY <1>1, <1>2 DEF sub_send_request, ReqObj
<1>4. ResponseLines' = ResponseLines
      BY <1>2 DEF ResponseLines
<1>5. CASE obj = "f"
  <2>1. ResponseLines \o Append(f, line) = Append(ResponseLines \o f, line)
        BY <1>1
  <2> QED
      BY <2>1, <1>3, <1>4, <1>5 DEF PendingFetches, ResponseLines
<1>6. CASE obj = "pf"
      BY <1>2, <1>3, <1>6, PendingUnchanged
<1> QED
    BY <1>5, <1>6 DEF ReqObj

LEMMA ReceivePending ==
  ASSUME L1iInv, ClientReceive
  PROVE  PendingFetches # <<>> /\ PendingFetches' = Tail(PendingFetches)
<1> DEFINE r == super_in_response_buffer
           f == super_in_request_buffer["f"]
<1>1. /\ r \in Seq(Response) /\ r # <<>> /\ r' = Tail(r)
      /\ f \in Seq(Lines) /\ f' = f
      /\ ResponseLines \in Seq(Lines) /\ Len(ResponseLines) = Len(r)
      BY ResponseLinesType
         DEF ClientReceive, ResponseReady, L1iInv, CoreTypeOK, QueuesTypeOK, ReqObj
<1>2. /\ Len(r) \in Nat /\ Len(r) # 0
      /\ DOMAIN r = 1 .. Len(r) /\ DOMAIN r' = 1 .. Len(r) - 1
      /\ \A n \in 1 .. Len(r) - 1 : r'[n] = r[n + 1]
      BY <1>1
<1>3. \A n \in 1 .. Len(r) : ResponseLines[n] = r[n].da
      BY <1>2 DEF ResponseLines
<1>4. ResponseLines' = [n \in 1 .. Len(r) - 1 |-> r[n + 1].da]
      BY <1>2 DEF ResponseLines
<1>5. /\ Tail(ResponseLines) \in Seq(Lines) /\ Len(Tail(ResponseLines)) = Len(r) - 1
      /\ \A n \in 1 .. Len(r) - 1 : Tail(ResponseLines)[n] = ResponseLines[n + 1]
      /\ ResponseLines # <<>>
      BY <1>1, <1>2
<1>6. ResponseLines' = Tail(ResponseLines)
  <2>1. \A n \in 1 .. Len(r) - 1 : ResponseLines'[n] = Tail(ResponseLines)[n]
        BY <1>2, <1>3, <1>4, <1>5
  <2>2. ResponseLines' = [n \in 1 .. Len(r) - 1 |-> ResponseLines'[n]]
        BY <1>4
  <2> HIDE DEF r
  <2> QED
      BY <2>1, <2>2, <1>2, <1>5, EqualSeq
<1>7. Tail(ResponseLines) \o f = Tail(ResponseLines \o f) /\ ResponseLines \o f # <<>>
      BY <1>1, <1>5
<1> QED
    BY <1>1, <1>6, <1>7 DEF PendingFetches, ResponseLines

(* The cache's own work leaves what the client waits for as it was.        *)
LEMMA CacheStepKeepsPending ==
  ASSUME L1iInv, CacheStep
  PROVE  PendingFetches' = PendingFetches
<1>1. CASE FillStep \/ FetchEnd \/ PrefetchEnd
      BY <1>1, PendingUnchanged
         DEF FillStep, FillLine, FillEnd, FetchEnd, PrefetchEnd, ioVars
<1>2. CASE \E line \in Lines : FetchHit(line) \/ FetchMerge(line) \/ FetchMiss(line)
  <2> PICK line \in Lines : FetchHit(line) \/ FetchMerge(line) \/ FetchMiss(line)
      BY <1>2
  <2>1. CASE FetchHit(line)
        BY <2>1, RespondKeepsPending DEF FetchHit, L1iInv, CoreTypeOK, ControlTypeOK
  <2>2. CASE FetchMerge(line)
        BY <2>2, RespondKeepsPending
           DEF FetchMerge, InCompletion, L1iInv, CoreTypeOK, MshrTypeOK
  <2>3. CASE FetchMiss(line)
    <3>1. steps + MissLatency \in Nat
          BY L1iAssumption DEF L1iInv, CoreTypeOK, ControlTypeOK
    <3> QED
        BY <3>1, <2>3, RespondKeepsPending DEF FetchMiss
  <2> QED
      BY <2>1, <2>2, <2>3
<1>3. CASE \E line \in Lines : PrefetchMerge(line) \/ PrefetchHit(line) \/ PrefetchMiss(line)
  <2>1. /\ PopRequest("pf") /\ UNCHANGED super_in_response_buffer
        BY <1>3 DEF PrefetchMerge, PrefetchHit, PrefetchMiss
  <2>2. super_in_request_buffer'["f"] = super_in_request_buffer["f"]
        BY <2>1 DEF PopRequest, L1iInv, CoreTypeOK, QueuesTypeOK, ReqObj
  <2> QED
      BY <2>1, <2>2, PendingUnchanged
<1> QED
    BY <1>1, <1>2, <1>3 DEF CacheStep, FetchStep, PrefetchStep

Turn == IF pc = "cpu" THEN "client" ELSE "server"

LEMMA ChannelStep ==
  ASSUME L1iInv, [L1iNext]_l1iVars
  PROVE  [Channel!ChannelNext]_<<PendingFetches, Turn>>
<1> USE DEF Turn
<1>1. ASSUME PendingFetches' = PendingFetches
      PROVE  Channel!ChannelNext
      BY <1>1 DEF Channel!Yield, Channel!ChannelNext
<1>2. CASE CacheStep
      BY <1>1, <1>2, CacheStepKeepsPending
<1>3. CASE NextCycle \/ UNCHANGED l1iVars
      BY <1>1, <1>3, PendingUnchanged DEF NextCycle, l1iVars, ioVars
<1>4. CASE \E obj \in ReqObj, line \in Lines : ClientSend(obj, line)
  <2> PICK obj \in ReqObj, line \in Lines : ClientSend(obj, line)
      BY <1>4
  <2>1. pc = "cpu" /\ pc' = "cpu"
        BY DEF ClientSend
  <2>2. CASE PendingFetches' = Append(PendingFetches, line)
        BY <2>1, <2>2 DEF Channel!Send, Channel!ChannelNext
  <2>3. CASE PendingFetches' = PendingFetches
        BY <2>3, <1>1
  <2> QED
      BY <2>2, <2>3, SendPending
<1>5. CASE ClientReceive
  <2>1. pc = "cpu" /\ pc' = "cpu"
        BY <1>5 DEF ClientReceive
  <2> QED
      BY <2>1, <1>5, ReceivePending DEF Channel!Receive, Channel!ChannelNext
<1> QED
    BY <1>2, <1>3, <1>4, <1>5 DEF L1iNext, ClientStep

LEMMA ChannelStart == L1iInit => Channel!ChannelInit
<1> SUFFICES ASSUME L1iInit PROVE Channel!ChannelInit
    OBVIOUS
<1>1. ResponseLines = <<>> /\ super_in_request_buffer["f"] = <<>>
      BY DEF L1iInit, ResponseLines, ReqObj
<1>2. <<>> \o <<>> = <<>>
      OBVIOUS
<1> QED
    BY <1>1, <1>2 DEF L1iInit, PendingFetches, ResponseLines, Channel!ChannelInit

(* Under any client the cache is a first-in first-out channel for fetch    *)
(* requests: hits, misses, merges, refusals by L2 and fills neither lose,  *)
(* duplicate nor reorder a request that its client is counting on.         *)
THEOREM FetchChannelImplemented == L1iSpec => FetchesInOrder
<1>1. L1iInv /\ [L1iNext]_l1iVars => [Channel!ChannelNext]_<<PendingFetches, Turn>>
      BY ChannelStep
<1> QED
    BY ChannelStart, <1>1, L1iInvariant, PTL
       DEF L1iSpec, FetchesInOrder, Channel!ChannelSpec, Turn

-----------------------------------------------------------------------------
(* The tag store.  Only a fill, which touches the line at once, and a      *)
(* fetch that hits change it.                                              *)
StoreInv == tag_store \in Stores /\ AllOrdered(tag_store)

LEMMA ReadKeepsStore ==
  ASSUME StoreInv, NEW line \in Lines, tag_store' = read(tag_store, line)
  PROVE  StoreInv'
<1>1. line \in Nat
      BY L1iAssumption
<1>2. read(tag_store, line) \in Stores /\ AllOrdered(read(tag_store, line))
      BY <1>1, ReadSets, ReadOrdered DEF StoreInv
<1> QED
    BY <1>2 DEF StoreInv

LEMMA FillReadKeepsStore ==
  ASSUME StoreInv, NEW line \in Lines, tag_store' = read(fill(tag_store, line), line)
  PROVE  StoreInv'
<1>1. line \in Nat
      BY L1iAssumption
<1>2. fill(tag_store, line) \in Stores
      BY <1>1, FillSets DEF StoreInv
<1>3. read(fill(tag_store, line), line) \in Stores
      BY <1>1, <1>2, ReadSets
<1>4. AllOrdered(read(fill(tag_store, line), line))
      BY <1>1, FillReadOrdered DEF StoreInv
<1> QED
    BY <1>3, <1>4 DEF StoreInv

LEMMA StoreInit == L1iInit => StoreInv
BY EmptyStoreType, EmptyOrdered DEF L1iInit, StoreInv

LEMMA StoreNext ==
  ASSUME L1iInv, StoreInv, [L1iNext]_l1iVars
  PROVE  StoreInv'
<1>1. ASSUME NEW k \in DOMAIN super_in_miss_buffer, FillLine(k)
      PROVE  StoreInv'
  <2>1. k \in Dues
        BY DEF Dues
  <2>2. super_in_miss_buffer[k] \in Seq(Lines) /\ super_in_miss_buffer[k] # <<>>
        BY <1>1, <2>1, FillNow
  <2>3. Head(super_in_miss_buffer[k]) \in Lines
        BY <2>2
  <2>4. tag_store' = read(fill(tag_store, Head(super_in_miss_buffer[k])), Head(super_in_miss_buffer[k]))
        BY <1>1 DEF FillLine
  <2> QED
      BY <2>3, <2>4, FillReadKeepsStore
<1>2. ASSUME NEW line \in Lines, FetchHit(line)
      PROVE  StoreInv'
  <2>1. tag_store' = read(tag_store, line)
        BY <1>2 DEF FetchHit
  <2> QED
      BY <2>1, ReadKeepsStore
<1>3. ASSUME UNCHANGED tag_store
      PROVE  StoreInv'
      BY <1>3 DEF StoreInv
<1>4. CASE FillEnd \/ FetchEnd \/ PrefetchEnd \/ ClientReceive \/ NextCycle
      BY <1>3, <1>4 DEF FillEnd, FetchEnd, PrefetchEnd, ClientReceive, NextCycle, tagVars
<1>5. ASSUME NEW line \in Lines,
             \/ FetchMerge(line) \/ FetchMiss(line) \/ PrefetchMerge(line)
             \/ PrefetchHit(line) \/ PrefetchMiss(line)
             \/ \E obj \in ReqObj : ClientSend(obj, line)
      PROVE  StoreInv'
      BY <1>3, <1>5 DEF FetchMerge, FetchMiss, PrefetchMerge, PrefetchHit, PrefetchMiss,
                        ClientSend, tagVars
<1>6. CASE UNCHANGED l1iVars
      BY <1>3, <1>6 DEF l1iVars, tagVars
<1> QED
    BY <1>1, <1>2, <1>4, <1>5, <1>6 DEF L1iNext, CacheStep, ClientStep, FillStep, FetchStep, PrefetchStep

(* In every set the list and the map stay in step: the invariant of the    *)
(* tag store, whatever lines are filled, refilled and touched.             *)
THEOREM StoreInvariant == L1iSpec => []StoreInv
<1>1. L1iInit => StoreInv
      BY StoreInit
<1>2. L1iInv /\ StoreInv /\ [L1iNext]_l1iVars => StoreInv'
      BY StoreNext
<1> QED
    BY <1>1, <1>2, L1iInvariant, PTL DEF L1iSpec

(* TypeOK: every variable of the cache, the tag store included, keeps the  *)
(* type that its declaration in Cache_L1i_Standalone gives it.             *)
THEOREM CacheTypeCorrect == L1iSpec => []TypeOK
<1>1. L1iInv /\ StoreInv => TypeOK
      BY DEF L1iInv, CoreTypeOK, StoreInv, Stores, TypeOK, TagStoreTypeOK
<1> QED
    BY <1>1, L1iInvariant, StoreInvariant, PTL

(* SetCoherent: the LRU list of a set names each resident tag once and no  *)
(* other, and the set is within its associativity, though a fill appends   *)
(* the tag of a line that may be there already (a false miss).             *)
THEOREM SetsCoherent == L1iSpec => []SetCoherent
<1>1. ASSUME StoreInv PROVE SetCoherent
  <2> SUFFICES ASSUME NEW idx \in SetIndices
               PROVE  LET order == tag_store[idx].replacement_order
                      IN  /\ {order[n] : n \in DOMAIN order} = tag_store[idx].ways
                          /\ Len(order) = Cardinality(tag_store[idx].ways)
                          /\ Len(order) <= Ways
      BY DEF SetCoherent
  <2> DEFINE set == tag_store[idx]
             order == set.replacement_order
  <2>1. Ordered(set) /\ order \in Seq(Tags)
        BY <1>1 DEF StoreInv, Stores, AllOrdered, CacheIndex
  <2> HIDE DEF set
  <2>2. Elements(order) = set.ways /\ Distinct(order) /\ Cardinality(set.ways) <= Ways
        BY <2>1 DEF Ordered
  <2> HIDE DEF order
  <2>3. Cardinality(set.ways) = Len(order)
        BY <2>1, <2>2, DistinctCount, Zenon
  <2>4. /\ {order[n] : n \in DOMAIN order} = set.ways
        /\ Len(order) = Cardinality(set.ways)
        /\ Len(order) <= Ways
        BY <2>2, <2>3 DEF Elements
  <2> QED
      BY <2>4 DEF order, set
<1> QED
    BY <1>1, StoreInvariant, PTL

-----------------------------------------------------------------------------
(* Numbers with one quotient are less than the divisor apart ...           *)
LEMMA SameQuotientNear ==
  ASSUME NEW a \in Nat, NEW b \in Nat, NEW n \in Nat \ {0}, a \div n = b \div n
  PROVE  a - b < n
<1> DEFINE q == a \div n
<1>1. q \in Nat /\ a = n * q + (a % n) /\ a % n \in 0 .. n - 1
      BY DivisionParts
<1>2. b = n * q + (b % n) /\ b % n \in 0 .. n - 1
      BY DivisionParts
<1> DEFINE p == n * q
           r == a % n
           s == b % n
<1>3. p \in Nat
      BY <1>1
<1> HIDE DEF q, p, r, s
<1> QED
    BY <1>1, <1>2, <1>3 DEF p, r, s

(* ... and with one remainder, at least the divisor, or equal.             *)
LEMMA SameRemainderFar ==
  ASSUME NEW a \in Nat, NEW b \in Nat, NEW n \in Nat \ {0}, a % n = b % n, a > b
  PROVE  a - b >= n
<1> DEFINE x == a \div n
           y == b \div n
           r == a % n
<1>1. x \in Nat /\ a = n * x + r /\ r \in 0 .. n - 1
      BY DivisionParts
<1>2. y \in Nat /\ b = n * y + r
      BY DivisionParts
<1> HIDE DEF x, y, r
<1>3. x > y
  <2>1. SUFFICES ASSUME x <= y PROVE FALSE
        BY <1>1, <1>2
  <2>2. n * x <= n * y
        BY <1>1, <1>2, <2>1
  <2> QED
      BY <1>1, <1>2, <2>2
<1>4. n * x >= n * y + n
  <2>1. x >= y + 1
        BY <1>1, <1>2, <1>3
  <2>2. n * x >= n * (y + 1)
        BY <1>1, <1>2, <2>1
  <2>3. n * (y + 1) = n * y + n
        BY <1>2
  <2> QED
      BY <1>1, <1>2, <2>2, <2>3
<1> QED
    BY <1>1, <1>2, <1>4

(* The index and the tag tell all lines apart: no more sets than a line    *)
(* has bytes, and no line number beyond the tag mask.                      *)
LinesTellApart ==
  /\ Sets <= ClSize
  /\ \A line \in Lines : line \div Sets < TagSpace

LEMMA TagsDiffer ==
  ASSUME LinesTellApart, NEW l \in Lines, NEW m \in Lines,
         get_set_idx(l) = get_set_idx(m), get_tag(l) = get_tag(m)
  PROVE  l = m
<1>1. l \in Nat /\ m \in Nat /\ Sets \in Nat \ {0} /\ ClSize \in Nat \ {0} /\ TagSpace \in Nat \ {0}
      BY L1iAssumption, TagStoreAssumption
<1>2. l \div Sets = m \div Sets
  <2>1. l \div Sets \in Nat /\ m \div Sets \in Nat
        BY <1>1, DivisionParts
  <2>2. l \div Sets < TagSpace /\ m \div Sets < TagSpace
        BY DEF LinesTellApart
  <2> DEFINE x == l \div Sets
             y == m \div Sets
  <2>3. x % TagSpace = y % TagSpace
        BY DEF get_tag
  <2> HIDE DEF x, y
  <2>4. x % TagSpace = x /\ y % TagSpace = y
        BY <1>1, <2>1, <2>2 DEF x, y
  <2> QED
      BY <2>3, <2>4 DEF x, y
<1>3. l - m < Sets /\ m - l < Sets
      BY <1>1, <1>2, SameQuotientNear
<1>4. l % ClSize = m % ClSize
      BY DEF get_set_idx
<1>5. ~ (l > m)
  <2>1. l > m => l - m >= ClSize
        BY <1>1, <1>4, SameRemainderFar
  <2> QED
      BY <1>1, <1>3, <2>1 DEF LinesTellApart
<1>6. ~ (m > l)
  <2>1. m > l => m - l >= ClSize
        BY <1>1, <1>4, SameRemainderFar
  <2> QED
      BY <1>1, <1>3, <2>1 DEF LinesTellApart
<1> QED
    BY <1>1, <1>5, <1>6

(* WaysNotShared: a set answers for no more lines than it has ways -       *)
(* provided that there are no more sets than a line has bytes, as in the   *)
(* default configuration (64 and 64), and that the addresses stay within   *)
(* the tag mask.  With more sets than that the code masks the index with   *)
(* cl_size - 1 and lines alias, as the run L1iAliasing shows.              *)
THEOREM NoAliasing ==
  ASSUME LinesTellApart
  PROVE  L1iSpec => []WaysNotShared
<1>1. ASSUME StoreInv PROVE WaysNotShared
  <2> SUFFICES ASSUME NEW idx \in SetIndices
               PROVE  Cardinality({line \in Lines : get_set_idx(line) = idx
                                                      /\ can_read(tag_store, line)}) <= Ways
      BY DEF WaysNotShared
  <2> DEFINE held == {line \in Lines : get_set_idx(line) = idx /\ can_read(tag_store, line)}
             ways == tag_store[idx].ways
             f    == [line \in held |-> get_tag(line)]
  <2>1. Ordered(tag_store[idx]) /\ tag_store[idx].replacement_order \in Seq(Tags)
        BY <1>1 DEF StoreInv, Stores, AllOrdered, CacheIndex
  <2>2. IsFiniteSet(ways) /\ Cardinality(ways) <= Ways
        BY <2>1, DistinctCount DEF Ordered
  <2>3. \A line \in held : get_tag(line) \in ways
        BY DEF can_read
  <2>4. \A l, m \in held : get_tag(l) = get_tag(m) => l = m
        BY TagsDiffer
  <2>5. f \in Injection(held, ways)
    <3> HIDE DEF held, ways
    <3> QED
        BY <2>3, <2>4 DEF Injection, IsInjective
  <2> HIDE DEF f, held, ways
  <2>6. IsFiniteSet(held) /\ Cardinality(held) <= Cardinality(ways)
        BY <2>2, <2>5, FS_Injection, Zenon
  <2>7. Cardinality(held) \in Nat /\ Cardinality(ways) \in Nat
        BY <2>2, <2>6, FS_CardinalityType, Zenon
  <2> QED
      BY <2>2, <2>6, <2>7, TagStoreAssumption DEF held
<1> QED
    BY <1>1, StoreInvariant, PTL

-----------------------------------------------------------------------------
(* L2's bandwidth.  The cycles that L2_accept takes for the transfer of a  *)
(* line, rounded down:                                                     *)
Spacing == ClSize \div MissByteBw

LEMMA SpacingRounded ==
  ASSUME MissByteBw # NoLimit
  PROVE  /\ Spacing \in Nat /\ (Spacing # 0 => MissByteBw <= ClSize)
         /\ (MissByteBw = ClSize => Spacing = 1)
<1> DEFINE n == MissByteBw
           c == ClSize
           q == c \div n
           r == c % n
<1>1. n \in Nat \ {0} /\ c \in Nat \ {0}
      BY L1iAssumption, TagStoreAssumption
<1>2. q \in Nat /\ r \in Nat /\ c = n * q + r
  <2> HIDE DEF n, c
  <2>1. c \div n \in Nat /\ c % n \in 0 .. n - 1 /\ c = n * (c \div n) + (c % n)
        BY <1>1, DivisionParts
  <2>2. c % n \in Nat
        BY <1>1, <2>1
  <2> QED
      BY <2>1, <2>2
<1>3. n = c => q = 1
      BY <1>1
<1> HIDE DEF n, c, q, r
<1>4. q # 0 => n <= c
  <2>1. q # 0 => n * q >= n * 1
        BY <1>1, <1>2
  <2>2. n * q \in Nat
        BY <1>1, <1>2
  <2> QED
      BY <1>1, <1>2, <2>1, <2>2
<1> QED
    BY <1>2, <1>3, <1>4 DEF Spacing, n, c, q

(* Two misses are never closer than that; the last one, if there has been  *)
(* one, fills the block of cycles that it began.                           *)
Spaced ==
  MissByteBw # NoLimit =>
    /\ last_miss_cycle <= steps
    /\ last_miss_bytes \in {0, ClSize}
    /\ \A l \in DOMAIN super_in_request_completion :
         /\ last_miss_bytes = ClSize
         /\ super_in_request_completion[l] <= last_miss_cycle + MissLatency
    /\ \A l, m \in DOMAIN super_in_request_completion :
         \/ l = m
         \/ super_in_request_completion[l] + Spacing <= super_in_request_completion[m]
         \/ super_in_request_completion[m] + Spacing <= super_in_request_completion[l]

LEMMA SpacedMiss ==
  ASSUME L1iInv, Spaced, NEW line \in Lines, ~ InCompletion(line),
         L2_accept, AllocateMiss(line), UNCHANGED steps
  PROVE  Spaced'
<1> SUFFICES ASSUME MissByteBw # NoLimit PROVE Spaced'
    BY DEF Spaced
<1> DEFINE completion == super_in_request_completion
           due == steps + MissLatency
<1>1. /\ Spacing \in Nat /\ (Spacing # 0 => MissByteBw <= ClSize)
      /\ (MissByteBw = ClSize => Spacing = 1)
      /\ ClSize \in Nat \ {0} /\ MissByteBw \in Nat \ {0} /\ MissLatency \in Nat \ {0}
      /\ steps \in Nat /\ last_miss_cycle \in Nat /\ last_miss_bytes \in {0, ClSize}
      /\ last_miss_cycle <= steps
      BY SpacingRounded, L1iAssumption, TagStoreAssumption
         DEF L1iInv, CoreTypeOK, ControlTypeOK, Spaced
<1>2. /\ DOMAIN completion' = DOMAIN completion \cup {line} /\ completion'[line] = due
      /\ \A l \in DOMAIN completion : l # line /\ completion'[l] = completion[l]
      BY AllocateMissCompletion DEF InCompletion
<1>3. \A l \in DOMAIN completion : completion[l] \in Nat
      BY DEF L1iInv, CoreTypeOK, MshrTypeOK
<1>4. /\ \A l \in DOMAIN completion :
           last_miss_bytes = ClSize /\ completion[l] <= last_miss_cycle + MissLatency
      /\ \A l, m \in DOMAIN completion :
           l = m \/ completion[l] + Spacing <= completion[m] \/ completion[m] + Spacing <= completion[l]
      BY DEF Spaced
<1>5. last_miss_bytes' = ClSize /\ last_miss_cycle' = steps
      /\ \A l \in DOMAIN completion : completion[l] + Spacing <= due
  <2>1. CASE InCycleBlock
    <3>1. steps < last_miss_cycle + Spacing
          BY <2>1 DEF InCycleBlock, Spacing
    <3>2. last_miss_bytes + ClSize <= MissByteBw
          BY <1>1, <2>1 DEF L2_accept, L2Busy
    <3>3. last_miss_bytes = 0 /\ MissByteBw = ClSize /\ MissByteBw <= ClSize
          BY <1>1, <3>1, <3>2
    <3>4. DOMAIN completion = {}
          BY <1>1, <1>4, <3>3
    <3>5. last_miss_cycle = steps
          BY <1>1, <3>1, <3>3
    <3>6. last_miss_bytes' = last_miss_bytes + ClSize /\ last_miss_cycle' = last_miss_cycle
          BY <2>1 DEF L2_accept
    <3> QED
        BY <1>1, <3>3, <3>4, <3>5, <3>6
  <2>2. CASE ~ InCycleBlock
    <3>1. last_miss_cycle + Spacing <= steps
          BY <1>1, <2>2 DEF InCycleBlock, Spacing
    <3>2. last_miss_bytes' = ClSize /\ last_miss_cycle' = steps
          BY <2>2 DEF L2_accept
    <3> QED
        BY <1>1, <1>3, <1>4, <3>1, <3>2
  <2> QED
      BY <2>1, <2>2
<1>6. \A l \in DOMAIN completion' :
        last_miss_bytes' = ClSize /\ completion'[l] <= last_miss_cycle' + MissLatency
      BY <1>1, <1>2, <1>3, <1>5
<1>7. ASSUME NEW l \in DOMAIN completion', NEW m \in DOMAIN completion'
      PROVE  l = m \/ completion'[l] + Spacing <= completion'[m]
                   \/ completion'[m] + Spacing <= completion'[l]
  <2>1. CASE l \in DOMAIN completion /\ m \in DOMAIN completion
        BY <1>2, <1>4, <2>1
  <2>2. CASE l = line \/ m = line
        BY <1>2, <1>5, <1>7, <2>2
  <2> QED
      BY <1>2, <2>1, <2>2
<1> QED
    BY <1>1, <1>5, <1>6, <1>7 DEF Spaced

LEMMA SpacedNext ==
  ASSUME L1iInv, Spaced, [L1iNext]_l1iVars
  PROVE  Spaced'
<1> USE DEF Spaced
<1>1. ASSUME NEW k \in DOMAIN super_in_miss_buffer, FillLine(k)
      PROVE  Spaced'
      BY <1>1 DEF FillLine, bwVars
<1>2. ASSUME UNCHANGED <<steps, super_in_request_completion, bwVars>>
      PROVE  Spaced'
      BY <1>2 DEF bwVars
<1>3. ASSUME NEW line \in Lines, FetchMiss(line) \/ PrefetchMiss(line)
      PROVE  Spaced'
  <2> HIDE DEF Spaced
  <2> QED
      BY <1>3, SpacedMiss DEF FetchMiss, PrefetchMiss, PrefetchMissable
<1>4. CASE NextCycle
  <2>1. steps' = steps + 1 /\ UNCHANGED super_in_request_completion
        /\ UNCHANGED <<last_miss_cycle, last_miss_bytes>>
        BY <1>4 DEF NextCycle, mshrVars, bwVars
  <2>2. steps \in Nat /\ last_miss_cycle \in Nat
        BY DEF L1iInv, CoreTypeOK, ControlTypeOK
  <2> QED
      BY <2>1, <2>2
<1> HIDE DEF Spaced
<1>5. CASE FillEnd \/ FetchEnd \/ PrefetchEnd \/ ClientReceive \/ UNCHANGED l1iVars
      BY <1>2, <1>5 DEF FillEnd, FetchEnd, PrefetchEnd, ClientReceive, l1iVars, mshrVars
<1>6. ASSUME NEW line \in Lines,
             \/ FetchHit(line) \/ FetchMerge(line) \/ PrefetchMerge(line) \/ PrefetchHit(line)
             \/ \E obj \in ReqObj : ClientSend(obj, line)
      PROVE  Spaced'
      BY <1>2, <1>6 DEF FetchHit, FetchMerge, PrefetchMerge, PrefetchHit, ClientSend, mshrVars
<1> QED
    BY <1>1, <1>3, <1>4, <1>5, <1>6 DEF L1iNext, CacheStep, ClientStep, FillStep, FetchStep, PrefetchStep

(* In every configuration two lines that come from L2 come at least as far *)
(* apart as a line's transfer takes in whole cycles, rounded down,         *)
(* whichever of the two request loops the misses come from.                *)
THEOREM SpacedInvariant == L1iSpec => []Spaced
<1>1. L1iInit => Spaced
      BY DEF L1iInit, Spaced
<1>2. L1iInv /\ Spaced /\ [L1iNext]_l1iVars => Spaced'
      BY SpacedNext
<1> QED
    BY <1>1, <1>2, L1iInvariant, PTL DEF L1iSpec

(* For a line that L2 transfers in whole cycles nothing is rounded.        *)
WholeCycles == MissByteBw # NoLimit => ClSize % MissByteBw = 0

LEMMA TransferLength ==
  ASSUME MissByteBw # NoLimit, WholeCycles
  PROVE  /\ Spacing \in Nat \ {0} /\ TransferCycles = Spacing
         /\ ClSize = MissByteBw * Spacing
<1> DEFINE n == MissByteBw
           q == Spacing
           c == ClSize
           t == (c + n - 1) \div n
<1>1. n \in Nat \ {0} /\ c \in Nat \ {0}
      BY L1iAssumption, TagStoreAssumption
<1>2. q \in Nat /\ c = n * q
  <2>1. c \div n \in Nat /\ c = n * (c \div n) + (c % n)
        BY <1>1, DivisionParts
  <2>2. c % n = 0
        BY DEF WholeCycles
  <2>3. n * (c \div n) \in Nat
        BY <1>1, <2>1
  <2> HIDE DEF n, c
  <2> QED
      BY <2>1, <2>2, <2>3 DEF Spacing, n, c
<1>3. q # 0
  <2> HIDE DEF q, c, n
  <2> QED
      BY <1>1, <1>2
<1>4. t = q
  <2> HIDE DEF q, c, n
  <2>1. c + n - 1 = n * q + (n - 1) /\ n - 1 \in 0 .. n - 1
        BY <1>1, <1>2
  <2> QED
      BY <1>1, <1>2, <2>1, QuotientUnique
<1>5. TransferCycles = t
      BY DEF TransferCycles
<1> HIDE DEF t
<1> QED
    BY <1>2, <1>3, <1>4, <1>5

(* BandwidthRespected: in no window of cycles that the transfer of a line  *)
(* takes does L2 return more bytes than miss_byte_bw allows - provided     *)
(* that miss_byte_bw divides cl_size (32 and 64 by default), so that the   *)
(* quotient with which L2_accept measures the block is exact.              *)
THEOREM BandwidthKept ==
  ASSUME WholeCycles
  PROVE  L1iSpec => []BandwidthRespected
<1>1. ASSUME L1iInv, Spaced PROVE BandwidthRespected
  <2> SUFFICES ASSUME MissByteBw # NoLimit, NEW k \in Dues
               PROVE  L2Bytes(k, TransferCycles) <= TransferCycles * MissByteBw
      BY DEF BandwidthRespected
  <2> DEFINE held == {line \in DOMAIN super_in_request_completion :
                        super_in_request_completion[line] \in k .. k + Spacing - 1}
  <2>1. /\ Spacing \in Nat \ {0} /\ TransferCycles = Spacing /\ ClSize = MissByteBw * Spacing
        /\ ClSize \in Nat /\ MissByteBw \in Nat /\ k \in Nat
        BY <1>1, TransferLength, L1iAssumption, TagStoreAssumption DEF L1iInv, CoreTypeOK, MshrTypeOK
  <2>2. \A l, m \in held : l = m
        BY <1>1, <2>1 DEF Spaced
  <2>3. Cardinality(held) \in {0, 1}
    <3>1. CASE held = {}
          BY <3>1, FS_EmptySet
    <3>2. CASE held # {}
      <4> HIDE DEF held
      <4>1. PICK l : held = {l}
            BY <2>2, <3>2
      <4> QED
          BY <4>1, FS_Singleton
    <3> QED
        BY <3>1, <3>2
  <2>4. L2Bytes(k, TransferCycles) = ClSize * Cardinality(held)
        BY <2>1 DEF L2Bytes
  <2>5. TransferCycles * MissByteBw = ClSize
        BY <2>1
  <2> HIDE DEF held
  <2>6. ClSize * Cardinality(held) <= ClSize
        BY <2>1, <2>3
  <2> QED
      BY <2>4, <2>5, <2>6
<1> QED
    BY <1>1, L1iInvariant, SpacedInvariant, PTL
=============================================================================
