------------------------ MODULE CacheHierarchyProofs ------------------------
(***************************************************************************)
(* Proofs about CacheHierarchy, for any number of requests, any buffer     *)
(* sizes, latencies and bus speed, and any client of the MMU.  Only        *)
(* HierTypeCorrect looks into the tag store: for the others it does not    *)
(* matter what hits and what misses.                                       *)
(***************************************************************************)
EXTENDS CacheHierarchy, DataLemmas

Values(f) == {f[k] : k \in DOMAIN f}

MemRequests == [k \in DOMAIN mem_response_buffer |-> mem_response_buffer[k].request]

-----------------------------------------------------------------------------
(* The invariant.                                                          *)

Queued    == Entries(super_in_request_buffer)
MemQueued == Entries(mem_request_buffer)

(* The types that the arguments below need.                                *)
HierTypes ==
  /\ steps \in Nat
  /\ pc \in {"fill", "lookup", "memory", "client"}
  /\ super_in_request_buffer \in Seq(Requests)
  /\ mem_request_buffer \in Seq(Requests)
  /\ DOMAIN asked \subseteq Requests
  /\ \A r \in DOMAIN asked : asked[r] \in Nat
  /\ \A r \in SentOn : sub_out_request_buffer[r] \in Nat
  /\ DOMAIN super_in_response_buffer \subseteq Nat
  /\ DOMAIN mem_response_buffer \subseteq Nat

(* A request is in one place of the cache, and the MMU knows it there; if  *)
(* it has been sent on it is in one place of memory, or lost.              *)
Places ==
  /\ Distinct(super_in_request_buffer) /\ Distinct(super_in_response_buffer)
  /\ Queued \cap SentOn = {} /\ Queued \cap Answered = {} /\ SentOn \cap Answered = {}
  /\ DOMAIN cache_out_request_buffer = InCache
  /\ DOMAIN asked = InCache

MemPlaces ==
  /\ Distinct(mem_request_buffer) /\ Distinct(MemRequests)
  /\ MemQueued \cap MemAnswered = {}
  /\ lost \subseteq SentOn
  /\ InMemory = SentOn \ lost

(* No more than one request is looked up in a cycle, so the cycles that    *)
(* answers are due in are distinct, and the next is later than all.        *)
Keys ==
  /\ CompletionsDistinct
  /\ \A r \in SentOn :
       /\ sub_out_request_buffer[r] <= steps + HitLatency
       /\ pc \in {"fill", "lookup"} => sub_out_request_buffer[r] < steps + HitLatency
  /\ \A k \in DOMAIN super_in_response_buffer :
       /\ k <= steps + HitLatency
       /\ pc \in {"fill", "lookup"} => k < steps + HitLatency

MemKeys ==
  \A k \in DOMAIN mem_response_buffer :
    /\ k <= steps + MemLatency
    /\ pc # "client" => k < steps + MemLatency

(* What is asked in one cycle is looked up in the next at the earliest.    *)
Timing ==
  /\ \A r \in DOMAIN asked :
       /\ asked[r] <= steps
       /\ pc # "client" => asked[r] < steps
  /\ \A r \in SentOn : asked[r] + HitLatency < sub_out_request_buffer[r]
  /\ \A k \in DOMAIN super_in_response_buffer :
       asked[super_in_response_buffer[k]] + HitLatency < k

MemTiming ==
  \A k \in DOMAIN mem_response_buffer :
    sub_out_request_buffer[MemRequests[k]] + MemLatency <= k + HitLatency

HierInv ==
  /\ HierTypes /\ Places /\ MemPlaces /\ Keys /\ MemKeys /\ Timing /\ MemTiming

-----------------------------------------------------------------------------
(* Queues and tables.                                                      *)

(* A queue without repetitions after push_back and pop_front.              *)
LEMMA AppendEntries ==
  ASSUME NEW T, NEW s \in Seq(T), NEW x \in T
  PROVE  /\ Append(s, x) \in Seq(T)
         /\ Entries(Append(s, x)) = Entries(s) \cup {x}
         /\ Distinct(s) /\ x \notin Entries(s) => Distinct(Append(s, x))
<1>1. /\ Append(s, x) \in Seq(T) /\ DOMAIN Append(s, x) = DOMAIN s \cup {Len(s) + 1}
      /\ Append(s, x)[Len(s) + 1] = x
      /\ Len(s) + 1 \notin DOMAIN s
      /\ \A n \in DOMAIN s : Append(s, x)[n] = s[n]
  OBVIOUS
<1> DEFINE a == Append(s, x)
<1> HIDE DEF a
<1>2. /\ DOMAIN a = DOMAIN s \cup {Len(s) + 1}
      /\ a[Len(s) + 1] = x
      /\ Len(s) + 1 \notin DOMAIN s
      /\ \A n \in DOMAIN s : a[n] = s[n]
  BY <1>1 DEF a
<1>3. Entries(a) = Entries(s) \cup {x}
  BY <1>2 DEF Entries
<1>4. Distinct(s) /\ x \notin Entries(s) => Distinct(a)
  BY <1>2 DEF Entries, Distinct
<1>5. QED
  BY <1>1, <1>3, <1>4 DEF a

LEMMA TailEntries ==
  ASSUME NEW T, NEW s \in Seq(T), s # <<>>
  PROVE  /\ Tail(s) \in Seq(T)
         /\ Head(s) \in T /\ Head(s) \in Entries(s)
         /\ Distinct(s) => Entries(Tail(s)) = Entries(s) \ {Head(s)}
         /\ Distinct(s) => Distinct(Tail(s))
<1> DEFINE t == Tail(s)
<1>1. /\ t \in Seq(T) /\ Head(s) = s[1] /\ 1 \in DOMAIN s /\ s[1] \in T
      /\ DOMAIN t = 1 .. Len(s) - 1 /\ Len(s) \in Nat \ {0} /\ DOMAIN s = 1 .. Len(s)
      /\ \A n \in DOMAIN t : t[n] = s[n + 1]
  OBVIOUS
<1> HIDE DEF t
<1>2. Head(s) \in Entries(s)
  BY <1>1 DEF Entries
<1>3. ASSUME Distinct(s)  PROVE Distinct(t)
  BY <1>1, <1>3 DEF Distinct
<1>4. ASSUME Distinct(s)  PROVE Entries(t) = Entries(s) \ {Head(s)}
  <2>1. ASSUME NEW n \in DOMAIN t  PROVE t[n] \in Entries(s) \ {Head(s)}
    BY <1>1, <1>4, <2>1 DEF Distinct, Entries
  <2>2. ASSUME NEW n \in DOMAIN s, s[n] # Head(s)  PROVE s[n] \in Entries(t)
    <3>1. n - 1 \in DOMAIN t /\ s[n] = t[n - 1]
      BY <1>1, <2>2
    <3>2. QED  BY <3>1 DEF Entries
  <2>3. QED  BY <2>1, <2>2 DEF Entries
<1>5. QED
  BY <1>1, <1>2, <1>3, <1>4 DEF t

(* A table of answers after an answer with a new key, and without one.     *)
LEMMA PutValues ==
  ASSUME NEW f, NEW k, NEW v, k \notin DOMAIN f
  PROVE  /\ DOMAIN Put(f, k, v) = DOMAIN f \cup {k}
         /\ Put(f, k, v)[k] = v
         /\ \A j \in DOMAIN f : Put(f, k, v)[j] = f[j]
         /\ Values(Put(f, k, v)) = Values(f) \cup {v}
         /\ Distinct(f) /\ v \notin Values(f) => Distinct(Put(f, k, v))
<1> DEFINE g == Put(f, k, v)
<1>1. /\ DOMAIN g = DOMAIN f \cup {k} /\ g[k] = v /\ \A j \in DOMAIN f : g[j] = f[j]
  BY DEF Put
<1> HIDE DEF g
<1>2. Values(g) = Values(f) \cup {v}
  BY <1>1 DEF Values
<1>3. Distinct(f) /\ v \notin Values(f) => Distinct(g)
  BY <1>1 DEF Values, Distinct
<1>4. QED
  BY <1>1, <1>2, <1>3 DEF g

LEMMA EraseValues ==
  ASSUME NEW f, NEW k \in DOMAIN f, Distinct(f)
  PROVE  /\ DOMAIN Erase(f, k) = DOMAIN f \ {k}
         /\ \A j \in DOMAIN f \ {k} : Erase(f, k)[j] = f[j]
         /\ Values(Erase(f, k)) = Values(f) \ {f[k]}
         /\ Distinct(Erase(f, k))
<1> DEFINE g == Erase(f, k)
<1>1. /\ DOMAIN g = DOMAIN f \ {k} /\ \A j \in DOMAIN f \ {k} : g[j] = f[j]
  BY DEF Erase
<1> HIDE DEF g
<1>2. Values(g) = Values(f) \ {f[k]}
  BY <1>1 DEF Values, Distinct
<1>3. Distinct(g)
  BY <1>1 DEF Distinct
<1>4. QED
  BY <1>1, <1>2, <1>3 DEF g

LEMMA AnsweredAreValues ==
  /\ Answered = Values(super_in_response_buffer)
  /\ MemAnswered = Values(MemRequests)
BY DEF Answered, MemAnswered, Values, MemRequests

-----------------------------------------------------------------------------
(* The invariant holds at first and is preserved by every action.          *)

LEMMA HierInitInv == HierInit => HierInv
<1> SUFFICES ASSUME HierInit  PROVE HierInv
  OBVIOUS
<1>1. /\ DOMAIN cache_out_request_buffer = {} /\ DOMAIN asked = {}
      /\ DOMAIN super_in_request_buffer = {} /\ DOMAIN sub_out_request_buffer = {}
      /\ DOMAIN super_in_response_buffer = {} /\ DOMAIN mem_request_buffer = {}
      /\ DOMAIN mem_response_buffer = {}
      /\ super_in_request_buffer \in Seq(Requests) /\ mem_request_buffer \in Seq(Requests)
      /\ steps = 0 /\ pc = "fill" /\ lost = {}
  BY DEF HierInit
<1>2. HierTypes
  BY <1>1 DEF HierTypes, SentOn
<1>3. Places /\ MemPlaces
  BY <1>1 DEF Places, MemPlaces, Distinct, Queued, MemQueued, SentOn, Answered,
              InCache, InMemory, MemAnswered, Entries, MemRequests
<1>4. Keys /\ MemKeys /\ Timing /\ MemTiming
  BY <1>1 DEF Keys, MemKeys, Timing, MemTiming, CompletionsDistinct, SentOn
<1>5. QED
  BY <1>2, <1>3, <1>4 DEF HierInv

(* An answer leaves memory's table.                                        *)
LEMMA MemoryAnswerLeaves ==
  ASSUME HierInv, NEW k \in DOMAIN mem_response_buffer,
         mem_response_buffer' = Erase(mem_response_buffer, k)
  PROVE  /\ DOMAIN mem_response_buffer' = DOMAIN mem_response_buffer \ {k}
         /\ \A j \in DOMAIN mem_response_buffer' : MemRequests'[j] = MemRequests[j]
         /\ Distinct(MemRequests)'
         /\ MemAnswered' = MemAnswered \ {MemRequests[k]}
         /\ MemRequests[k] \in SentOn /\ MemRequests[k] \notin lost
         /\ MemRequests[k] \notin MemQueued
<1>1. MemRequests' = Erase(MemRequests, k) /\ DOMAIN MemRequests = DOMAIN mem_response_buffer
  BY DEF MemRequests, Erase
<1>2. Distinct(MemRequests)
  BY DEF HierInv, MemPlaces
<1>3. /\ DOMAIN MemRequests' = DOMAIN MemRequests \ {k}
      /\ \A j \in DOMAIN MemRequests \ {k} : MemRequests'[j] = MemRequests[j]
      /\ Values(MemRequests') = Values(MemRequests) \ {MemRequests[k]}
      /\ Distinct(MemRequests')
  BY <1>1, <1>2, EraseValues
<1>4. MemAnswered = Values(MemRequests) /\ MemAnswered' = Values(MemRequests')
  BY DEF MemAnswered, Values, MemRequests
<1>5. MemRequests[k] \in MemAnswered
  BY <1>1, <1>4 DEF Values
<1>6. /\ MemRequests[k] \in SentOn /\ MemRequests[k] \notin lost
      /\ MemRequests[k] \notin MemQueued
  BY <1>5 DEF HierInv, MemPlaces, InMemory, MemQueued
<1>7. DOMAIN mem_response_buffer' = DOMAIN mem_response_buffer \ {k}
  BY DEF Erase
<1>8. QED
  BY <1>1, <1>3, <1>4, <1>6, <1>7 DEF Distinct

(* An answer joins the cache's table, under a key of its own.              *)
LEMMA AnswerJoins ==
  ASSUME HierInv, NEW key, NEW r,
         key \notin DOMAIN super_in_response_buffer, r \notin Answered,
         super_in_response_buffer' = Put(super_in_response_buffer, key, r)
  PROVE  /\ DOMAIN super_in_response_buffer' = DOMAIN super_in_response_buffer \cup {key}
         /\ super_in_response_buffer'[key] = r
         /\ \A j \in DOMAIN super_in_response_buffer :
              super_in_response_buffer'[j] = super_in_response_buffer[j]
         /\ Answered' = Answered \cup {r}
         /\ Distinct(super_in_response_buffer)'
<1> DEFINE f == super_in_response_buffer
<1>1. Answered = Values(f) /\ Answered' = Values(f')
  BY DEF Answered, Values
<1>2. Distinct(f)
  BY DEF HierInv, Places
<1>3. /\ DOMAIN Put(f, key, r) = DOMAIN f \cup {key}
      /\ Put(f, key, r)[key] = r
      /\ \A j \in DOMAIN f : Put(f, key, r)[j] = f[j]
      /\ Values(Put(f, key, r)) = Values(f) \cup {r}
      /\ Distinct(f) /\ r \notin Values(f) => Distinct(Put(f, key, r))
  BY PutValues
<1>4. Distinct(f')
  BY <1>1, <1>2, <1>3
<1>5. QED
  BY <1>1, <1>3, <1>4 DEF Distinct

LEMMA FillResponseInv ==
  ASSUME HierInv, NEW k \in DOMAIN mem_response_buffer, FillResponse(k)
  PROVE  HierInv'
<1> DEFINE r == MemRequests[k]
           key == sub_out_request_buffer[r]
<1>1. /\ pc = "fill" /\ pc' = "lookup" /\ steps' = steps /\ lost' = lost
      /\ mem_response_buffer' = Erase(mem_response_buffer, k)
      /\ super_in_response_buffer' = Put(super_in_response_buffer, key, r)
      /\ sub_out_request_buffer' = Erase(sub_out_request_buffer, r)
      /\ cache_out_request_buffer' = cache_out_request_buffer /\ asked' = asked
      /\ super_in_request_buffer' = super_in_request_buffer
      /\ mem_request_buffer' = mem_request_buffer
  BY DEF FillResponse, MemRequests, mmuVars
<1>2. /\ DOMAIN mem_response_buffer' = DOMAIN mem_response_buffer \ {k}
      /\ \A j \in DOMAIN mem_response_buffer' : MemRequests'[j] = MemRequests[j]
      /\ Distinct(MemRequests)'
      /\ MemAnswered' = MemAnswered \ {r}
      /\ r \in SentOn /\ r \notin lost /\ r \notin MemQueued
  BY <1>1, MemoryAnswerLeaves
<1>3. /\ SentOn' = SentOn \ {r}
      /\ \A q \in SentOn' : sub_out_request_buffer'[q] = sub_out_request_buffer[q]
  BY <1>1 DEF SentOn, Erase
<1>4. /\ HierTypes /\ Places /\ MemPlaces /\ Keys /\ MemKeys /\ Timing /\ MemTiming
  BY DEF HierInv
<1>5. key \notin DOMAIN super_in_response_buffer /\ r \notin Answered /\ key \in Nat
  BY <1>2, <1>4 DEF Keys, CompletionsDistinct, Places, HierTypes
<1> HIDE DEF r, key
<1>7. /\ DOMAIN super_in_response_buffer' = DOMAIN super_in_response_buffer \cup {key}
      /\ super_in_response_buffer'[key] = r
      /\ \A j \in DOMAIN super_in_response_buffer :
           super_in_response_buffer'[j] = super_in_response_buffer[j]
      /\ Answered' = Answered \cup {r}
      /\ Distinct(super_in_response_buffer)'
  BY <1>1, <1>5, AnswerJoins
<1>8. Queued' = Queued /\ MemQueued' = MemQueued
  BY <1>1 DEF Queued, MemQueued, Entries
<1>9. HierTypes'
  BY <1>1, <1>2, <1>3, <1>4, <1>5, <1>7 DEF HierTypes
<1>10. InCache' = InCache
  BY <1>2, <1>3, <1>7, <1>8 DEF InCache, Queued
<1>11. Places'
  BY <1>1, <1>2, <1>3, <1>4, <1>7, <1>8, <1>10 DEF Places, Distinct
<1>12. MemPlaces'
  BY <1>1, <1>2, <1>3, <1>4, <1>8 DEF MemPlaces, InMemory, MemQueued, Distinct
<1>13. Keys'
  BY <1>1, <1>2, <1>3, <1>4, <1>7 DEF Keys, CompletionsDistinct, key
<1>14. MemKeys' /\ MemTiming'
  <2>1. MemKeys'
    BY <1>1, <1>2, <1>4 DEF MemKeys
  <2>2. ASSUME NEW j \in DOMAIN mem_response_buffer'
        PROVE  MemRequests[j] # r /\ MemRequests[j] \in SentOn
    BY <1>2, <1>4, <2>2 DEF MemPlaces, Distinct, MemRequests, InMemory, MemAnswered, r
  <2>3. MemTiming'
    BY <1>1, <1>2, <1>3, <1>4, <2>2 DEF MemTiming
  <2>4. QED  BY <2>1, <2>3
<1>15. Timing'
  BY <1>1, <1>2, <1>3, <1>4, <1>7 DEF Timing, key
<1>16. QED
  BY <1>9, <1>11, <1>12, <1>13, <1>14, <1>15 DEF HierInv

(* The request whose answer is lost stays where the cache waits for it.    *)
LEMMA FailedResponseInv ==
  ASSUME HierInv, NEW k \in DOMAIN mem_response_buffer, FailedResponse(k)
  PROVE  HierInv'
<1> DEFINE r == MemRequests[k]
<1>1. /\ pc = "fill" /\ pc' = "lookup" /\ steps' = steps
      /\ mem_response_buffer' = Erase(mem_response_buffer, k)
      /\ lost' = lost \cup {r}
      /\ super_in_response_buffer' = super_in_response_buffer
      /\ sub_out_request_buffer' = sub_out_request_buffer
      /\ cache_out_request_buffer' = cache_out_request_buffer /\ asked' = asked
      /\ super_in_request_buffer' = super_in_request_buffer
      /\ mem_request_buffer' = mem_request_buffer
  BY DEF FailedResponse, MemRequests, mmuVars
<1>2. /\ DOMAIN mem_response_buffer' = DOMAIN mem_response_buffer \ {k}
      /\ \A j \in DOMAIN mem_response_buffer' : MemRequests'[j] = MemRequests[j]
      /\ Distinct(MemRequests)'
      /\ MemAnswered' = MemAnswered \ {r}
      /\ r \in SentOn /\ r \notin lost /\ r \notin MemQueued
  BY <1>1, MemoryAnswerLeaves
<1>3. /\ HierTypes /\ Places /\ MemPlaces /\ Keys /\ MemKeys /\ Timing /\ MemTiming
  BY DEF HierInv
<1>4. /\ Queued' = Queued /\ MemQueued' = MemQueued
      /\ SentOn' = SentOn /\ Answered' = Answered /\ InCache' = InCache
  BY <1>1 DEF Queued, MemQueued, Entries, SentOn, Answered, InCache
<1>5. HierTypes'
  BY <1>1, <1>2, <1>3, <1>4 DEF HierTypes
<1>6. Places'
  BY <1>1, <1>3, <1>4 DEF Places, Distinct
<1>7. MemPlaces'
  BY <1>1, <1>2, <1>3, <1>4 DEF MemPlaces, InMemory, MemQueued, Distinct
<1>8. Keys' /\ Timing'
  BY <1>1, <1>3, <1>4 DEF Keys, CompletionsDistinct, Timing
<1>9. MemKeys' /\ MemTiming'
  BY <1>1, <1>2, <1>3 DEF MemKeys, MemTiming
<1>10. QED
  BY <1>5, <1>6, <1>7, <1>8, <1>9 DEF HierInv

(* The next part of the cycle, or the next cycle, begins.                  *)
LEMMA NothingMovesInv ==
  ASSUME HierInv,
         UNCHANGED <<mmuVars, cacheVars, memVars>>,
         \/ steps' = steps /\ pc = "fill" /\ pc' = "lookup"
         \/ steps' = steps /\ pc = "lookup" /\ pc' = "memory"
         \/ steps' = steps /\ pc = "memory" /\ pc' = "client"
         \/ steps' = steps + 1 /\ pc = "client" /\ pc' = "fill"
  PROVE  HierInv'
<1>1. /\ HierTypes /\ Places /\ MemPlaces /\ Keys /\ MemKeys /\ Timing /\ MemTiming
  BY DEF HierInv
<1>2. /\ mem_response_buffer' = mem_response_buffer /\ lost' = lost
      /\ super_in_response_buffer' = super_in_response_buffer
      /\ sub_out_request_buffer' = sub_out_request_buffer
      /\ cache_out_request_buffer' = cache_out_request_buffer /\ asked' = asked
      /\ super_in_request_buffer' = super_in_request_buffer
      /\ mem_request_buffer' = mem_request_buffer
  BY DEF mmuVars, cacheVars, memVars
<1>3. /\ Queued' = Queued /\ MemQueued' = MemQueued
      /\ SentOn' = SentOn /\ Answered' = Answered /\ InCache' = InCache
      /\ MemRequests' = MemRequests /\ InMemory' = InMemory /\ MemAnswered' = MemAnswered
  BY <1>2 DEF Queued, MemQueued, Entries, SentOn, Answered, InCache, MemRequests,
              InMemory, MemAnswered
<1>4. HierTypes'
  BY <1>1, <1>2, <1>3 DEF HierTypes
<1>5. Places' /\ MemPlaces'
  BY <1>1, <1>2, <1>3 DEF Places, MemPlaces, Distinct
<1>6. Keys' /\ MemKeys'
  BY <1>1, <1>2, <1>3, HierarchyAssumption
     DEF HierTypes, Keys, CompletionsDistinct, MemKeys
<1>7. Timing' /\ MemTiming'
  BY <1>1, <1>2, <1>3 DEF HierTypes, Timing, MemTiming
<1>8. QED
  BY <1>4, <1>5, <1>6, <1>7 DEF HierInv

LEMMA LookupHitInv ==
  ASSUME HierInv, NEW r \in Requests, LookupHit(r)
  PROVE  HierInv'
<1> DEFINE key == steps + HitLatency
<1>1. /\ pc = "lookup" /\ pc' = "memory" /\ steps' = steps /\ lost' = lost
      /\ super_in_request_buffer # <<>> /\ r = Head(super_in_request_buffer)
      /\ super_in_request_buffer' = Tail(super_in_request_buffer)
      /\ super_in_response_buffer' = Put(super_in_response_buffer, key, r)
      /\ sub_out_request_buffer' = sub_out_request_buffer
      /\ cache_out_request_buffer' = cache_out_request_buffer /\ asked' = asked
      /\ mem_request_buffer' = mem_request_buffer
      /\ mem_response_buffer' = mem_response_buffer
  BY DEF LookupHit, Front, mmuVars, memVars
<1>2. /\ HierTypes /\ Places /\ MemPlaces /\ Keys /\ MemKeys /\ Timing /\ MemTiming
  BY DEF HierInv
<1>3. /\ super_in_request_buffer' \in Seq(Requests)
      /\ r \in Queued
      /\ Queued' = Queued \ {r}
      /\ Distinct(super_in_request_buffer)'
  BY <1>1, <1>2, TailEntries DEF HierTypes, Places, Queued, Distinct
<1>4. key \in Nat /\ key \notin DOMAIN super_in_response_buffer /\ r \notin Answered
  BY <1>1, <1>2, <1>3, HierarchyAssumption DEF HierTypes, Keys, Places
<1> HIDE DEF key
<1>5. /\ DOMAIN super_in_response_buffer' = DOMAIN super_in_response_buffer \cup {key}
      /\ super_in_response_buffer'[key] = r
      /\ \A j \in DOMAIN super_in_response_buffer :
           super_in_response_buffer'[j] = super_in_response_buffer[j]
      /\ Answered' = Answered \cup {r}
      /\ Distinct(super_in_response_buffer)'
  BY <1>1, <1>4, AnswerJoins
<1>6. /\ MemQueued' = MemQueued /\ SentOn' = SentOn
      /\ MemRequests' = MemRequests /\ InMemory' = InMemory /\ MemAnswered' = MemAnswered
  BY <1>1 DEF MemQueued, Entries, SentOn, MemRequests, InMemory, MemAnswered
<1>7. HierTypes'
  BY <1>1, <1>2, <1>3, <1>4, <1>5, <1>6 DEF HierTypes
<1>8. InCache' = InCache
  BY <1>3, <1>5, <1>6 DEF InCache, Queued
<1>9. Places'
  BY <1>1, <1>2, <1>3, <1>5, <1>6, <1>8 DEF Places
<1>10. MemPlaces' /\ MemKeys' /\ MemTiming'
  BY <1>1, <1>2, <1>6 DEF MemPlaces, MemKeys, MemTiming, Distinct
<1>11. Keys'
  BY <1>1, <1>2, <1>5, <1>6, HierarchyAssumption
     DEF HierTypes, Keys, CompletionsDistinct, key
<1>12. r \in DOMAIN asked
  BY <1>2, <1>3 DEF Places, InCache, Queued
<1>13. Timing'
  BY <1>1, <1>2, <1>5, <1>6, <1>12, HierarchyAssumption DEF HierTypes, Timing, key
<1>14. QED
  BY <1>7, <1>9, <1>10, <1>11, <1>13 DEF HierInv

LEMMA LookupMissInv ==
  ASSUME HierInv, NEW r \in Requests, LookupMiss(r)
  PROVE  HierInv'
<1>1. CASE ~ BusReady
  <2>1. /\ UNCHANGED <<mmuVars, cacheVars, memVars>>
        /\ steps' = steps /\ pc = "lookup" /\ pc' = "memory"
    BY <1>1 DEF LookupMiss, cacheVars
  <2>2. QED  BY <2>1, NothingMovesInv
<1>2. CASE BusReady
  <2> DEFINE key == steps + HitLatency
  <2>1. /\ pc = "lookup" /\ pc' = "memory" /\ steps' = steps /\ lost' = lost
        /\ super_in_request_buffer # <<>> /\ r = Head(super_in_request_buffer)
        /\ super_in_request_buffer' = Tail(super_in_request_buffer)
        /\ super_in_response_buffer' = super_in_response_buffer
        /\ sub_out_request_buffer' = Put(sub_out_request_buffer, r, key)
        /\ cache_out_request_buffer' = cache_out_request_buffer /\ asked' = asked
        /\ mem_request_buffer' = Append(mem_request_buffer, r)
        /\ mem_response_buffer' = mem_response_buffer
    BY <1>2 DEF LookupMiss, Front, MemSend, mmuVars
  <2>2. /\ HierTypes /\ Places /\ MemPlaces /\ Keys /\ MemKeys /\ Timing /\ MemTiming
    BY DEF HierInv
  <2>3. /\ super_in_request_buffer' \in Seq(Requests)
        /\ r \in Queued
        /\ Queued' = Queued \ {r}
        /\ Distinct(super_in_request_buffer)'
    BY <2>1, <2>2, TailEntries DEF HierTypes, Places, Queued, Distinct
  <2>4. r \notin SentOn /\ r \notin Answered /\ r \notin MemQueued /\ r \notin MemAnswered
    BY <2>2, <2>3 DEF Places, MemPlaces, InMemory, MemQueued
  <2>5. /\ mem_request_buffer' \in Seq(Requests)
        /\ MemQueued' = MemQueued \cup {r}
        /\ Distinct(mem_request_buffer)'
    BY <2>1, <2>2, <2>4, AppendEntries DEF HierTypes, MemPlaces, MemQueued, Distinct
  <2>6. /\ SentOn' = SentOn \cup {r}
        /\ sub_out_request_buffer'[r] = key
        /\ \A q \in SentOn : sub_out_request_buffer'[q] = sub_out_request_buffer[q]
    BY <2>1, <2>4 DEF SentOn, Put
  <2>7. key \in Nat
    BY <2>2, HierarchyAssumption DEF HierTypes
  <2> HIDE DEF key
  <2>8. Answered' = Answered /\ MemRequests' = MemRequests /\ MemAnswered' = MemAnswered
    BY <2>1 DEF Answered, MemRequests, MemAnswered
  <2>9. HierTypes'
    BY <2>1, <2>2, <2>3, <2>5, <2>6, <2>7 DEF HierTypes
  <2>10. InCache' = InCache
    BY <2>3, <2>6, <2>8 DEF InCache, Queued
  <2>11. Places'
    BY <2>1, <2>2, <2>3, <2>4, <2>6, <2>8, <2>10 DEF Places, Distinct
  <2>12. MemPlaces'
    BY <2>1, <2>2, <2>4, <2>5, <2>6, <2>8 DEF MemPlaces, InMemory, MemQueued, Distinct
  <2>13. Keys'
    BY <2>1, <2>2, <2>4, <2>6, HierarchyAssumption DEF HierTypes, Keys, CompletionsDistinct, key
  <2>14. MemKeys'
    BY <2>1, <2>2 DEF MemKeys
  <2>15. r \in DOMAIN asked
    BY <2>2, <2>3 DEF Places, InCache, Queued
  <2>16. Timing'
    BY <2>1, <2>2, <2>6, <2>15, HierarchyAssumption DEF HierTypes, Timing, key
  <2>17. \A k \in DOMAIN mem_response_buffer : MemRequests[k] \in SentOn
    BY <2>2 DEF MemPlaces, InMemory, MemAnswered, MemRequests
  <2>18. MemTiming'
    BY <2>1, <2>2, <2>6, <2>8, <2>17 DEF MemTiming
  <2>19. QED
    BY <2>9, <2>11, <2>12, <2>13, <2>14, <2>16, <2>18 DEF HierInv
<1>3. QED  BY <1>1, <1>2

LEMMA MemoryServeInv ==
  ASSUME HierInv, NEW res \in UninitRes, MemoryServe(res)
  PROVE  HierInv'
<1> DEFINE r == Head(mem_request_buffer)
           key == steps + MemLatency
<1>1. /\ pc = "memory" /\ pc' = "client" /\ steps' = steps /\ lost' = lost
      /\ mem_request_buffer # <<>>
      /\ super_in_request_buffer' = super_in_request_buffer
      /\ super_in_response_buffer' = super_in_response_buffer
      /\ sub_out_request_buffer' = sub_out_request_buffer
      /\ cache_out_request_buffer' = cache_out_request_buffer /\ asked' = asked
      /\ mem_request_buffer' = Tail(mem_request_buffer)
      /\ mem_response_buffer' =
           Put(mem_response_buffer, key, [request |-> r, response_res |-> res])
  BY DEF MemoryServe, Servable, mmuVars, cacheVars
<1>2. /\ HierTypes /\ Places /\ MemPlaces /\ Keys /\ MemKeys /\ Timing /\ MemTiming
  BY DEF HierInv
<1>3. /\ mem_request_buffer' \in Seq(Requests)
      /\ r \in MemQueued
      /\ MemQueued' = MemQueued \ {r}
      /\ Distinct(mem_request_buffer)'
  BY <1>1, <1>2, TailEntries DEF HierTypes, MemPlaces, MemQueued, Distinct
<1>4. key \in Nat /\ key \notin DOMAIN mem_response_buffer /\ r \notin MemAnswered
  BY <1>1, <1>2, <1>3, HierarchyAssumption DEF HierTypes, MemKeys, MemPlaces
<1>5. /\ MemRequests' = Put(MemRequests, key, r)
      /\ DOMAIN MemRequests = DOMAIN mem_response_buffer
      /\ DOMAIN mem_response_buffer' = DOMAIN mem_response_buffer \cup {key}
  BY <1>1 DEF MemRequests, Put
<1> HIDE DEF r, key
<1>6. MemAnswered = Values(MemRequests) /\ MemAnswered' = Values(MemRequests')
  BY DEF MemAnswered, Values, MemRequests
<1>7. Distinct(MemRequests)
  BY <1>2 DEF MemPlaces
<1>8. /\ MemRequests'[key] = r
      /\ \A j \in DOMAIN mem_response_buffer : MemRequests'[j] = MemRequests[j]
      /\ MemAnswered' = MemAnswered \cup {r}
      /\ Distinct(MemRequests')
  <2>1. key \notin DOMAIN MemRequests
    BY <1>4, <1>5
  <2>2. /\ DOMAIN MemRequests' = DOMAIN MemRequests \cup {key}
        /\ MemRequests'[key] = r
        /\ \A j \in DOMAIN MemRequests : MemRequests'[j] = MemRequests[j]
    BY <1>5, <2>1 DEF Put
  <2>3. MemAnswered' = MemAnswered \cup {r}
    BY <1>6, <2>1, <2>2 DEF Values
  <2>4. Distinct(MemRequests')
    BY <1>4, <1>6, <1>7, <2>1, <2>2 DEF Values, Distinct
  <2>5. QED
    BY <1>5, <2>2, <2>3, <2>4
<1>9. Distinct(MemRequests)'
  BY <1>8 DEF Distinct
<1>10. /\ Queued' = Queued /\ SentOn' = SentOn /\ Answered' = Answered /\ InCache' = InCache
  BY <1>1 DEF Queued, Entries, SentOn, Answered, InCache
<1>11. HierTypes'
  BY <1>1, <1>2, <1>3, <1>4, <1>5, <1>10 DEF HierTypes
<1>12. Places' /\ Keys' /\ Timing'
  BY <1>1, <1>2, <1>10 DEF Places, Distinct, Keys, CompletionsDistinct, Timing
<1>13. MemPlaces'
  BY <1>1, <1>2, <1>3, <1>8, <1>9, <1>10 DEF MemPlaces, InMemory, MemQueued
<1>14. MemKeys'
  BY <1>1, <1>2, <1>5, HierarchyAssumption DEF HierTypes, MemKeys, key
<1>15. r \in SentOn
  BY <1>2, <1>3 DEF MemPlaces, InMemory, MemQueued
<1>16. sub_out_request_buffer[r] + MemLatency <= key + HitLatency
  BY <1>1, <1>2, <1>15, HierarchyAssumption DEF HierTypes, Keys, key
<1>17. MemTiming'
  BY <1>1, <1>2, <1>5, <1>8, <1>16 DEF MemTiming
<1>18. QED
  BY <1>11, <1>12, <1>13, <1>14, <1>17 DEF HierInv

LEMMA SendRequestInv ==
  ASSUME HierInv, NEW r \in Requests, NEW da, pc = "client", send_request(r, da)
  PROVE  HierInv' /\ InCache' = InCache \cup {r} /\ r \notin InCache
<1>1. /\ pc' = pc /\ steps' = steps /\ lost' = lost
      /\ r \notin DOMAIN cache_out_request_buffer
      /\ super_in_request_buffer' = Append(super_in_request_buffer, r)
      /\ super_in_response_buffer' = super_in_response_buffer
      /\ sub_out_request_buffer' = sub_out_request_buffer
      /\ cache_out_request_buffer' = Put(cache_out_request_buffer, r, da)
      /\ asked' = Put(asked, r, steps)
      /\ mem_request_buffer' = mem_request_buffer
      /\ mem_response_buffer' = mem_response_buffer
  BY DEF send_request, memVars
<1>2. /\ HierTypes /\ Places /\ MemPlaces /\ Keys /\ MemKeys /\ Timing /\ MemTiming
  BY DEF HierInv
<1>3. r \notin InCache /\ r \notin Queued /\ r \notin SentOn /\ r \notin Answered
  BY <1>1, <1>2 DEF Places, InCache, Queued
<1>4. /\ super_in_request_buffer' \in Seq(Requests)
      /\ Queued' = Queued \cup {r}
      /\ Distinct(super_in_request_buffer)'
  BY <1>1, <1>2, <1>3, AppendEntries DEF HierTypes, Places, Queued, Distinct
<1>5. /\ DOMAIN cache_out_request_buffer' = DOMAIN cache_out_request_buffer \cup {r}
      /\ DOMAIN asked' = DOMAIN asked \cup {r}
      /\ asked'[r] = steps
      /\ \A q \in DOMAIN asked \ {r} : asked'[q] = asked[q]
  BY <1>1 DEF Put
<1>6. /\ SentOn' = SentOn /\ Answered' = Answered /\ MemQueued' = MemQueued
      /\ MemRequests' = MemRequests /\ InMemory' = InMemory /\ MemAnswered' = MemAnswered
  BY <1>1 DEF SentOn, Answered, MemQueued, Entries, MemRequests, InMemory, MemAnswered
<1>7. InCache' = InCache \cup {r}
  BY <1>4, <1>6 DEF InCache, Queued
<1>8. HierTypes'
  BY <1>1, <1>2, <1>4, <1>5, <1>6 DEF HierTypes
<1>9. Places'
  BY <1>1, <1>2, <1>3, <1>4, <1>5, <1>6, <1>7 DEF Places, Distinct
<1>10. MemPlaces' /\ Keys' /\ MemKeys' /\ MemTiming'
  BY <1>1, <1>2, <1>6
     DEF MemPlaces, Distinct, Keys, CompletionsDistinct, MemKeys, MemTiming
<1>11. \A k \in DOMAIN super_in_response_buffer : super_in_response_buffer[k] \in Answered
  BY DEF Answered
<1>12. SentOn \subseteq DOMAIN asked /\ Answered \subseteq DOMAIN asked
  BY <1>2 DEF Places, InCache
<1>13. Timing'
  BY <1>1, <1>2, <1>3, <1>5, <1>6, <1>11, <1>12 DEF HierTypes, Timing
<1>14. QED
  BY <1>3, <1>7, <1>8, <1>9, <1>10, <1>13 DEF HierInv

LEMMA GetResponseInv ==
  ASSUME HierInv, NEW k \in DOMAIN super_in_response_buffer, pc = "client", get_response(k)
  PROVE  /\ HierInv'
         /\ super_in_response_buffer[k] \in InCache
         /\ InCache' = InCache \ {super_in_response_buffer[k]}
         /\ asked[super_in_response_buffer[k]] + HitLatency < steps
<1> DEFINE r == super_in_response_buffer[k]
<1>1. /\ pc' = pc /\ steps' = steps /\ lost' = lost /\ k <= steps
      /\ super_in_request_buffer' = super_in_request_buffer
      /\ super_in_response_buffer' = Erase(super_in_response_buffer, k)
      /\ sub_out_request_buffer' = sub_out_request_buffer
      /\ cache_out_request_buffer' = Erase(cache_out_request_buffer, r)
      /\ asked' = Erase(asked, r)
      /\ mem_request_buffer' = mem_request_buffer
      /\ mem_response_buffer' = mem_response_buffer
  BY DEF get_response, Due, memVars
<1>2. /\ HierTypes /\ Places /\ MemPlaces /\ Keys /\ MemKeys /\ Timing /\ MemTiming
  BY DEF HierInv
<1>3. r \in Answered /\ r \in InCache
  BY DEF Answered, InCache
<1>4. /\ DOMAIN super_in_response_buffer' = DOMAIN super_in_response_buffer \ {k}
      /\ \A j \in DOMAIN super_in_response_buffer' :
           super_in_response_buffer'[j] = super_in_response_buffer[j]
      /\ Answered' = Answered \ {r}
      /\ Distinct(super_in_response_buffer)'
  <2> DEFINE f == super_in_response_buffer
  <2>1. Answered = Values(f) /\ Answered' = Values(f')
    BY DEF Answered, Values
  <2>2. Distinct(f)
    BY <1>2 DEF Places
  <2>3. /\ DOMAIN Erase(f, k) = DOMAIN f \ {k}
        /\ \A j \in DOMAIN f \ {k} : Erase(f, k)[j] = f[j]
        /\ Values(Erase(f, k)) = Values(f) \ {f[k]}
        /\ Distinct(Erase(f, k))
    BY <2>2, EraseValues
  <2>4. Distinct(f')
    BY <1>1, <2>3
  <2>5. QED
    BY <1>1, <2>1, <2>3, <2>4 DEF Distinct
<1> HIDE DEF r
<1>5. /\ DOMAIN cache_out_request_buffer' = DOMAIN cache_out_request_buffer \ {r}
      /\ DOMAIN asked' = DOMAIN asked \ {r}
      /\ \A q \in DOMAIN asked \ {r} : asked'[q] = asked[q]
  BY <1>1 DEF Erase
<1>6. /\ SentOn' = SentOn /\ Queued' = Queued /\ MemQueued' = MemQueued
      /\ MemRequests' = MemRequests /\ InMemory' = InMemory /\ MemAnswered' = MemAnswered
  BY <1>1 DEF SentOn, Queued, MemQueued, Entries, MemRequests, InMemory, MemAnswered
<1>7. r \notin Queued /\ r \notin SentOn
  BY <1>2, <1>3 DEF Places
<1>8. InCache' = InCache \ {r}
  BY <1>4, <1>6, <1>7 DEF InCache, Queued
<1>9. HierTypes'
  BY <1>1, <1>2, <1>4, <1>5, <1>6 DEF HierTypes
<1>10. Places'
  BY <1>1, <1>2, <1>4, <1>5, <1>6, <1>8 DEF Places, Distinct
<1>11. MemPlaces' /\ Keys' /\ MemKeys' /\ MemTiming'
  BY <1>1, <1>2, <1>4, <1>6
     DEF MemPlaces, Distinct, Keys, CompletionsDistinct, MemKeys, MemTiming
<1>12. \A j \in DOMAIN super_in_response_buffer' :
         super_in_response_buffer'[j] \in Answered \ {r}
  BY <1>4 DEF Answered
<1>13. SentOn \subseteq DOMAIN asked /\ Answered \subseteq DOMAIN asked
  BY <1>2 DEF Places, InCache
<1>14. Timing'
  BY <1>1, <1>2, <1>4, <1>5, <1>6, <1>7, <1>12, <1>13 DEF HierTypes, Timing
<1>15. asked[r] + HitLatency < steps
  BY <1>1, <1>2, <1>3, <1>13, HierarchyAssumption DEF HierTypes, Timing, r
<1>16. QED
  BY <1>3, <1>8, <1>9, <1>10, <1>11, <1>14, <1>15 DEF HierInv, r

LEMMA HierNextInv == HierInv /\ [HierNext]_hierVars => HierInv'
<1> SUFFICES ASSUME HierInv, [HierNext]_hierVars  PROVE HierInv'
  OBVIOUS
<1>1. CASE FillPart
  <2>1. CASE NoResponse
    BY <2>1, NothingMovesInv DEF NoResponse
  <2>2. CASE \E k \in DOMAIN mem_response_buffer : FillResponse(k) \/ FailedResponse(k)
    BY <2>2, FillResponseInv, FailedResponseInv
  <2>3. QED  BY <1>1, <2>1, <2>2 DEF FillPart
<1>2. CASE LookupPart
  <2>1. CASE NoLookup
    BY <2>1, NothingMovesInv DEF NoLookup
  <2>2. CASE \E r \in Requests : LookupHit(r) \/ LookupMiss(r)
    BY <2>2, LookupHitInv, LookupMissInv
  <2>3. QED  BY <1>2, <2>1, <2>2 DEF LookupPart
<1>3. CASE MemoryPart
  <2>1. CASE MemoryIdle
    BY <2>1, NothingMovesInv DEF MemoryIdle
  <2>2. CASE \E res \in UninitRes : MemoryServe(res)
    BY <2>2, MemoryServeInv
  <2>3. QED  BY <1>3, <2>1, <2>2 DEF MemoryPart
<1>4. CASE MmuCall
  BY <1>4, SendRequestInv, GetResponseInv DEF MmuCall
<1>5. CASE EndCycle
  BY <1>5, NothingMovesInv DEF EndCycle
<1>6. CASE UNCHANGED hierVars
  <2>1. UNCHANGED <<steps, pc, cache_out_request_buffer, asked, super_in_request_buffer,
                    sub_out_request_buffer, super_in_response_buffer, lost,
                    mem_request_buffer, mem_response_buffer>>
    BY <1>6 DEF hierVars, mmuVars, cacheVars, memVars
  <2>2. /\ HierTypes /\ Places /\ MemPlaces /\ Keys /\ MemKeys /\ Timing /\ MemTiming
    BY DEF HierInv
  <2>3. /\ Queued' = Queued /\ MemQueued' = MemQueued
        /\ SentOn' = SentOn /\ Answered' = Answered /\ InCache' = InCache
        /\ MemRequests' = MemRequests /\ InMemory' = InMemory /\ MemAnswered' = MemAnswered
    BY <2>1 DEF Queued, MemQueued, Entries, SentOn, Answered, InCache, MemRequests,
                InMemory, MemAnswered
  <2>4. HierTypes'
    BY <2>1, <2>2, <2>3 DEF HierTypes
  <2>5. Places' /\ MemPlaces'
    BY <2>1, <2>2, <2>3 DEF Places, MemPlaces, Distinct
  <2>6. Keys' /\ MemKeys' /\ Timing' /\ MemTiming'
    BY <2>1, <2>2, <2>3 DEF Keys, CompletionsDistinct, MemKeys, Timing, MemTiming
  <2>7. QED
    BY <2>4, <2>5, <2>6 DEF HierInv
<1>7. QED
  BY <1>1, <1>2, <1>3, <1>4, <1>5, <1>6 DEF HierNext, HierStep

(* The inductive invariant of the hierarchy: every request is in one place *)
(* of each level that has it, and every cycle that an answer is noted      *)
(* under is a different one and late enough.                               *)
THEOREM HierInvariant == HierSpec => []HierInv
<1>1. HierInit => HierInv
  BY HierInitInv
<1>2. HierInv /\ [HierNext]_hierVars => HierInv'
  BY HierNextInv
<1>3. QED
  BY <1>1, <1>2, PTL DEF HierSpec

(* No answer of the cache overwrites another (Cache::step's table of       *)
(* answers by cycle).                                                      *)
THEOREM NoAnswerOverwritten == HierSpec => []CompletionsDistinct
<1>1. HierInv => CompletionsDistinct
  BY DEF HierInv, Keys
<1>2. QED
  BY <1>1, HierInvariant, PTL

-----------------------------------------------------------------------------
(* Both levels implement MemLevel.                                         *)

LEMMA CacheLevelInit == HierInit => CacheLevel!LevelInit
<1> SUFFICES ASSUME HierInit  PROVE CacheLevel!LevelInit
  OBVIOUS
<1>1. InCache = {}
  BY DEF HierInit, InCache, Entries, SentOn, Answered
<1>2. QED
  BY <1>1 DEF HierInit, CacheLevel!LevelInit

(* To the level above the cache is the set of requests in it: only the     *)
(* MMU's calls change that.                                                *)
LEMMA CacheLevelStep ==
  HierInv /\ HierInv' /\ [HierNext]_hierVars
    => [CacheLevel!LevelNext]_CacheLevel!levelVars
<1> SUFFICES ASSUME HierInv, HierInv', [HierNext]_hierVars
             PROVE  [CacheLevel!LevelNext]_CacheLevel!levelVars
  OBVIOUS
<1>1. InCache = DOMAIN asked /\ InCache' = DOMAIN asked'
  BY DEF HierInv, Places
<1>2. CASE HierStep \/ UNCHANGED hierVars
  <2>1. UNCHANGED <<steps, asked>>
    BY <1>2 DEF HierStep, FillPart, LookupPart, MemoryPart, NoResponse, FillResponse,
                FailedResponse, NoLookup, LookupHit, LookupMiss, MemoryIdle, MemoryServe,
                mmuVars, hierVars
  <2>2. QED  BY <1>1, <2>1 DEF CacheLevel!levelVars
<1>3. CASE EndCycle
  BY <1>1, <1>3
     DEF EndCycle, mmuVars, CacheLevel!LevelNext, CacheLevel!Tick
<1>4. ASSUME NEW r \in Requests, NEW da \in DataAddrs, pc = "client", send_request(r, da)
      PROVE  CacheLevel!LevelNext
  <2>1. InCache' = InCache \cup {r} /\ r \notin InCache
    BY <1>4, SendRequestInv
  <2>2. CacheLevel!Accept(r)
    BY <1>4, <2>1 DEF send_request, Put, CacheLevel!Accept
  <2>3. QED  BY <2>2 DEF CacheLevel!LevelNext
<1>5. ASSUME NEW k \in DOMAIN super_in_response_buffer, pc = "client", get_response(k)
      PROVE  CacheLevel!LevelNext
  <2> DEFINE r == super_in_response_buffer[k]
  <2>1. /\ r \in InCache /\ InCache' = InCache \ {r}
        /\ asked[r] + HitLatency < steps
    BY <1>5, GetResponseInv
  <2>2. asked' = Erase(asked, r) /\ steps' = steps
    BY <1>5 DEF get_response
  <2>3. r \in Requests
    BY <1>1, <2>1 DEF HierInv, HierTypes
  <2>4. asked[r] \in Nat /\ steps \in Nat
    BY <1>1, <2>1 DEF HierInv, HierTypes
  <2> HIDE DEF r
  <2>5. asked[r] + (HitLatency + 1) <= steps
    BY <2>1, <2>4, HierarchyAssumption
  <2>6. CacheLevel!Answer(r)
    BY <2>1, <2>2, <2>5 DEF Erase, CacheLevel!Answer
  <2>7. QED  BY <2>3, <2>6 DEF CacheLevel!LevelNext
<1>6. QED
  BY <1>2, <1>3, <1>4, <1>5 DEF HierNext, MmuCall

(* The cache answers each request it accepts once, for its own address,    *)
(* no sooner than the latency, and forgets none: whatever the client asks, *)
(* memory refuses or loses, and for any latencies, widths and depths.      *)
THEOREM CacheImplementsLevel == HierSpec => CacheAnswers
<1>1. HierInit => CacheLevel!LevelInit
  BY CacheLevelInit
<1>2. HierInv /\ HierInv' /\ [HierNext]_hierVars
        => [CacheLevel!LevelNext]_CacheLevel!levelVars
  BY CacheLevelStep
<1>3. QED
  BY <1>1, <1>2, HierInvariant, PTL DEF HierSpec, CacheAnswers, CacheLevel!LevelSpec

MemAccepted == [r \in SentOn \ lost |-> sub_out_request_buffer[r] - HitLatency]

LEMMA MemoryLevelInit == HierInit => MemoryLevel!LevelInit
<1> SUFFICES ASSUME HierInit  PROVE MemoryLevel!LevelInit
  OBVIOUS
<1>1. InMemory = {} /\ SentOn = {}
  BY DEF HierInit, InMemory, Entries, SentOn, MemAnswered
<1>2. [r \in SentOn \ lost |-> sub_out_request_buffer[r] - HitLatency] = <<>>
  BY <1>1
<1>3. QED
  BY <1>1, <1>2 DEF MemoryLevel!LevelInit

(* To the cache memory is the set of requests it has sent on: it accepts   *)
(* in a look-up that misses and answers at the start of a cycle.           *)
LEMMA MemoryLevelStep ==
  HierInv /\ HierInv' /\ [HierNext]_hierVars
    => [MemoryLevel!LevelNext]_MemoryLevel!levelVars
<1> SUFFICES ASSUME HierInv, HierInv', [HierNext]_hierVars
             PROVE  [MemoryLevel!LevelNext]_MemoryLevel!levelVars
  OBVIOUS
<1>1. InMemory = SentOn \ lost /\ InMemory' = SentOn' \ lost'
  BY DEF HierInv, MemPlaces
<1>2. ASSUME UNCHANGED <<sub_out_request_buffer, lost>>
      PROVE  InMemory' = InMemory /\ MemAccepted' = MemAccepted
  BY <1>1, <1>2 DEF MemAccepted, SentOn
<1>3. CASE \/ NoResponse \/ NoLookup \/ MemoryPart \/ MmuCall \/ UNCHANGED hierVars
           \/ \E r \in Requests : LookupHit(r) \/ (LookupMiss(r) /\ ~ BusReady)
  <2>1. UNCHANGED <<steps, sub_out_request_buffer, lost>>
    BY <1>3 DEF NoResponse, NoLookup, MemoryPart, MmuCall, LookupHit, LookupMiss,
                MemoryIdle, MemoryServe, send_request, get_response, cacheVars, hierVars
  <2>2. QED
    BY <1>2, <2>1 DEF MemoryLevel!levelVars, MemAccepted
<1>4. CASE EndCycle
  <2>1. steps' = steps + 1 /\ UNCHANGED <<sub_out_request_buffer, lost>>
    BY <1>4 DEF EndCycle, cacheVars
  <2>2. MemoryLevel!Tick
    BY <1>2, <2>1 DEF MemoryLevel!Tick, MemAccepted
  <2>3. QED  BY <2>2 DEF MemoryLevel!LevelNext
<1>5. ASSUME NEW r \in Requests, LookupMiss(r), BusReady
      PROVE  MemoryLevel!LevelNext
  <2>1. /\ sub_out_request_buffer' = Put(sub_out_request_buffer, r, steps + HitLatency)
        /\ lost' = lost /\ steps' = steps
        /\ super_in_request_buffer # <<>> /\ r = Head(super_in_request_buffer)
    BY <1>5 DEF LookupMiss, Front
  <2>2. r \notin SentOn /\ r \notin lost
    BY <2>1, TailEntries DEF HierInv, HierTypes, Places, MemPlaces, Queued
  <2>3. SentOn' = SentOn \cup {r}
    BY <2>1 DEF SentOn, Put
  <2>4. InMemory' = InMemory \cup {r} /\ r \notin InMemory
    BY <1>1, <2>1, <2>2, <2>3
  <2>5. steps \in Nat /\ (steps + HitLatency) - HitLatency = steps
    BY HierarchyAssumption DEF HierInv, HierTypes
  <2>6. MemAccepted' = [q \in DOMAIN MemAccepted \cup {r} |->
                          IF q = r THEN steps ELSE MemAccepted[q]]
    BY <2>1, <2>2, <2>3, <2>5 DEF MemAccepted, SentOn, Put
  <2>7. MemoryLevel!Accept(r)
    BY <2>1, <2>4, <2>6 DEF MemoryLevel!Accept, MemAccepted
  <2>8. QED  BY <2>7 DEF MemoryLevel!LevelNext
<1>6. ASSUME NEW k \in DOMAIN mem_response_buffer, FillResponse(k) \/ FailedResponse(k)
      PROVE  MemoryLevel!LevelNext
  <2> DEFINE r == MemRequests[k]
  <2>1. /\ mem_response_buffer' = Erase(mem_response_buffer, k)
        /\ steps' = steps /\ k <= steps
    BY <1>6 DEF FillResponse, FailedResponse, Due
  <2>2. r \in SentOn /\ r \notin lost
    BY <2>1, MemoryAnswerLeaves
  <2>3. /\ SentOn' \ lost' = (SentOn \ lost) \ {r}
        /\ \A q \in SentOn \ {r} : sub_out_request_buffer'[q] = sub_out_request_buffer[q]
    <3>1. CASE FillResponse(k)
      BY <3>1 DEF FillResponse, MemRequests, SentOn, Erase
    <3>2. CASE FailedResponse(k)
      BY <3>2 DEF FailedResponse, MemRequests, SentOn
    <3>3. QED  BY <1>6, <3>1, <3>2
  <2>4. /\ sub_out_request_buffer[r] + MemLatency <= k + HitLatency
        /\ sub_out_request_buffer[r] \in Nat /\ k \in Nat /\ steps \in Nat
    BY <2>2 DEF HierInv, HierTypes, MemTiming
  <2>5. r \in Requests
    BY <2>2 DEF HierInv, HierTypes, Places, InCache
  <2> HIDE DEF r
  <2>6. r \in InMemory /\ InMemory' = InMemory \ {r}
    BY <1>1, <2>2, <2>3
  <2>7. MemAccepted[r] + MemLatency <= steps
    BY <2>1, <2>2, <2>4, HierarchyAssumption DEF MemAccepted
  <2>8. MemAccepted' = [q \in DOMAIN MemAccepted \ {r} |-> MemAccepted[q]]
    BY <2>3 DEF MemAccepted
  <2>9. MemoryLevel!Answer(r)
    BY <2>1, <2>6, <2>7, <2>8 DEF MemoryLevel!Answer, MemAccepted
  <2>10. QED  BY <2>5, <2>9 DEF MemoryLevel!LevelNext
<1>7. QED
  BY <1>3, <1>4, <1>5, <1>6 DEF HierNext, HierStep, FillPart, LookupPart

(* Memory answers each request it accepts once, no sooner than its latency *)
(* after, and forgets none but those whose answer reads as FAIL.           *)
THEOREM MemoryImplementsLevel == HierSpec => MemoryAnswers
<1>1. HierInit => MemoryLevel!LevelInit
  BY MemoryLevelInit
<1>2. HierInv /\ HierInv' /\ [HierNext]_hierVars
        => [MemoryLevel!LevelNext]_MemoryLevel!levelVars
  BY MemoryLevelStep
<1>3. QED
  BY <1>1, <1>2, HierInvariant, PTL DEF HierSpec, MemoryAnswers, MemoryLevel!LevelSpec

-----------------------------------------------------------------------------
(* The types, and with them those of the tag store.                        *)

(* A map from some of the keys.                                            *)
Table(map, K, T) == DOMAIN map \subseteq K /\ map \in [DOMAIN map -> T]

LEMMA PutTable ==
  ASSUME NEW K, NEW T, NEW map, Table(map, K, T), NEW key \in K, NEW value \in T
  PROVE  Table(Put(map, key, value), K, T)
BY DEF Put, Table

LEMMA EraseTable ==
  ASSUME NEW K, NEW T, NEW map, Table(map, K, T), NEW key
  PROVE  Table(Erase(map, key), K, T)
BY DEF Erase, Table

Answers == [request : Requests, response_res : UninitRes]

TypeInTables ==
  /\ steps \in Nat
  /\ pc \in {"fill", "lookup", "memory", "client"}
  /\ tag_store \in Stores
  /\ Table(cache_out_request_buffer, Requests, DataAddrs)
  /\ asked \in [DOMAIN cache_out_request_buffer -> Nat]
  /\ super_in_request_buffer \in Seq(Requests)
  /\ Table(sub_out_request_buffer, Requests, Nat)
  /\ Table(super_in_response_buffer, Nat, Requests)
  /\ mem_request_buffer \in Seq(Requests)
  /\ Table(mem_response_buffer, Nat, Answers)
  /\ bus_last_use_step \in Nat
  /\ lost \subseteq Requests

LEMMA TypeByTables == (HierTypeOK <=> TypeInTables) /\ (HierTypeOK' <=> TypeInTables')
BY DEF HierTypeOK, TypeInTables, Table, Stores, SentOn, Answers

LEMMA LineType ==
  ASSUME HierTypeOK, NEW r \in DOMAIN cache_out_request_buffer
  PROVE  line(r) \in Nat
<1>1. cache_out_request_buffer[r] \in Nat
      BY HierarchyAssumption DEF HierTypeOK
<1> QED
    BY <1>1, TagStoreAssumption DEF line

LEMMA FillResponseType ==
  ASSUME HierInv, HierTypeOK, NEW k \in DOMAIN mem_response_buffer, FillResponse(k)
  PROVE  HierTypeOK'
<1> DEFINE r == mem_response_buffer[k].request
<1>1. r \in SentOn /\ r \in Requests
      BY DEF HierInv, MemPlaces, InMemory, MemAnswered, HierTypeOK
<1>2. r \in DOMAIN cache_out_request_buffer
      BY <1>1 DEF HierInv, Places, InCache
<1>3. /\ tag_store' = fill(tag_store, line(r))
      /\ super_in_response_buffer' = Put(super_in_response_buffer, sub_out_request_buffer[r], r)
      /\ sub_out_request_buffer' = Erase(sub_out_request_buffer, r)
      /\ mem_response_buffer' = Erase(mem_response_buffer, k)
      /\ pc' = "lookup"
      /\ UNCHANGED <<steps, mmuVars, super_in_request_buffer, lost>>
      /\ UNCHANGED <<mem_request_buffer, bus_last_use_step>>
      BY DEF FillResponse
<1>4. sub_out_request_buffer[r] \in Nat
      BY <1>1 DEF HierTypeOK
<1> HIDE DEF r
<1>5. fill(tag_store, line(r)) \in Stores
      BY <1>2, LineType, FillSets, TypeByTables DEF TypeInTables
<1>6. /\ Table(Put(super_in_response_buffer, sub_out_request_buffer[r], r), Nat, Requests)
      /\ Table(Erase(sub_out_request_buffer, r), Requests, Nat)
      /\ Table(Erase(mem_response_buffer, k), Nat, Answers)
      BY <1>1, <1>4, PutTable, EraseTable, TypeByTables DEF TypeInTables
<1> QED
    BY <1>3, <1>5, <1>6, TypeByTables DEF TypeInTables, mmuVars

LEMMA LookupHitType ==
  ASSUME HierInv, HierTypeOK, NEW r \in Requests, LookupHit(r)
  PROVE  HierTypeOK'
<1>1. r \in DOMAIN cache_out_request_buffer /\ Tail(super_in_request_buffer) \in Seq(Requests)
  <2>1. r \in Queued /\ Tail(super_in_request_buffer) \in Seq(Requests)
        BY TailEntries DEF HierTypeOK, LookupHit, Front, Queued
  <2> QED
      BY <2>1 DEF HierInv, Places, InCache, Queued
<1>2. /\ tag_store' = read(tag_store, line(r))
      /\ super_in_response_buffer' = Put(super_in_response_buffer, steps + HitLatency, r)
      /\ super_in_request_buffer' = Tail(super_in_request_buffer)
      /\ pc' = "memory"
      /\ UNCHANGED <<steps, mmuVars, sub_out_request_buffer, lost, memVars>>
      BY DEF LookupHit
<1>3. read(tag_store, line(r)) \in Stores
      BY <1>1, LineType, ReadSets, TypeByTables DEF TypeInTables
<1>4. steps + HitLatency \in Nat
      BY HierarchyAssumption DEF HierTypeOK
<1>5. Table(Put(super_in_response_buffer, steps + HitLatency, r), Nat, Requests)
      BY <1>4, PutTable, TypeByTables DEF TypeInTables
<1> QED
    BY <1>1, <1>2, <1>3, <1>5, TypeByTables DEF TypeInTables, mmuVars, memVars

LEMMA LookupMissType ==
  ASSUME HierTypeOK, NEW r \in Requests, LookupMiss(r)
  PROVE  HierTypeOK'
<1>1. CASE BusReady
  <2>1. /\ sub_out_request_buffer' = Put(sub_out_request_buffer, r, steps + HitLatency)
        /\ mem_request_buffer' = Append(mem_request_buffer, r) /\ bus_last_use_step' = steps
        /\ UNCHANGED mem_response_buffer
        /\ super_in_request_buffer' = Tail(super_in_request_buffer)
        /\ pc' = "memory" /\ UNCHANGED <<steps, mmuVars, tag_store, super_in_response_buffer, lost>>
        BY <1>1 DEF LookupMiss, MemSend
  <2>2. Tail(super_in_request_buffer) \in Seq(Requests) /\ Append(mem_request_buffer, r) \in Seq(Requests)
    <3>1. super_in_request_buffer # <<>>
          BY DEF LookupMiss, Front
    <3> QED
        BY <3>1 DEF HierTypeOK
  <2>3. steps + HitLatency \in Nat
        BY HierarchyAssumption DEF HierTypeOK
  <2>4. Table(Put(sub_out_request_buffer, r, steps + HitLatency), Requests, Nat)
        BY <2>3, PutTable, TypeByTables DEF TypeInTables
  <2> QED
      BY <2>1, <2>2, <2>4, TypeByTables DEF TypeInTables, mmuVars
<1>2. CASE ~ BusReady
  <2>1. /\ pc' = "memory" /\ UNCHANGED <<steps, mmuVars, tag_store, super_in_response_buffer, lost>>
        /\ UNCHANGED <<super_in_request_buffer, sub_out_request_buffer, memVars>>
        BY <1>2 DEF LookupMiss
  <2> QED
      BY <2>1, TypeByTables DEF TypeInTables, mmuVars, memVars
<1> QED
    BY <1>1, <1>2

LEMMA MemoryServeType ==
  ASSUME HierTypeOK, NEW res \in UninitRes, MemoryServe(res)
  PROVE  HierTypeOK'
<1> DEFINE answer == [request |-> Head(mem_request_buffer), response_res |-> res]
<1>1. answer \in Answers /\ Tail(mem_request_buffer) \in Seq(Requests)
  <2>1. mem_request_buffer \in Seq(Requests) /\ mem_request_buffer # <<>>
        BY DEF HierTypeOK, MemoryServe, Servable
  <2>2. Head(mem_request_buffer) \in Requests /\ Tail(mem_request_buffer) \in Seq(Requests)
        BY <2>1
  <2> QED
      BY <2>2 DEF Answers
<1>2. /\ mem_request_buffer' = Tail(mem_request_buffer) /\ pc' = "client"
      /\ mem_response_buffer' = Put(mem_response_buffer, steps + MemLatency, answer)
      /\ UNCHANGED <<steps, mmuVars, cacheVars, bus_last_use_step>>
      BY DEF MemoryServe
<1> HIDE DEF answer
<1>3. steps + MemLatency \in Nat
      BY HierarchyAssumption DEF HierTypeOK
<1>4. Table(Put(mem_response_buffer, steps + MemLatency, answer), Nat, Answers)
      BY <1>1, <1>3, PutTable, TypeByTables DEF TypeInTables
<1> QED
    BY <1>1, <1>2, <1>4, TypeByTables DEF TypeInTables, mmuVars, cacheVars

LEMMA MmuCallType ==
  ASSUME HierTypeOK, MmuCall
  PROVE  HierTypeOK'
<1>1. ASSUME NEW r \in Requests, NEW da \in DataAddrs, send_request(r, da)
      PROVE  HierTypeOK'
  <2>1. /\ super_in_request_buffer' = Append(super_in_request_buffer, r)
        /\ cache_out_request_buffer' = Put(cache_out_request_buffer, r, da)
        /\ asked' = Put(asked, r, steps)
        /\ UNCHANGED <<steps, pc, tag_store, sub_out_request_buffer>>
        /\ UNCHANGED <<super_in_response_buffer, lost, memVars>>
        BY <1>1 DEF send_request
  <2>2. Table(Put(cache_out_request_buffer, r, da), Requests, DataAddrs)
        BY PutTable, TypeByTables DEF TypeInTables
  <2>3. Put(asked, r, steps) \in [DOMAIN Put(cache_out_request_buffer, r, da) -> Nat]
        BY TypeByTables DEF TypeInTables, Put
  <2>4. Append(super_in_request_buffer, r) \in Seq(Requests)
        BY TypeByTables DEF TypeInTables
  <2> QED
      BY <2>1, <2>2, <2>3, <2>4, TypeByTables DEF TypeInTables, memVars
<1>2. ASSUME NEW k \in DOMAIN super_in_response_buffer, get_response(k)
      PROVE  HierTypeOK'
  <2> DEFINE r == super_in_response_buffer[k]
  <2>1. /\ super_in_response_buffer' = Erase(super_in_response_buffer, k)
        /\ cache_out_request_buffer' = Erase(cache_out_request_buffer, r)
        /\ asked' = Erase(asked, r)
        /\ UNCHANGED <<steps, pc, tag_store, super_in_request_buffer>>
        /\ UNCHANGED <<sub_out_request_buffer, lost, memVars>>
        BY <1>2 DEF get_response
  <2> HIDE DEF r
  <2>2. /\ Table(Erase(cache_out_request_buffer, r), Requests, DataAddrs)
        /\ Table(Erase(super_in_response_buffer, k), Nat, Requests)
        BY EraseTable, TypeByTables DEF TypeInTables
  <2>3. Erase(asked, r) \in [DOMAIN Erase(cache_out_request_buffer, r) -> Nat]
        BY TypeByTables DEF TypeInTables, Erase
  <2> QED
      BY <2>1, <2>2, <2>3, TypeByTables DEF TypeInTables, memVars
<1> QED
    BY <1>1, <1>2 DEF MmuCall

LEMMA HierTypeNext ==
  ASSUME HierInv, HierTypeOK, [HierNext]_hierVars
  PROVE  HierTypeOK'
<1>1. ASSUME NEW k \in DOMAIN mem_response_buffer, FailedResponse(k)
      PROVE  HierTypeOK'
  <2>1. mem_response_buffer[k].request \in Requests
        BY <1>1 DEF HierTypeOK
  <2>2. /\ mem_response_buffer' = Erase(mem_response_buffer, k)
        /\ lost' = lost \cup {mem_response_buffer[k].request} /\ pc' = "lookup"
        /\ UNCHANGED <<steps, mmuVars, tag_store, super_in_request_buffer>>
        /\ UNCHANGED <<sub_out_request_buffer, super_in_response_buffer>>
        /\ UNCHANGED <<mem_request_buffer, bus_last_use_step>>
        BY <1>1 DEF FailedResponse
  <2>3. Table(Erase(mem_response_buffer, k), Nat, Answers)
        BY EraseTable, TypeByTables DEF TypeInTables
  <2> QED
      BY <2>1, <2>2, <2>3, TypeByTables DEF TypeInTables, mmuVars
<1>2. ASSUME UNCHANGED <<mmuVars, cacheVars, memVars>>, steps' \in Nat,
             pc' \in {"fill", "lookup", "memory", "client"}
      PROVE  HierTypeOK'
      BY <1>2, TypeByTables DEF TypeInTables, mmuVars, cacheVars, memVars
<1>3. CASE NoResponse \/ NoLookup \/ MemoryIdle \/ EndCycle \/ UNCHANGED hierVars
  <2>1. UNCHANGED <<mmuVars, cacheVars, memVars>>
        BY <1>3 DEF NoResponse, NoLookup, MemoryIdle, EndCycle, hierVars
  <2>2. steps \in Nat /\ pc \in {"fill", "lookup", "memory", "client"}
        BY DEF HierTypeOK
  <2>3. steps' \in Nat /\ pc' \in {"fill", "lookup", "memory", "client"}
        BY <1>3, <2>2 DEF NoResponse, NoLookup, MemoryIdle, EndCycle, hierVars
  <2> QED
      BY <1>2, <2>1, <2>3
<1> QED
    BY <1>1, <1>3, FillResponseType, LookupHitType, LookupMissType, MemoryServeType, MmuCallType
       DEF HierNext, HierStep, FillPart, LookupPart, MemoryPart

LEMMA HierTypeInit == HierInit => HierTypeOK
<1> SUFFICES ASSUME HierInit PROVE HierTypeOK
    OBVIOUS
<1>1. tag_store \in [SetIndices -> CacheIndex]
      BY EmptyStoreType DEF HierInit, Stores
<1> QED
    BY <1>1 DEF HierInit, HierTypeOK, SentOn

(* HierTypeOK: every variable of the MMU, the cache and memory keeps the   *)
(* type that its declaration gives it.  In particular an answer that the   *)
(* cache takes from memory is for a request that it has noted, and that    *)
(* the MMU still knows.                                                    *)
THEOREM HierTypeCorrect == HierSpec => []HierTypeOK
<1>1. HierInv /\ HierTypeOK /\ [HierNext]_hierVars => HierTypeOK'
      BY HierTypeNext
<1> QED
    BY <1>1, HierTypeInit, HierInvariant, PTL DEF HierSpec
=============================================================================
