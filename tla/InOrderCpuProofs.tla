-------------------------- MODULE InOrderCpuProofs --------------------------
(***************************************************************************)
(* Proofs about InOrderCpu, for every trace and any parameters: the CPU is *)
(* a client that the memory hierarchy is proved correct for, it always has *)
(* exactly the one request out that it waits for, its pipe is one queue in *)
(* trace order that moves no faster than the cache answers, and for it the *)
(* cache fills no line that is there.                                      *)
(***************************************************************************)
EXTENDS InOrderCpu, CacheHierarchyProofs

(* What the CPU has read is of the trace.                                  *)
CpuTypes ==
  /\ stage \in {"retire", "fetch", "reading", "send", "end", "crashed"}
  /\ temp_ins \in Ins \cup {NULL}
  /\ fetch_block \in Seq(Ins)
  /\ stage = "send" => fetch_block # <<>>
  /\ pc # "client" => stage = "retire"

LEMMA ParsedIns ==
  ASSUME NEW n \in Nat, NEW next \in parse_ins(n)
  PROVE  next \in Ins \cup {NULL}
BY DEF parse_ins, Ins

LEMMA CpuTypesInit == InOrderInit => CpuTypes
<1> SUFFICES ASSUME InOrderInit  PROVE CpuTypes
  OBVIOUS
<1>1. temp_ins \in Ins \cup {NULL}
  BY ParsedIns DEF InOrderInit
<1>2. QED
  BY <1>1 DEF InOrderInit, HierInit, CpuTypes

LEMMA CpuTypesNext ==
  CpuTypes /\ [InOrderNext]_inOrderVars => CpuTypes'
<1> SUFFICES ASSUME CpuTypes, [InOrderNext]_inOrderVars  PROVE CpuTypes'
  OBVIOUS
<1>1. CASE HierStep /\ UNCHANGED cpuVars
  <2>1. pc # "client"
    BY <1>1 DEF HierStep, FillPart, LookupPart, MemoryPart, NoResponse, FillResponse,
                FailedResponse, NoLookup, LookupHit, LookupMiss, MemoryIdle, MemoryServe
  <2>2. QED  BY <1>1, <2>1 DEF CpuTypes, cpuVars
<1>2. CASE Retire \/ FetchFirst \/ FetchWait
  BY <1>2 DEF Retire, FetchFirst, FetchWait, At, CpuTypes, hierVars
<1>3. ASSUME NEW k \in DOMAIN super_in_response_buffer, FetchAnswer(k)
      PROVE  CpuTypes'
  <2>1. pc = "client" /\ temp_ins' = temp_ins /\ stage' \in {"reading", "end"}
    BY <1>3 DEF FetchAnswer, At
  <2>2. pc' = pc
    BY <1>3 DEF FetchAnswer, get_response
  <2>3. fetch_block' = <<>> \/ fetch_block' = fetch_block
    BY <1>3 DEF FetchAnswer
  <2>4. fetch_block' \in Seq(Ins)
    <3>1. fetch_block \in Seq(Ins)
      BY DEF CpuTypes
    <3>2. <<>> \in Seq(Ins)
      OBVIOUS
    <3>3. QED  BY <2>3, <3>1, <3>2
  <2>5. QED  BY <2>1, <2>2, <2>4 DEF CpuTypes
<1>4. CASE TraceEnd
  BY <1>4 DEF TraceEnd, At, CpuTypes, hierVars
<1>5. ASSUME temp_ins # NULL,
             NEW next \in parse_ins(temp_ins.n + 1), ReadIns(next)
      PROVE  CpuTypes'
  <2>1. temp_ins \in Ins /\ temp_ins.n + 1 \in Nat
    BY <1>5 DEF CpuTypes, Ins
  <2>2. next \in Ins \cup {NULL}
    BY <2>1, ParsedIns
  <2>3. /\ pc = "client" /\ pc' = pc /\ stage' \in {"send", "reading"} /\ temp_ins' = next
        /\ fetch_block' = Append(fetch_block, temp_ins)
    BY <1>5 DEF ReadIns, At, hierVars
  <2>4. fetch_block' \in Seq(Ins) /\ fetch_block' # <<>>
    BY <2>1, <2>3 DEF CpuTypes
  <2>5. QED  BY <2>2, <2>3, <2>4 DEF CpuTypes
<1>6. CASE SendFetch
  <2>1. pc = "client" /\ pc' = pc
    BY <1>6 DEF SendFetch, At, send_request, hierVars
  <2>2. QED  BY <1>6, <2>1 DEF SendFetch, CpuTypes
<1>7. CASE NextStep
  BY <1>7 DEF NextStep, EndCycle, CpuTypes
<1>8. CASE UNCHANGED inOrderVars
  BY <1>8 DEF inOrderVars, hierVars, cpuVars, CpuTypes
<1>9. QED
  BY <1>1, <1>2, <1>3, <1>4, <1>5, <1>6, <1>7, <1>8
     DEF InOrderNext, Work, CpuStep, FetchPart, ReadPart, Crashed

LEMMA CpuTypesInvariant == InOrderSpec => []CpuTypes
<1>1. InOrderInit => CpuTypes
  BY CpuTypesInit
<1>2. CpuTypes /\ [InOrderNext]_inOrderVars => CpuTypes'
  BY CpuTypesNext
<1>3. QED
  BY <1>1, <1>2, PTL DEF InOrderSpec

-----------------------------------------------------------------------------
(* The first instruction of a block is of the trace, so that its address   *)
(* is one that the client may ask for.                                     *)
LEMMA BlockAddress ==
  ASSUME CpuTypes, stage = "send"
  PROVE  Head(fetch_block).ia \in DataAddrs
<1>1. Head(fetch_block) \in Ins
  BY DEF CpuTypes
<1>2. QED
  BY <1>1, InOrderAssumption DEF Ins

LEMMA CpuDrivesStep ==
  CpuTypes /\ [InOrderNext]_inOrderVars => [HierNext]_hierVars
<1> SUFFICES ASSUME CpuTypes, [InOrderNext]_inOrderVars  PROVE [HierNext]_hierVars
  OBVIOUS
<1>1. CASE HierStep
  BY <1>1 DEF HierNext
<1>2. CASE Retire \/ FetchFirst \/ FetchWait \/ ReadPart \/ UNCHANGED inOrderVars
  BY <1>2 DEF Retire, FetchFirst, FetchWait, ReadPart, TraceEnd, ReadIns, inOrderVars
<1>3. ASSUME NEW k \in DOMAIN super_in_response_buffer, FetchAnswer(k)
      PROVE  HierNext
  BY <1>3 DEF FetchAnswer, At, HierNext, MmuCall
<1>4. CASE SendFetch
  <2>1. pc = "client" /\ Head(fetch_block).ia \in DataAddrs
    BY <1>4, BlockAddress DEF SendFetch, At
  <2>2. CASE CacheFull
    BY <1>4, <2>2 DEF SendFetch
  <2>3. CASE ~ CacheFull
    BY <1>4, <2>1, <2>3 DEF SendFetch, HierNext, MmuCall
  <2>4. QED  BY <2>2, <2>3
<1>5. CASE NextStep
  BY <1>5 DEF NextStep, HierNext
<1>6. QED
  BY <1>1, <1>2, <1>3, <1>4, <1>5
     DEF InOrderNext, Work, CpuStep, FetchPart, Crashed

(* The CPU is one of the clients that the hierarchy is proved correct for. *)
THEOREM CpuDrivesHierarchy == InOrderSpec => HierSpec
<1>1. InOrderInit => HierInit
  BY DEF InOrderInit
<1>2. CpuTypes /\ [InOrderNext]_inOrderVars => [HierNext]_hierVars
  BY CpuDrivesStep
<1>3. QED
  BY <1>1, <1>2, CpuTypesInvariant, PTL DEF InOrderSpec, HierSpec

-----------------------------------------------------------------------------
(* The CPU waits for one request, for the block, or there is none.         *)
WaitsFor(r) == cache_out_request_buffer = [q \in {r} |-> Head(fetch_block).ia]

OneOut ==
  LET waiting == \E r \in Requests : WaitsFor(r)
      idle    == DOMAIN cache_out_request_buffer = {}
  IN  /\ stage \in {"retire", "fetch"} => IF steps = 0 THEN idle ELSE waiting
      /\ stage \in {"reading", "send", "crashed"} => idle
      /\ stage = "end" => waiting

LEMMA OneOutNext ==
  ASSUME InRequestBufferSize # 0, HierInv, CpuTypes, OneOut, [InOrderNext]_inOrderVars
  PROVE  OneOut'
<1>1. DOMAIN cache_out_request_buffer = InCache /\ steps \in Nat
  BY DEF HierInv, Places, HierTypes
<1>2. CASE HierStep /\ UNCHANGED cpuVars
  <2>1. UNCHANGED <<steps, cache_out_request_buffer>>
    BY <1>2 DEF HierStep, FillPart, LookupPart, MemoryPart, NoResponse, FillResponse,
                FailedResponse, NoLookup, LookupHit, LookupMiss, MemoryIdle, MemoryServe,
                mmuVars
  <2>2. QED  BY <1>2, <2>1 DEF OneOut, WaitsFor, cpuVars
<1>3. CASE Retire \/ FetchFirst \/ FetchWait
  BY <1>3 DEF Retire, FetchFirst, FetchWait, At, OneOut, WaitsFor, hierVars, mmuVars
<1>4. ASSUME NEW k \in DOMAIN super_in_response_buffer, FetchAnswer(k)
      PROVE  OneOut'
  <2> DEFINE a == super_in_response_buffer[k]
  <2>1. stage = "fetch" /\ steps # 0 /\ pc = "client" /\ get_response(k)
    BY <1>4 DEF FetchAnswer, At
  <2>2. PICK r \in Requests : WaitsFor(r)
    BY <2>1 DEF OneOut
  <2>3. a \in DOMAIN cache_out_request_buffer
    BY <1>1, <2>1, GetResponseInv
  <2>4. a = r /\ cache_out_request_buffer[a] = Head(fetch_block).ia
    BY <2>2, <2>3 DEF WaitsFor
  <2>5. stage' = "reading"
    BY <1>4, <2>4 DEF FetchAnswer
  <2>6. cache_out_request_buffer' = Erase(cache_out_request_buffer, a)
    BY <2>1 DEF get_response
  <2>7. DOMAIN cache_out_request_buffer' = {}
    BY <2>2, <2>4, <2>6 DEF Erase, WaitsFor
  <2>8. QED  BY <2>5, <2>7 DEF OneOut
<1>5. CASE ReadPart
  <2>1. /\ stage = "reading" /\ stage' \in {"reading", "send", "crashed"}
        /\ cache_out_request_buffer' = cache_out_request_buffer
    BY <1>5 DEF ReadPart, TraceEnd, ReadIns, At, hierVars, mmuVars
  <2>2. QED  BY <2>1 DEF OneOut
<1>6. CASE SendFetch
  <2>1. stage = "send" /\ stage' = "end" /\ fetch_block' = fetch_block
    BY <1>6 DEF SendFetch, At
  <2>2. DOMAIN cache_out_request_buffer = {}
    BY <2>1 DEF OneOut
  <2>3. super_in_request_buffer = <<>>
    <3>1. Queued = {}
      BY <1>1, <2>2 DEF InCache, Queued
    <3>2. super_in_request_buffer \in Seq(Requests)
      BY DEF HierInv, HierTypes
    <3>3. super_in_request_buffer # <<>> => Head(super_in_request_buffer) \in Queued
      BY <3>2, TailEntries DEF Queued
    <3>4. QED  BY <3>1, <3>3
  <2>4. ~ CacheFull
    BY <2>3, HierarchyAssumption DEF CacheFull
  <2>5. PICK r \in Requests : send_request(r, Head(fetch_block).ia)
    BY <1>6, <2>4 DEF SendFetch
  <2>6. cache_out_request_buffer' = Put(cache_out_request_buffer, r, Head(fetch_block).ia)
    BY <2>5 DEF send_request
  <2>7. WaitsFor(r)'
    BY <2>1, <2>2, <2>6 DEF WaitsFor, Put
  <2>8. QED  BY <2>1, <2>7 DEF OneOut
<1>7. CASE NextStep
  <2>1. /\ stage = "end" /\ stage' = "retire" /\ steps' # 0
        /\ UNCHANGED <<cache_out_request_buffer, fetch_block>>
    BY <1>1, <1>7 DEF NextStep, At, EndCycle, mmuVars
  <2>2. QED  BY <2>1 DEF OneOut, WaitsFor
<1>8. CASE UNCHANGED inOrderVars
  BY <1>8 DEF inOrderVars, hierVars, mmuVars, cpuVars, OneOut, WaitsFor
<1>9. QED
  BY <1>2, <1>3, <1>4, <1>5, <1>6, <1>7, <1>8
     DEF InOrderNext, Work, CpuStep, FetchPart, Crashed

(* If the cache takes requests at all, the CPU has one fetch out, for the  *)
(* address of the block's first instruction, and its answer is on its way  *)
(* but for one case: memory's answer to it read as FAIL and was dropped.   *)
(* No other loss makes the CPU wait for ever.                              *)
THEOREM FetchAlwaysOutstanding ==
  ASSUME InRequestBufferSize # 0
  PROVE  InOrderSpec => []FetchOutstanding
<1>1. InOrderInit => OneOut
  BY DEF InOrderInit, HierInit, OneOut
<1>2. HierInv /\ CpuTypes /\ OneOut /\ [InOrderNext]_inOrderVars => OneOut'
  BY OneOutNext
<1>3. HierInv /\ CpuTypes /\ OneOut => FetchOutstanding
  <2> SUFFICES ASSUME HierInv, CpuTypes, OneOut, steps > 0, pc # "client"
               PROVE  \E r \in Requests : /\ WaitsFor(r) /\ InCache = {r}
                                          /\ lost \subseteq {r} /\ Moving = {r} \ lost
    BY DEF FetchOutstanding, WaitsFor
  <2>1. PICK r \in Requests : WaitsFor(r)
    BY DEF OneOut, CpuTypes
  <2>2. InCache = {r}
    BY <2>1 DEF WaitsFor, HierInv, Places
  <2>3. lost \subseteq SentOn /\ InMemory = SentOn \ lost
    BY DEF HierInv, MemPlaces
  <2>4. Queued \cap SentOn = {} /\ SentOn \cap Answered = {}
    BY DEF HierInv, Places
  <2>5. lost \subseteq {r}
    BY <2>2, <2>3 DEF InCache
  <2>6. Moving = {r} \ lost
    BY <2>2, <2>3, <2>4 DEF InCache, Moving, Queued
  <2>7. QED  BY <2>1, <2>2, <2>5, <2>6
<1>4. InOrderSpec => []HierInv
  BY CpuDrivesHierarchy, HierInvariant, PTL
<1>5. QED
  BY <1>1, <1>2, <1>3, <1>4, CpuTypesInvariant, PTL DEF InOrderSpec

-----------------------------------------------------------------------------
(* Whatever the cache refuses, the CPU never has two requests out.         *)
AtMostOne ==
  /\ stage \in {"reading", "send", "crashed"} => DOMAIN cache_out_request_buffer = {}
  /\ stage \in {"retire", "fetch"} /\ steps = 0 => DOMAIN cache_out_request_buffer = {}
  /\ \A q, r \in DOMAIN cache_out_request_buffer : q = r

(* The answer that the MMU takes is to a request it has out.               *)
LEMMA AnsweredIsOut ==
  ASSUME HierInv, NEW k \in DOMAIN super_in_response_buffer
  PROVE  super_in_response_buffer[k] \in DOMAIN cache_out_request_buffer
BY DEF HierInv, Places, InCache, Answered

LEMMA AtMostOneNext ==
  ASSUME HierInv, CpuTypes, AtMostOne, [InOrderNext]_inOrderVars
  PROVE  AtMostOne'
<1>1. steps \in Nat
      BY DEF HierInv, HierTypes
<1>2. CASE HierStep /\ UNCHANGED cpuVars
  <2>1. UNCHANGED <<steps, cache_out_request_buffer>>
        BY <1>2 DEF HierStep, FillPart, LookupPart, MemoryPart, NoResponse, FillResponse,
                    FailedResponse, NoLookup, LookupHit, LookupMiss, MemoryIdle, MemoryServe,
                    mmuVars
  <2> QED
      BY <1>2, <2>1 DEF AtMostOne, cpuVars
<1>3. CASE Retire \/ FetchFirst \/ FetchWait \/ ReadPart \/ UNCHANGED inOrderVars
  <2>1. UNCHANGED <<steps, cache_out_request_buffer>>
        BY <1>3 DEF Retire, FetchFirst, FetchWait, ReadPart, TraceEnd, ReadIns, inOrderVars,
                    hierVars, mmuVars
  <2>2. \/ stage' = stage
        \/ stage = "retire" /\ stage' = "fetch"
        \/ stage = "fetch" /\ steps = 0 /\ stage' = "reading"
        \/ stage = "fetch" /\ stage' = "end"
        \/ stage = "reading" /\ stage' \in {"reading", "send", "crashed"}
        BY <1>3 DEF Retire, FetchFirst, FetchWait, ReadPart, TraceEnd, ReadIns, inOrderVars,
                    cpuVars, At
  <2> QED
      BY <2>1, <2>2 DEF AtMostOne
<1>4. ASSUME NEW k \in DOMAIN super_in_response_buffer, FetchAnswer(k)
      PROVE  AtMostOne'
  <2> DEFINE a == super_in_response_buffer[k]
  <2>1. cache_out_request_buffer' = Erase(cache_out_request_buffer, a)
        BY <1>4 DEF FetchAnswer, get_response
  <2>2. a \in DOMAIN cache_out_request_buffer
        BY AnsweredIsOut
  <2>3. DOMAIN cache_out_request_buffer' = {}
        BY <2>1, <2>2 DEF Erase, AtMostOne
  <2> QED
      BY <2>3 DEF AtMostOne
<1>5. CASE SendFetch
  <2>1. stage' = "end" /\ DOMAIN cache_out_request_buffer = {}
        BY <1>5 DEF SendFetch, At, AtMostOne
  <2>2. CASE CacheFull
        BY <1>5, <2>1, <2>2 DEF SendFetch, hierVars, mmuVars, AtMostOne
  <2>3. CASE ~ CacheFull
    <3>1. PICK r \in Requests : send_request(r, Head(fetch_block).ia)
          BY <1>5, <2>3 DEF SendFetch
    <3>2. DOMAIN cache_out_request_buffer' = {r}
          BY <2>1, <3>1 DEF send_request, Put
    <3> QED
        BY <2>1, <3>2 DEF AtMostOne
  <2> QED
      BY <2>2, <2>3
<1>6. CASE NextStep
      BY <1>1, <1>6 DEF NextStep, At, EndCycle, mmuVars, AtMostOne
<1> QED
    BY <1>2, <1>3, <1>4, <1>5, <1>6 DEF InOrderNext, Work, CpuStep, FetchPart, Crashed

LEMMA AtMostOneInvariant == InOrderSpec => []AtMostOne
<1>1. InOrderInit => AtMostOne
      BY DEF InOrderInit, HierInit, AtMostOne
<1>2. HierInv /\ CpuTypes /\ AtMostOne /\ [InOrderNext]_inOrderVars => AtMostOne'
      BY AtMostOneNext
<1>3. InOrderSpec => []HierInv
      BY CpuDrivesHierarchy, HierInvariant, PTL
<1> QED
    BY <1>1, <1>2, <1>3, CpuTypesInvariant, PTL DEF InOrderSpec

-----------------------------------------------------------------------------
(* The tag store under this client.  A line that memory has been asked for *)
(* does not come into the cache in another way before the answer.          *)
Absent == \A r \in SentOn : ~ can_read(tag_store, line(r))

ListInv == AllOrdered(tag_store) /\ Absent

LEMMA ListInvKept ==
  ASSUME ListInv, UNCHANGED <<tag_store, sub_out_request_buffer, cache_out_request_buffer>>
  PROVE  ListInv'
BY DEF ListInv, Absent, SentOn, line

LEMMA LookupListInv ==
  ASSUME HierInv, HierTypeOK, AtMostOne, ListInv, NEW r \in Requests, LookupHit(r) \/ LookupMiss(r)
  PROVE  ListInv'
<1>1. r \in Queued /\ r \in DOMAIN cache_out_request_buffer
  <2>1. r \in Queued
        BY TailEntries DEF HierTypeOK, LookupHit, LookupMiss, Front, Queued
  <2> QED
      BY <2>1 DEF HierInv, Places, InCache, Queued
<1>2. line(r) \in Nat /\ tag_store \in Stores
      BY <1>1, LineType DEF HierTypeOK, Stores
<1>3. SentOn = {}
  <2>1. r \notin SentOn /\ SentOn \subseteq DOMAIN cache_out_request_buffer
        BY <1>1 DEF HierInv, Places, InCache
  <2> QED
      BY <1>1, <2>1 DEF AtMostOne
<1>4. UNCHANGED cache_out_request_buffer
      BY DEF LookupHit, LookupMiss, mmuVars
<1>5. CASE LookupHit(r)
  <2>1. AllOrdered(read(tag_store, line(r)))
        BY <1>2, ReadOrdered DEF ListInv
  <2>2. tag_store' = read(tag_store, line(r)) /\ SentOn' = SentOn
        BY <1>5 DEF LookupHit, SentOn
  <2> QED
      BY <1>3, <2>1, <2>2 DEF ListInv, Absent
<1>6. CASE LookupMiss(r)
  <2>1. UNCHANGED tag_store /\ ~ can_read(tag_store, line(r))
        BY <1>6 DEF LookupMiss
  <2>2. SentOn' \subseteq {r}
        BY <1>3, <1>6 DEF LookupMiss, SentOn, Put
  <2> QED
      BY <1>4, <2>1, <2>2 DEF ListInv, Absent, line
<1> QED
    BY <1>5, <1>6

LEMMA FillListInv ==
  ASSUME HierInv, HierTypeOK, AtMostOne, ListInv,
         NEW k \in DOMAIN mem_response_buffer, FillResponse(k)
  PROVE  ListInv'
<1> DEFINE r == mem_response_buffer[k].request
<1>1. r \in SentOn /\ SentOn \subseteq DOMAIN cache_out_request_buffer
      BY DEF HierInv, MemPlaces, InMemory, MemAnswered, Places, InCache
<1>2. line(r) \in Nat /\ tag_store \in Stores /\ ~ can_read(tag_store, line(r))
      BY <1>1, LineType DEF HierTypeOK, Stores, ListInv, Absent
<1>3. tag_store' = fill(tag_store, line(r)) /\ sub_out_request_buffer' = Erase(sub_out_request_buffer, r)
      BY DEF FillResponse
<1> HIDE DEF r
<1>4. AllOrdered(fill(tag_store, line(r)))
      BY <1>2, FillOrdered DEF ListInv
<1>5. SentOn' = {}
  <2>1. SentOn' = SentOn \ {r}
        BY <1>3 DEF SentOn, Erase
  <2> QED
      BY <1>1, <2>1 DEF AtMostOne
<1> QED
    BY <1>3, <1>4, <1>5 DEF ListInv, Absent

LEMMA ListInvNext ==
  ASSUME HierInv, HierTypeOK, CpuTypes, AtMostOne, ListInv, [InOrderNext]_inOrderVars
  PROVE  ListInv'
<1>1. CASE HierStep
  <2>1. ASSUME NEW k \in DOMAIN mem_response_buffer, FailedResponse(k)
        PROVE  ListInv'
        BY <2>1, ListInvKept DEF FailedResponse, mmuVars
  <2>2. CASE NoResponse \/ NoLookup \/ MemoryIdle
        BY <2>2, ListInvKept DEF NoResponse, NoLookup, MemoryIdle, mmuVars, cacheVars
  <2>3. ASSUME NEW res, MemoryServe(res)
        PROVE  ListInv'
        BY <2>3, ListInvKept DEF MemoryServe, mmuVars, cacheVars
  <2> QED
      BY <1>1, <2>1, <2>2, <2>3, LookupListInv, FillListInv
         DEF HierStep, FillPart, LookupPart, MemoryPart
<1>2. CASE Retire \/ FetchFirst \/ FetchWait \/ ReadPart \/ NextStep \/ UNCHANGED inOrderVars
      BY <1>2, ListInvKept DEF Retire, FetchFirst, FetchWait, ReadPart, TraceEnd, ReadIns, NextStep,
                               EndCycle, inOrderVars, hierVars, mmuVars, cacheVars
<1>3. ASSUME NEW k \in DOMAIN super_in_response_buffer, FetchAnswer(k)
      PROVE  ListInv'
  <2> DEFINE a == super_in_response_buffer[k]
  <2>1. UNCHANGED <<tag_store, sub_out_request_buffer>>
        BY <1>3 DEF FetchAnswer, get_response
  <2>2. a \in DOMAIN cache_out_request_buffer /\ a \in Answered
        BY AnsweredIsOut DEF Answered
  <2>3. SentOn = {}
    <3>1. a \notin SentOn /\ SentOn \subseteq DOMAIN cache_out_request_buffer
          BY <2>2 DEF HierInv, Places, InCache
    <3> QED
        BY <2>2, <3>1 DEF AtMostOne
  <2> QED
      BY <2>1, <2>3 DEF ListInv, Absent, SentOn
<1>4. CASE SendFetch
  <2>1. SentOn = {}
    <3>1. DOMAIN cache_out_request_buffer = {}
          BY <1>4 DEF SendFetch, At, AtMostOne
    <3> QED
        BY <3>1 DEF HierInv, Places, InCache
  <2>2. UNCHANGED <<tag_store, sub_out_request_buffer>>
        BY <1>4 DEF SendFetch, send_request, hierVars, cacheVars
  <2> QED
      BY <2>1, <2>2 DEF ListInv, Absent, SentOn
<1> QED
    BY <1>1, <1>2, <1>3, <1>4 DEF InOrderNext, Work, CpuStep, FetchPart, Crashed

(* LinesListedOnce: Cache::step fills without touching, and would list a   *)
(* line twice that is there already; under this CPU, which has one request *)
(* out at a time, it never is.                                             *)
THEOREM LinesListedOnceHere == InOrderSpec => []LinesListedOnce
<1>1. InOrderInit => ListInv
      BY EmptyOrdered DEF InOrderInit, HierInit, ListInv, Absent, SentOn
<1>2. HierInv /\ HierTypeOK /\ CpuTypes /\ AtMostOne /\ ListInv /\ [InOrderNext]_inOrderVars
        => ListInv'
      BY ListInvNext
<1>3. InOrderSpec => [](HierInv /\ HierTypeOK)
      BY CpuDrivesHierarchy, HierInvariant, HierTypeCorrect, PTL
<1>4. ASSUME HierTypeOK, ListInv
      PROVE  LinesListedOnce
  <2> SUFFICES ASSUME NEW idx \in SetIndices
               PROVE  /\ Len(tag_store[idx].replacement_order) = Cardinality(tag_store[idx].ways)
                      /\ Entries(tag_store[idx].replacement_order) = tag_store[idx].ways
      BY DEF LinesListedOnce
  <2> DEFINE set == tag_store[idx]
             order == set.replacement_order
  <2>1. Ordered(set) /\ order \in Seq(Tags)
        BY <1>4 DEF HierTypeOK, ListInv, AllOrdered, CacheIndex
  <2> HIDE DEF set
  <2>2. Elements(order) = set.ways /\ Distinct(order)
        BY <2>1 DEF Ordered
  <2> HIDE DEF order
  <2>3. Cardinality(set.ways) = Len(order)
        BY <2>1, <2>2, DistinctCount, Zenon
  <2>4. Len(order) = Cardinality(set.ways) /\ Entries(order) = set.ways
        BY <2>2, <2>3 DEF Elements, Entries
  <2> QED
      BY <2>4 DEF order, set
<1> QED
    BY <1>1, <1>2, <1>3, <1>4, CpuTypesInvariant, AtMostOneInvariant, PTL DEF InOrderSpec

-----------------------------------------------------------------------------
(* The pipe and the block as one queue.                                    *)
InPipe == SeqExt!FlattenSeq(fe_pipe)

(* Blocks are no wider than the pipe, which is as deep as it is configured *)
(* but between retirement and fetch.                                       *)
PipeInv ==
  /\ fe_pipe \in Seq(Seq(Ins)) /\ retire_ins_count \in Nat
  /\ Len(fe_pipe) = IF stage = "fetch" THEN FePipeDepth - 1 ELSE FePipeDepth
  /\ \A n \in DOMAIN fe_pipe : Len(fe_pipe[n]) <= FePipeWidth
  /\ Len(fetch_block) <= FePipeWidth
  /\ stage = "reading" => Len(fetch_block) < FePipeWidth
  /\ stage \in {"retire", "fetch"} /\ steps = 0 => fetch_block = <<>>

(* A step that gives the pipe a block.                                     *)
LEMMA PipeTakes ==
  ASSUME PipeInv, NEW block \in Seq(Ins), Len(block) <= FePipeWidth, stage = "fetch",
         fe_pipe' = Append(fe_pipe, block)
  PROVE  /\ fe_pipe' \in Seq(Seq(Ins)) /\ Len(fe_pipe') = FePipeDepth
         /\ \A n \in DOMAIN fe_pipe' : Len(fe_pipe'[n]) <= FePipeWidth
<1>1. /\ Len(fe_pipe) \in Nat /\ Len(fe_pipe) = FePipeDepth - 1 /\ FePipeDepth \in Nat
      /\ DOMAIN fe_pipe = 1 .. Len(fe_pipe)
      /\ fe_pipe' \in Seq(Seq(Ins)) /\ Len(fe_pipe') = Len(fe_pipe) + 1
      /\ DOMAIN fe_pipe' = 1 .. Len(fe_pipe) + 1
      /\ fe_pipe'[Len(fe_pipe) + 1] = block
      /\ \A n \in 1 .. Len(fe_pipe) : fe_pipe'[n] = fe_pipe[n]
      BY InOrderAssumption, AppendProperties DEF PipeInv
<1>2. \A n \in 1 .. Len(fe_pipe) + 1 : n \in 1 .. Len(fe_pipe) \/ n = Len(fe_pipe) + 1
      BY <1>1
<1> QED
    BY <1>1, <1>2 DEF PipeInv

LEMMA PipeInvNext ==
  ASSUME HierTypeOK, CpuTypes, PipeInv, [InOrderNext]_inOrderVars
  PROVE  PipeInv'
<1>0. /\ FePipeWidth \in Nat \ {0} /\ FePipeDepth \in Nat \ {0} /\ steps \in Nat
      /\ fetch_block \in Seq(Ins) /\ <<>> \in Seq(Ins) /\ Len(<<>>) = 0
      BY InOrderAssumption DEF CpuTypes, HierTypeOK
<1>1. CASE (HierStep /\ UNCHANGED cpuVars) \/ UNCHANGED inOrderVars
  <2>1. UNCHANGED <<steps, cpuVars>>
        BY <1>1 DEF HierStep, FillPart, LookupPart, MemoryPart, NoResponse, FillResponse,
                    FailedResponse, NoLookup, LookupHit, LookupMiss, MemoryIdle, MemoryServe,
                    inOrderVars, hierVars
  <2> QED
      BY <2>1 DEF PipeInv, cpuVars
<1>2. CASE Retire
  <2>1. /\ fe_pipe' = Tail(fe_pipe) /\ retire_ins_count' = retire_ins_count + Len(Head(fe_pipe))
        /\ stage = "retire" /\ stage' = "fetch" /\ UNCHANGED <<fetch_block, steps>>
        BY <1>2 DEF Retire, At, hierVars
  <2>2. fe_pipe \in Seq(Seq(Ins)) /\ fe_pipe # <<>> /\ Len(fe_pipe) = FePipeDepth
        BY <1>0, <2>1 DEF PipeInv
  <2>3. /\ fe_pipe' \in Seq(Seq(Ins)) /\ Len(fe_pipe') = FePipeDepth - 1
        /\ \A n \in DOMAIN fe_pipe' : n + 1 \in DOMAIN fe_pipe /\ fe_pipe'[n] = fe_pipe[n + 1]
        /\ Head(fe_pipe) \in Seq(Ins)
        BY <2>1, <2>2
  <2>4. retire_ins_count' \in Nat
        BY <2>1, <2>3 DEF PipeInv
  <2> QED
      BY <2>1, <2>3, <2>4 DEF PipeInv
<1>3. CASE FetchFirst \/ FetchWait
  <2>1. /\ fe_pipe' = Append(fe_pipe, <<>>) /\ stage = "fetch"
        /\ UNCHANGED <<fetch_block, steps, retire_ins_count>>
        BY <1>3 DEF FetchFirst, FetchWait, At, hierVars
  <2>2. stage' = "end" \/ (stage' = "reading" /\ steps = 0)
        BY <1>3 DEF FetchFirst, FetchWait
  <2>3. /\ fe_pipe' \in Seq(Seq(Ins)) /\ Len(fe_pipe') = FePipeDepth
        /\ \A n \in DOMAIN fe_pipe' : Len(fe_pipe'[n]) <= FePipeWidth
    <3>1. Len(<<>>) <= FePipeWidth /\ <<>> \in Seq(Ins)
          BY <1>0
    <3> QED
        BY <2>1, <3>1, PipeTakes
  <2>4. stage' = "reading" => Len(fetch_block) < FePipeWidth
        BY <1>0, <2>1, <2>2 DEF PipeInv
  <2> QED
      BY <2>1, <2>2, <2>3, <2>4 DEF PipeInv
<1>4. ASSUME NEW k \in DOMAIN super_in_response_buffer, FetchAnswer(k)
      PROVE  PipeInv'
  <2>1. stage = "fetch" /\ steps # 0 /\ UNCHANGED <<steps, retire_ins_count>>
        BY <1>4 DEF FetchAnswer, At, get_response
  <2>2. \/ fe_pipe' = Append(fe_pipe, fetch_block) /\ fetch_block' = <<>> /\ stage' = "reading"
        \/ fe_pipe' = Append(fe_pipe, <<>>) /\ fetch_block' = fetch_block /\ stage' = "end"
        BY <1>4 DEF FetchAnswer
  <2>3. /\ fe_pipe' \in Seq(Seq(Ins)) /\ Len(fe_pipe') = FePipeDepth
        /\ \A n \in DOMAIN fe_pipe' : Len(fe_pipe'[n]) <= FePipeWidth
    <3>1. Len(fetch_block) <= FePipeWidth /\ Len(<<>>) <= FePipeWidth
          BY <1>0 DEF PipeInv
    <3> QED
        BY <1>0, <2>1, <2>2, <3>1, PipeTakes
  <2>4. Len(fetch_block') <= FePipeWidth /\ (stage' = "reading" => Len(fetch_block') < FePipeWidth)
        BY <1>0, <2>2 DEF PipeInv
  <2> QED
      BY <2>1, <2>2, <2>3, <2>4 DEF PipeInv
<1>5. ASSUME temp_ins # NULL, NEW next, ReadIns(next)
      PROVE  PipeInv'
  <2>1. /\ stage = "reading" /\ temp_ins \in Ins /\ fetch_block' = Append(fetch_block, temp_ins)
        /\ UNCHANGED <<fe_pipe, retire_ins_count, steps>>
        BY <1>5 DEF ReadIns, At, CpuTypes, hierVars
  <2>2. Len(fetch_block') = Len(fetch_block) + 1 /\ Len(fetch_block) \in Nat
        BY <1>0, <2>1
  <2>3. stage' \in {"send", "reading"} /\ (stage' = "reading" => Len(fetch_block') # FePipeWidth)
        BY <1>5 DEF ReadIns
  <2> QED
      BY <1>0, <2>1, <2>2, <2>3 DEF PipeInv
<1>6. CASE TraceEnd \/ SendFetch \/ NextStep
  <2>1. /\ UNCHANGED <<fe_pipe, fetch_block, retire_ins_count>>
        /\ stage' \in {"crashed", "end", "retire"} /\ stage \in {"reading", "send", "end"}
        /\ stage' = "retire" => steps' = steps + 1
        BY <1>6 DEF TraceEnd, SendFetch, NextStep, EndCycle, At
  <2> QED
      BY <1>0, <2>1 DEF PipeInv
<1> QED
    BY <1>1, <1>2, <1>3, <1>4, <1>5, <1>6
       DEF InOrderNext, Work, CpuStep, FetchPart, ReadPart, Crashed

LEMMA EmptyPipe ==
  ASSUME InOrderInit
  PROVE  fe_pipe \in Seq(Seq(Ins)) /\ Len(fe_pipe) = FePipeDepth /\ InPipe = <<>>
         /\ \A n \in DOMAIN fe_pipe : fe_pipe[n] = <<>>
<1>1. /\ FePipeDepth \in Nat /\ <<>> \in Seq(Ins)
      /\ fe_pipe = [n \in 1 .. FePipeDepth |-> <<>>]
      BY InOrderAssumption DEF InOrderInit
<1>2. fe_pipe \in Seq(Seq(Ins)) /\ Len(fe_pipe) = FePipeDepth /\ DOMAIN fe_pipe = 1 .. FePipeDepth
      BY <1>1
<1> DEFINE p == [j \in 0 .. Len(fe_pipe) |-> <<>>]
<1>3. p \in Prefixes(Ins, fe_pipe)
  <2>1. p \in [0 .. Len(fe_pipe) -> Seq(Ins)] /\ p[0] = <<>>
        BY <1>1, <1>2
  <2>2. ASSUME NEW j \in 1 .. Len(fe_pipe) PROVE p[j] = p[j - 1] \o fe_pipe[j]
    <3>1. p[j] = <<>> /\ p[j - 1] = <<>> /\ fe_pipe[j] = <<>>
          BY <1>1, <1>2
    <3>2. <<>> \o <<>> = <<>>
          BY <1>1
    <3> HIDE DEF p
    <3> QED
        BY <3>1, <3>2
  <2> HIDE DEF p
  <2> QED
      BY <2>1, <2>2 DEF Prefixes, PrefixesTo
<1>4. p[Len(fe_pipe)] = <<>>
      BY <1>1, <1>2
<1> HIDE DEF p
<1>5. InPipe = <<>>
      BY <1>2, <1>3, <1>4, FlattenIsPrefix DEF InPipe
<1> QED
    BY <1>1, <1>2, <1>5

LEMMA PipeInvariant == InOrderSpec => []PipeInv
<1>1. ASSUME InOrderInit PROVE PipeInv
  <2>1. /\ FePipeWidth \in Nat \ {0} /\ Len(<<>>) = 0
        /\ stage = "retire" /\ retire_ins_count = 0 /\ fetch_block = <<>>
        BY <1>1, InOrderAssumption DEF InOrderInit
  <2> QED
      BY <1>1, <2>1, EmptyPipe DEF PipeInv
<1>2. HierTypeOK /\ CpuTypes /\ PipeInv /\ [InOrderNext]_inOrderVars => PipeInv'
      BY PipeInvNext
<1>3. InOrderSpec => []HierTypeOK
      BY CpuDrivesHierarchy, HierTypeCorrect, PTL
<1> QED
    BY <1>1, <1>2, <1>3, CpuTypesInvariant, PTL DEF InOrderSpec

-----------------------------------------------------------------------------
(* The queue that the pipe and the block make up.                          *)
InWindow == InPipe \o fetch_block

InPipeStep == Pipe!FrontEndNext \/ UNCHANGED Pipe!frontEndVars

(* What the steps below know of the two.                                   *)
InPipeTypes ==
  /\ fe_pipe \in Seq(Seq(Ins)) /\ fetch_block \in Seq(Ins) /\ retire_ins_count \in Nat

LEMMA InPipeType ==
  ASSUME InPipeTypes
  PROVE  InPipe \in Seq(Ins) /\ InWindow \in Seq(Ins)
<1>1. InPipe \in Seq(Ins) /\ fetch_block \in Seq(Ins)
      BY FlattenType DEF InPipe, InPipeTypes
<1> QED
    BY <1>1, ConcatProperties DEF InWindow

LEMMA InWindowStands ==
  ASSUME InWindow' = InWindow, UNCHANGED <<temp_ins, retire_ins_count>>
  PROVE  InPipeStep
BY DEF InPipeStep, Pipe!frontEndVars, InWindow, InPipe

(* What retires is the front of the queue.                                 *)
LEMMA RetireTakesFront ==
  ASSUME InPipeTypes, PipeInv, Retire
  PROVE  InPipeStep
<1> DEFINE h == Head(fe_pipe)
           t == Tail(fe_pipe)
           F == SeqExt!FlattenSeq(t)
           k == Len(h)
<1>1. /\ fe_pipe \in Seq(Seq(Ins)) /\ fe_pipe # <<>> /\ fetch_block \in Seq(Ins)
      /\ Len(h) <= FePipeWidth
  <2>1. stage = "retire" /\ FePipeDepth \in Nat \ {0}
        BY InOrderAssumption DEF Retire, At
  <2>2. fe_pipe \in Seq(Seq(Ins)) /\ fe_pipe # <<>> /\ 1 \in DOMAIN fe_pipe
        BY <2>1 DEF PipeInv, InPipeTypes
  <2>3. h = fe_pipe[1]
        BY <2>2
  <2> QED
      BY <2>2, <2>3 DEF PipeInv, InPipeTypes
<1>2. h \in Seq(Ins) /\ t \in Seq(Seq(Ins)) /\ k \in Nat
      BY <1>1
<1>3. /\ fe_pipe' = t /\ retire_ins_count' = retire_ins_count + k
      /\ UNCHANGED <<temp_ins, fetch_block>>
      BY DEF Retire
<1>4. InPipe = h \o F
      BY <1>1, FlattenHead DEF InPipe
<1>5. F \in Seq(Ins)
      BY <1>2, FlattenType
<1>6. InPipe' = F
      BY <1>3, Zenon DEF InPipe
<1> HIDE DEF h, t, F
<1>7. InWindow = h \o (F \o fetch_block) /\ F \o fetch_block \in Seq(Ins)
  <2>1. Associates(h, F, fetch_block)
        BY <1>1, <1>2, <1>5, ConcatAssociates
  <2> QED
      BY <1>1, <1>4, <1>5, <2>1, ConcatProperties DEF InWindow, Associates
<1>8. InWindow' = F \o fetch_block
      BY <1>3, <1>6, Zenon DEF InWindow
<1> DEFINE rest == F \o fetch_block
<1> HIDE DEF rest
<1>9. InWindow = h \o rest /\ InWindow' = rest /\ rest \in Seq(Ins)
      BY <1>7, <1>8 DEF rest
<1>10. SubSeq(InWindow, k + 1, Len(InWindow)) = rest /\ k <= Len(InWindow)
  <2>1. k \in 0 .. Len(h)
        BY <1>2
  <2>2. SubSeq(h \o rest, k + 1, Len(h \o rest)) = SubSeq(h, k + 1, Len(h)) \o rest
        BY <1>2, <1>9, <2>1, ConcatDropFront
  <2>3. SubSeq(h, k + 1, Len(h)) = <<>>
        BY <1>2, SubSeqEmpty
  <2>4. <<>> \o rest = rest
        BY <1>9, ConcatEmptySeq
  <2>5. Len(h \o rest) = k + Len(rest) /\ Len(rest) \in Nat
        BY <1>2, <1>9
  <2> QED
      BY <1>2, <1>9, <2>2, <2>3, <2>4, <2>5
<1>11. CASE k = 0
  <2>1. h = <<>>
        BY <1>2, <1>11
  <2>2. <<>> \o rest = rest
        BY <1>9, ConcatEmptySeq
  <2>3. InWindow' = InWindow
        BY <1>9, <2>1, <2>2
  <2>4. retire_ins_count' = retire_ins_count
        BY <1>3, <1>11 DEF InPipeTypes
  <2> QED
      BY <1>3, <2>3, <2>4, InWindowStands
<1>12. CASE k # 0
  <2>1. k \in 1 .. FePipeWidth
        BY <1>1, <1>2, <1>12, InOrderAssumption
  <2>2. InWindow' = SubSeq(InWindow, k + 1, Len(InWindow))
        BY <1>9, <1>10
  <2>3. Pipe!Decode(k)
        BY <1>3, <2>2 DEF Pipe!Decode, InWindow, InPipe
  <2>4. k <= Len(InWindow)
        BY <1>10
  <2> QED
      BY <2>1, <2>3, <2>4 DEF InPipeStep, Pipe!FrontEndNext, InWindow, InPipe
<1> QED
    BY <1>11, <1>12

(* A bubble enters the pipe, or the block does.                            *)
LEMMA FetchKeepsWindow ==
  ASSUME InPipeTypes,
         \/ fe_pipe' = Append(fe_pipe, <<>>) /\ fetch_block' = fetch_block
         \/ fe_pipe' = Append(fe_pipe, fetch_block) /\ fetch_block' = <<>>,
         UNCHANGED <<temp_ins, retire_ins_count>>
  PROVE  InPipeStep
<1>1. fe_pipe \in Seq(Seq(Ins)) /\ fetch_block \in Seq(Ins) /\ <<>> \in Seq(Ins) /\ InPipe \in Seq(Ins)
      BY InPipeType DEF InPipeTypes
<1>2. ASSUME NEW b \in Seq(Ins), fe_pipe' = Append(fe_pipe, b)
      PROVE  InPipe' = InPipe \o b
      BY <1>1, <1>2, FlattenAppend DEF InPipe
<1>3. CASE fe_pipe' = Append(fe_pipe, <<>>) /\ fetch_block' = fetch_block
  <2>1. InPipe' = InPipe \o <<>> /\ InPipe \o <<>> = InPipe
        BY <1>1, <1>2, <1>3, ConcatEmptySeq
  <2> QED
      BY <1>3, <2>1, InWindowStands DEF InWindow
<1>4. CASE fe_pipe' = Append(fe_pipe, fetch_block) /\ fetch_block' = <<>>
  <2>1. InPipe' = InPipe \o fetch_block
        BY <1>1, <1>2, <1>4
  <2>2. InWindow' = InWindow \o <<>> 
        BY <1>4, <2>1 DEF InWindow
  <2>3. InWindow \o <<>> = InWindow
        BY InPipeType, ConcatEmptySeq
  <2> QED
      BY <2>2, <2>3, InWindowStands
<1> QED
    BY <1>3, <1>4

LEMMA InPipeNextStep ==
  ASSUME InPipeTypes, CpuTypes, PipeInv, [InOrderNext]_inOrderVars
  PROVE  InPipeStep
<1>1. CASE \/ HierStep /\ UNCHANGED cpuVars
           \/ SendFetch \/ NextStep \/ UNCHANGED inOrderVars
  <2>1. UNCHANGED <<temp_ins, fe_pipe, fetch_block, retire_ins_count>>
        BY <1>1 DEF SendFetch, NextStep, inOrderVars, cpuVars
  <2> QED
      BY <2>1, InWindowStands DEF InWindow, InPipe
<1>2. CASE Retire
      BY <1>2, RetireTakesFront
<1>3. CASE FetchFirst \/ FetchWait
      BY <1>3, FetchKeepsWindow DEF FetchFirst, FetchWait
<1>4. ASSUME NEW k \in DOMAIN super_in_response_buffer, FetchAnswer(k)
      PROVE  InPipeStep
      BY <1>4, FetchKeepsWindow DEF FetchAnswer
<1>5. ASSUME temp_ins # NULL,
             NEW next \in parse_ins(temp_ins.n + 1), ReadIns(next)
      PROVE  InPipeStep
  <2>1. temp_ins \in Ins /\ next \in Ins /\ next.n = temp_ins.n + 1
        BY <1>5 DEF CpuTypes, ReadIns, parse_ins, Ins
  <2>2. /\ temp_ins' = next /\ fetch_block' = Append(fetch_block, temp_ins)
        /\ UNCHANGED <<fe_pipe, retire_ins_count>>
        BY <1>5 DEF ReadIns
  <2>3. InPipe \o Append(fetch_block, temp_ins) = Append(InWindow, temp_ins)
        BY <2>1, InPipeType, AppendLast DEF InPipeTypes, InWindow
  <2>4. InWindow' = Append(InWindow, temp_ins)
        BY <2>2, <2>3 DEF InWindow, InPipe
  <2>5. Pipe!Read
        BY <1>5, <2>1, <2>2, <2>4 DEF Pipe!Read, InWindow, InPipe
  <2> QED
      BY <2>5 DEF InPipeStep, Pipe!FrontEndNext
<1>6. CASE TraceEnd
  <2>1. Pipe!EndOfTrace
        BY <1>6 DEF TraceEnd, Pipe!EndOfTrace
  <2> QED
      BY <2>1 DEF InPipeStep, Pipe!FrontEndNext
<1> QED
    BY <1>1, <1>2, <1>3, <1>4, <1>5, <1>6
       DEF InOrderNext, Work, CpuStep, FetchPart, ReadPart, Crashed

(* The pipe and the block implement one queue from the trace to            *)
(* retirement: no instruction is lost, repeated or overtaken, whichever of *)
(* the step's branches pushes.                                             *)
THEOREM InOrderIsFrontEnd == InOrderSpec => InOrderPipe
<1>1. InOrderInit => Pipe!FrontEndInit
  <2> SUFFICES ASSUME InOrderInit PROVE Pipe!FrontEndInit
      OBVIOUS
  <2>1. temp_ins \in {ins \in Ins : ins.n = 1} \cup {NULL}
        BY TraceAssumption DEF InOrderInit, parse_ins, Ins
  <2>2. InPipe \o fetch_block = <<>>
        BY EmptyPipe DEF InOrderInit
  <2> QED
      BY <2>1, <2>2 DEF Pipe!FrontEndInit, InOrderInit, InPipe
<1>2. CpuTypes /\ PipeInv => InPipeTypes
      BY DEF CpuTypes, PipeInv, InPipeTypes
<1>3. CpuTypes /\ PipeInv /\ [InOrderNext]_inOrderVars
        => [Pipe!FrontEndNext]_(Pipe!frontEndVars)
      BY <1>2, InPipeNextStep DEF InPipeStep
<1> QED
    BY <1>1, <1>3, CpuTypesInvariant, PipeInvariant, PTL
       DEF InOrderSpec, InOrderPipe, Pipe!FrontEndSpec

-----------------------------------------------------------------------------
(* How much the CPU may have been given by a cycle, which may lie before   *)
(* the first.                                                              *)
Allowed(cycle) == IF cycle < 0 THEN 0 ELSE FePipeWidth * (cycle \div (HitLatency + 1))

LEMMA AllowedGrows ==
  ASSUME NEW a \in Int, NEW b \in Int, a <= b
  PROVE  /\ Allowed(a) \in Nat /\ Allowed(b) \in Nat /\ Allowed(a) <= Allowed(b)
         /\ 0 <= a /\ a + HitLatency < b => Allowed(a) + FePipeWidth <= Allowed(b)
<1> DEFINE n == HitLatency + 1
           x == a \div n
           y == b \div n
           w == FePipeWidth
<1>1. n \in Nat \ {0} /\ w \in Nat
      BY InOrderAssumption, HierarchyAssumption
<1>2. ASSUME 0 <= a
      PROVE  /\ Allowed(a) = w * x /\ Allowed(b) = w * y
             /\ x \in Nat /\ y \in Nat /\ x <= y /\ (a + HitLatency < b => x + 1 <= y)
  <2>1. Allowed(a) = w * x /\ Allowed(b) = w * y
        BY <1>2 DEF Allowed
  <2>2. a \in Nat /\ b \in Nat /\ a + 0 * n <= b /\ (a + HitLatency < b => a + 1 * n <= b)
        BY <1>1, <1>2, HierarchyAssumption
  <2> HIDE DEF n
  <2>3. x \in Nat /\ y \in Nat
        BY <1>1, <2>2, DivisionParts
  <2>4. x + 0 <= y
        BY <1>1, <2>2, QuotientGrows
  <2>5. a + HitLatency < b => x + 1 <= y
        BY <1>1, <2>2, QuotientGrows
  <2> HIDE DEF x, y, w
  <2> QED
      BY <2>1, <2>3, <2>4, <2>5
<1>3. ASSUME 0 <= b
      PROVE  Allowed(b) = w * y /\ y \in Nat
  <2>1. Allowed(b) = w * y
        BY <1>3 DEF Allowed
  <2>2. b \in Nat
        BY <1>3
  <2> HIDE DEF n
  <2> QED
      BY <1>1, <2>1, <2>2, DivisionParts
<1>4. a < 0 => Allowed(a) = 0
      BY DEF Allowed
<1>5. b < 0 => Allowed(b) = 0
      BY DEF Allowed
<1> HIDE DEF x, y, w, n
<1>6. CASE a < 0
  <2>1. Allowed(b) \in Nat
    <3>1. ASSUME 0 <= b PROVE w * y \in Nat
          BY <1>1, <1>3, <3>1
    <3> QED
        BY <1>3, <1>5, <3>1
  <2> QED
      BY <1>4, <1>6, <2>1
<1>7. CASE 0 <= a
  <2>1. w * x \in Nat /\ w * y \in Nat /\ w * x <= w * y
        BY <1>1, <1>2, <1>7
  <2>2. ASSUME x + 1 <= y PROVE w * x + w <= w * y
    <3>1. w * (x + 1) <= w * y
          BY <1>1, <1>2, <1>7, <2>2
    <3>2. w * (x + 1) = w * x + w
          BY <1>1, <1>2, <1>7
    <3> QED
        BY <3>1, <3>2
  <2> QED
      BY <1>2, <1>7, <2>1, <2>2 DEF w
<1> QED
    BY <1>6, <1>7

(* What has left a pipe and what it holds was allowed when it entered:     *)
(* base is the cycle before the one in which the block entered that will   *)
(* leave next, total counts all that has entered.                          *)
CountsUp(pipe, c) == \A j \in 1 .. Len(pipe) : c[j] = c[j - 1] + Len(pipe[j])

WithinAllowed(pipe, c, base) == \A j \in 0 .. Len(pipe) : c[j] <= Allowed(base + j)

Paced(pipe, left, total, base) ==
  \E c \in [0 .. Len(pipe) -> Nat] :
    /\ c[0] = left /\ c[Len(pipe)] = total
    /\ CountsUp(pipe, c) /\ WithinAllowed(pipe, c, base)

LEMMA PacedTail ==
  ASSUME NEW pipe \in Seq(Seq(Ins)), pipe # <<>>, NEW left \in Nat, NEW total \in Nat, NEW base \in Int,
         Paced(pipe, left, total, base)
  PROVE  Paced(Tail(pipe), left + Len(Head(pipe)), total, base + 1)
<1>1. PICK c \in [0 .. Len(pipe) -> Nat] :
        /\ c[0] = left /\ c[Len(pipe)] = total
        /\ CountsUp(pipe, c) /\ WithinAllowed(pipe, c, base)
      BY DEF Paced
<1> DEFINE t == Tail(pipe)
           n == Len(pipe)
           d == [j \in 0 .. n - 1 |-> c[j + 1]]
<1>2. /\ n \in Nat \ {0} /\ Len(t) = n - 1 /\ Head(pipe) = pipe[1]
      /\ \A j \in 1 .. n - 1 : t[j] = pipe[j + 1]
      BY DEF n
<1>3. /\ \A j \in 1 .. n : c[j] = c[j - 1] + Len(pipe[j])
      /\ \A j \in 0 .. n : c[j] <= Allowed(base + j)
      /\ c[0] = left /\ c[n] = total /\ \A j \in 0 .. n : c[j] \in Nat
      BY <1>1 DEF CountsUp, WithinAllowed
<1> HIDE DEF n, t
<1>4. d \in [0 .. Len(t) -> Nat] /\ \A j \in 0 .. n - 1 : d[j] = c[j + 1]
  <2>1. \A j \in 0 .. n - 1 : d[j] = c[j + 1]
        OBVIOUS
  <2>2. \A j \in 0 .. n - 1 : j + 1 \in 0 .. n
        BY <1>2
  <2>3. \A j \in 0 .. n - 1 : c[j + 1] \in Nat
        BY <1>3, <2>2
  <2>4. d \in [0 .. n - 1 -> Nat]
        BY <2>3
  <2> QED
      BY <1>2, <2>1, <2>4
<1> HIDE DEF d
<1>5. d[0] = left + Len(Head(pipe))
  <2>1. 0 \in 0 .. n - 1 /\ 1 \in 1 .. n /\ 0 + 1 = 1 /\ 1 - 1 = 0
        BY <1>2
  <2>2. d[0] = c[0 + 1] /\ c[1] = c[1 - 1] + Len(pipe[1])
        BY <1>3, <1>4, <2>1
  <2>3. d[0] = c[0] + Len(pipe[1])
        BY <2>1, <2>2
  <2>4. c[0] = left /\ Head(pipe) = pipe[1]
        BY <1>2, <1>3
  <2> QED
      BY <2>3, <2>4
<1>6. d[Len(t)] = total
  <2>1. n - 1 \in 0 .. n - 1 /\ (n - 1) + 1 = n /\ Len(t) = n - 1
        BY <1>2
  <2>2. d[n - 1] = c[(n - 1) + 1]
        BY <1>4, <2>1
  <2> QED
      BY <1>3, <2>1, <2>2
<1>7. ASSUME NEW j \in 1 .. Len(t)
      PROVE  d[j] = d[j - 1] + Len(t[j])
  <2>0. j \in 0 .. n - 1 /\ j - 1 \in 0 .. n - 1 /\ j + 1 \in 1 .. n /\ (j + 1) - 1 = j /\ (j - 1) + 1 = j
        BY <1>2
  <2>1. d[j] = c[j + 1] /\ d[j - 1] = c[j]
        BY <1>4, <2>0
  <2>2. c[j + 1] = c[j] + Len(pipe[j + 1])
        BY <1>3, <2>0
  <2> QED
      BY <1>2, <2>1, <2>2
<1>8. ASSUME NEW j \in 0 .. Len(t)
      PROVE  d[j] <= Allowed((base + 1) + j)
  <2>0. j \in 0 .. n - 1 /\ j + 1 \in 0 .. n
        BY <1>2
  <2>1. d[j] = c[j + 1] /\ c[j + 1] <= Allowed(base + (j + 1))
        BY <1>3, <1>4, <2>0
  <2>2. base + (j + 1) = (base + 1) + j
        BY <1>2
  <2> QED
      BY <2>1, <2>2
<1> QED
    BY <1>4, <1>5, <1>6, <1>7, <1>8 DEF Paced, CountsUp, WithinAllowed, t

LEMMA PacedAppend ==
  ASSUME NEW pipe \in Seq(Seq(Ins)), NEW block \in Seq(Ins),
         NEW left \in Nat, NEW total \in Nat, NEW base \in Int, NEW n \in Nat, n = Len(pipe),
         Paced(pipe, left, total, base), total + Len(block) <= Allowed(base + n + 1)
  PROVE  Paced(Append(pipe, block), left, total + Len(block), base)
<1>1. PICK c \in [0 .. Len(pipe) -> Nat] :
        /\ c[0] = left /\ c[Len(pipe)] = total
        /\ CountsUp(pipe, c) /\ WithinAllowed(pipe, c, base)
      BY DEF Paced
<1> DEFINE t == Append(pipe, block)
           all == total + Len(block)
           d == [j \in 0 .. n + 1 |-> IF j <= n THEN c[j] ELSE all]
<1>2. /\ Len(t) = n + 1 /\ t[n + 1] = block /\ all \in Nat
      /\ \A j \in 1 .. n : t[j] = pipe[j]
      BY AppendProperties
<1>3. /\ \A j \in 1 .. n : c[j] = c[j - 1] + Len(pipe[j])
      /\ \A j \in 0 .. n : c[j] <= Allowed(base + j)
      /\ c[0] = left /\ c[n] = total /\ \A j \in 0 .. n : c[j] \in Nat
      BY <1>1 DEF CountsUp, WithinAllowed
<1> HIDE DEF t
<1>4. /\ d \in [0 .. Len(t) -> Nat] /\ d[n + 1] = all
      /\ \A j \in 0 .. n : d[j] = c[j]
  <2> HIDE DEF all
  <2> QED
      BY <1>2, <1>3
<1> HIDE DEF d
<1>5. d[0] = left /\ d[Len(t)] = all
      BY <1>2, <1>3, <1>4
<1>6. ASSUME NEW j \in 1 .. Len(t)
      PROVE  d[j] = d[j - 1] + Len(t[j])
  <2>1. CASE j <= n
    <3>1. j \in 1 .. n /\ j \in 0 .. n /\ j - 1 \in 0 .. n
          BY <1>2, <2>1
    <3>2. d[j] = c[j] /\ d[j - 1] = c[j - 1] /\ t[j] = pipe[j] /\ c[j] = c[j - 1] + Len(pipe[j])
          BY <1>2, <1>3, <1>4, <3>1
    <3> QED
        BY <3>2
  <2>2. CASE j = n + 1
    <3>0. j - 1 = n /\ n \in 0 .. n
          BY <2>2
    <3>1. d[j] = all /\ d[j - 1] = c[n] /\ t[j] = block
          BY <1>2, <1>4, <2>2, <3>0
    <3>2. all = c[n] + Len(block)
          BY <1>3 DEF all
    <3> HIDE DEF all
    <3> QED
        BY <3>1, <3>2, Zenon
  <2>3. j <= n \/ j = n + 1
        BY <1>2
  <2> QED
      BY <2>1, <2>2, <2>3, Zenon
<1>7. ASSUME NEW j \in 0 .. Len(t)
      PROVE  d[j] <= Allowed(base + j)
  <2>1. CASE j <= n
        BY <1>3, <1>4, <2>1
  <2>2. CASE j = n + 1
    <3>1. base + j = base + n + 1
          BY <2>2
    <3> QED
        BY <1>4, <2>2, <3>1 DEF all
  <2> QED
      BY <1>2, <2>1, <2>2
<1> QED
    BY <1>4, <1>5, <1>6, <1>7 DEF Paced, CountsUp, WithinAllowed, t, all

LEMMA PacedEmpty ==
  ASSUME NEW pipe \in Seq(Seq(Ins)), \A n \in DOMAIN pipe : pipe[n] = <<>>, NEW base \in Int
  PROVE  Paced(pipe, 0, 0, base)
<1> DEFINE c == [j \in 0 .. Len(pipe) |-> 0]
<1>1. c \in [0 .. Len(pipe) -> Nat] /\ \A j \in 0 .. Len(pipe) : c[j] = 0
      OBVIOUS
<1>2. Len(pipe) \in Nat /\ DOMAIN pipe = 1 .. Len(pipe)
      OBVIOUS
<1> HIDE DEF c
<1>3. CountsUp(pipe, c)
  <2>1. ASSUME NEW j \in 1 .. Len(pipe) PROVE c[j] = c[j - 1] + Len(pipe[j])
    <3>1. j \in 0 .. Len(pipe) /\ j - 1 \in 0 .. Len(pipe) /\ j \in DOMAIN pipe /\ Len(<<>>) = 0
          BY <1>2
    <3>2. c[j] = 0 /\ c[j - 1] = 0 /\ pipe[j] = <<>>
          BY <1>1, <3>1
    <3> QED
        BY <3>1, <3>2
  <2> QED
      BY <2>1 DEF CountsUp
<1>4. WithinAllowed(pipe, c, base)
  <2>1. ASSUME NEW j \in 0 .. Len(pipe) PROVE c[j] <= Allowed(base + j)
    <3>1. c[j] = 0 /\ base + j \in Int
          BY <1>1, <1>2
    <3>2. Allowed(base + j) \in Nat
          BY <3>1, AllowedGrows
    <3> QED
        BY <3>1, <3>2
  <2> QED
      BY <2>1 DEF WithinAllowed
<1> QED
    BY <1>1, <1>2, <1>3, <1>4 DEF Paced

(* All that has been retired or is in the pipe.                            *)
Entered == retire_ins_count + Len(InPipe)

(* The cycle before the one in which the pipe's next block entered.        *)
Base == IF stage = "retire" THEN (steps - 1) - FePipeDepth ELSE steps - FePipeDepth

PaceInv ==
  /\ Entered <= Allowed(steps)
  /\ \A r \in DOMAIN cache_out_request_buffer : Entered <= Allowed(asked[r])
  /\ Paced(fe_pipe, retire_ins_count, Entered, Base)

LEMMA PaceTypes ==
  ASSUME HierTypeOK, CpuTypes, PipeInv
  PROVE  /\ steps \in Nat /\ InPipeTypes /\ InPipe \in Seq(Ins) /\ Entered \in Nat
         /\ Base \in Int /\ FePipeDepth \in Nat \ {0}
         /\ \A r \in DOMAIN cache_out_request_buffer : asked[r] \in Nat
<1>1. InPipeTypes
      BY DEF CpuTypes, PipeInv, InPipeTypes
<1>2. InPipe \in Seq(Ins) /\ Len(InPipe) \in Nat /\ retire_ins_count \in Nat
      BY <1>1, InPipeType DEF InPipeTypes
<1>3. Entered \in Nat
      BY <1>2 DEF Entered
<1>4. steps \in Nat /\ \A r \in DOMAIN cache_out_request_buffer : asked[r] \in Nat
      BY DEF HierTypeOK
<1>5. FePipeDepth \in Nat \ {0}
      BY InOrderAssumption
<1> QED
    BY <1>1, <1>2, <1>3, <1>4, <1>5 DEF Base

(* A step that moves no block.                                             *)
LEMMA PaceStands ==
  ASSUME PaceInv, UNCHANGED <<steps, fe_pipe, retire_ins_count, cache_out_request_buffer, asked>>,
         Base' = Base
  PROVE  PaceInv'
<1>1. InPipe' = InPipe
      BY Zenon DEF InPipe
<1>2. Entered' = Entered
      BY <1>1 DEF Entered
<1>3. Allowed(steps)' = Allowed(steps)
      BY DEF Allowed
<1>4. Paced(fe_pipe, retire_ins_count, Entered, Base)'
      BY <1>2 DEF PaceInv, Paced, CountsUp, WithinAllowed, Allowed
<1> QED
    BY <1>2, <1>3, <1>4 DEF PaceInv, Allowed

(* Retirement: the front block is counted on the other side.               *)
LEMMA RetirePaced ==
  ASSUME HierTypeOK, CpuTypes, PipeInv, PaceInv, Retire
  PROVE  PaceInv'
<1> DEFINE h == Head(fe_pipe)
           t == Tail(fe_pipe)
<1>1. /\ fe_pipe' = t /\ retire_ins_count' = retire_ins_count + Len(h)
      /\ UNCHANGED <<steps, cache_out_request_buffer, asked>>
      /\ stage = "retire" /\ stage' = "fetch"
      BY DEF Retire, At, hierVars, mmuVars
<1>2. /\ fe_pipe \in Seq(Seq(Ins)) /\ fe_pipe # <<>>
      /\ retire_ins_count \in Nat /\ steps \in Nat /\ FePipeDepth \in Nat \ {0}
      /\ Entered \in Nat /\ Base \in Int
      BY <1>1, PaceTypes, InOrderAssumption DEF PipeInv
<1>3. Entered' = Entered
  <2>1. InPipe = h \o SeqExt!FlattenSeq(t) /\ InPipe' = SeqExt!FlattenSeq(t)
        BY <1>1, <1>2, FlattenHead DEF InPipe
  <2>2. h \in Seq(Ins) /\ t \in Seq(Seq(Ins))
        BY <1>2
  <2>3. SeqExt!FlattenSeq(t) \in Seq(Ins)
        BY <2>2, FlattenType
  <2> HIDE DEF h, t
  <2>4. Len(InPipe) = Len(h) + Len(InPipe') /\ Len(h) \in Nat /\ Len(InPipe') \in Nat
        BY <2>1, <2>2, <2>3, ConcatProperties
  <2> QED
      BY <1>1, <1>2, <2>4 DEF Entered
<1>4. Base' = Base + 1
      BY <1>1, <1>2 DEF Base
<1>5. Paced(t, retire_ins_count + Len(h), Entered, Base + 1)
      BY <1>2, PacedTail DEF PaceInv
<1> HIDE DEF h, t
<1>6. Paced(fe_pipe, retire_ins_count, Entered, Base)'
      BY <1>1, <1>3, <1>4, <1>5 DEF Paced, CountsUp, WithinAllowed, Allowed
<1> QED
    BY <1>1, <1>3, <1>6 DEF PaceInv, Allowed

(* A block enters, or a bubble.                                            *)
LEMMA PushPaced ==
  ASSUME HierTypeOK, CpuTypes, PipeInv, PaceInv, NEW block \in Seq(Ins),
         fe_pipe' = Append(fe_pipe, block), stage = "fetch", stage' # "retire",
         UNCHANGED <<steps, retire_ins_count>>,
         Entered + Len(block) <= Allowed(steps),
         \A r \in DOMAIN cache_out_request_buffer' :
           Entered + Len(block) <= Allowed(asked'[r])
  PROVE  PaceInv'
<1>1. /\ fe_pipe \in Seq(Seq(Ins)) /\ Len(fe_pipe) = FePipeDepth - 1
      /\ retire_ins_count \in Nat /\ steps \in Nat /\ FePipeDepth \in Nat \ {0}
      /\ Entered \in Nat /\ InPipe \in Seq(Ins)
      BY PaceTypes DEF PipeInv
<1>2. Base = steps - FePipeDepth /\ Base' = Base /\ Base \in Int
      BY <1>1 DEF Base
<1>3. Entered' = Entered + Len(block)
  <2>1. InPipe' = InPipe \o block
        BY <1>1, FlattenAppend DEF InPipe
  <2>2. Len(InPipe') = Len(InPipe) + Len(block) /\ Len(InPipe) \in Nat /\ Len(block) \in Nat
        BY <1>1, <2>1, ConcatProperties
  <2> QED
      BY <1>1, <2>2 DEF Entered
<1> DEFINE n == FePipeDepth - 1
<1>4. n \in Nat /\ n = Len(fe_pipe) /\ Base + n + 1 = steps
      BY <1>1, <1>2
<1> HIDE DEF n
<1>5. Paced(fe_pipe, retire_ins_count, Entered, Base)
      BY DEF PaceInv
<1>6. Entered + Len(block) <= Allowed(Base + n + 1)
      BY <1>4
<1>7. Paced(Append(fe_pipe, block), retire_ins_count, Entered + Len(block), Base)
      BY <1>1, <1>2, <1>4, <1>5, <1>6, PacedAppend
<1>8. Paced(fe_pipe, retire_ins_count, Entered, Base)'
      BY <1>2, <1>3, <1>7 DEF Paced, CountsUp, WithinAllowed, Allowed
<1>9. /\ (Entered <= Allowed(steps))'
      /\ (\A r \in DOMAIN cache_out_request_buffer : Entered <= Allowed(asked[r]))'
      BY <1>3 DEF Allowed
<1> QED
    BY <1>8, <1>9 DEF PaceInv

(* An answer is a round trip later than its request, which is a block's    *)
(* worth of allowance.                                                     *)
LEMMA AnswerPaced ==
  ASSUME HierInv, HierTypeOK, CpuTypes, PipeInv, AtMostOne, PaceInv,
         NEW k \in DOMAIN super_in_response_buffer, FetchAnswer(k)
  PROVE  PaceInv'
<1> DEFINE a == super_in_response_buffer[k]
<1>1. /\ stage = "fetch" /\ stage' \in {"reading", "end"} /\ k <= steps
      /\ UNCHANGED <<steps, retire_ins_count>>
      /\ cache_out_request_buffer' = Erase(cache_out_request_buffer, a)
      BY DEF FetchAnswer, At, get_response, Due
<1>2. a \in DOMAIN cache_out_request_buffer
      BY AnsweredIsOut
<1>3. DOMAIN cache_out_request_buffer' = {}
      BY <1>1, <1>2 DEF Erase, AtMostOne
<1>4. /\ asked[a] \in Nat /\ steps \in Nat /\ k \in Nat /\ asked[a] + HitLatency < k
      /\ Entered \in Nat /\ HitLatency \in Nat /\ FePipeWidth \in Nat
      BY <1>2, PaceTypes, HierarchyAssumption, InOrderAssumption DEF HierInv, Timing, HierTypeOK
<1>5. Entered <= Allowed(asked[a])
      BY <1>2 DEF PaceInv
<1> HIDE DEF a
<1>6. Allowed(asked[a]) + FePipeWidth <= Allowed(steps) /\ Allowed(asked[a]) \in Nat /\ Allowed(steps) \in Nat
  <2>1. asked[a] \in Int /\ steps \in Int /\ asked[a] <= steps /\ 0 <= asked[a]
        /\ asked[a] + HitLatency < steps
        BY <1>1, <1>4
  <2> QED
      BY <2>1, AllowedGrows
<1>7. ASSUME NEW block \in Seq(Ins), Len(block) <= FePipeWidth, fe_pipe' = Append(fe_pipe, block)
      PROVE  PaceInv'
  <2>1. Len(block) \in Nat
        OBVIOUS
  <2>2. Entered + Len(block) <= Allowed(steps)
        BY <1>4, <1>5, <1>6, <1>7, <2>1
  <2> QED
      BY <1>1, <1>3, <1>7, <2>2, PushPaced
<1>8. fe_pipe' = Append(fe_pipe, fetch_block) \/ fe_pipe' = Append(fe_pipe, <<>>)
      BY DEF FetchAnswer
<1>9. /\ fetch_block \in Seq(Ins) /\ Len(fetch_block) <= FePipeWidth
      /\ <<>> \in Seq(Ins) /\ Len(<<>>) <= FePipeWidth
      BY <1>4 DEF CpuTypes, PipeInv
<1> QED
    BY <1>7, <1>8, <1>9

LEMMA WaitPaced ==
  ASSUME HierTypeOK, CpuTypes, PipeInv, PaceInv, FetchFirst \/ FetchWait
  PROVE  PaceInv'
<1>1. /\ fe_pipe' = Append(fe_pipe, <<>>) /\ stage = "fetch" /\ stage' # "retire"
      /\ UNCHANGED <<steps, retire_ins_count, cache_out_request_buffer, asked>>
      BY DEF FetchFirst, FetchWait, At, hierVars, mmuVars
<1>2. Entered \in Nat /\ <<>> \in Seq(Ins) /\ Len(<<>>) = 0
      BY PaceTypes
<1>3. Entered + Len(<<>>) = Entered
      BY <1>2
<1>4. /\ Entered + Len(<<>>) <= Allowed(steps)
      /\ \A r \in DOMAIN cache_out_request_buffer' : Entered + Len(<<>>) <= Allowed(asked'[r])
      BY <1>1, <1>3 DEF PaceInv
<1> QED
    BY <1>1, <1>2, <1>4, PushPaced

(* A request is made with what has entered by its own cycle.               *)
LEMMA SendPaced ==
  ASSUME HierTypeOK, CpuTypes, PipeInv, PaceInv, SendFetch
  PROVE  PaceInv'
<1>1. /\ stage = "send" /\ stage' = "end" /\ UNCHANGED <<steps, fe_pipe, retire_ins_count>>
      BY DEF SendFetch, At, send_request, hierVars
<1>2. Base' = Base
      BY <1>1 DEF Base
<1>3. CASE CacheFull
      BY <1>1, <1>2, <1>3, PaceStands DEF SendFetch, hierVars, mmuVars
<1>4. CASE ~ CacheFull
  <2>1. PICK r \in Requests : send_request(r, Head(fetch_block).ia)
        BY <1>4 DEF SendFetch
  <2>2. /\ DOMAIN cache_out_request_buffer' = DOMAIN cache_out_request_buffer \cup {r}
        /\ asked' = Put(asked, r, steps)
        /\ DOMAIN asked = DOMAIN cache_out_request_buffer
        BY <2>1 DEF send_request, Put, HierTypeOK
  <2>3. InPipe' = InPipe
        BY <1>1, Zenon DEF InPipe
  <2>4. Entered' = Entered
        BY <1>1, <2>3 DEF Entered
  <2>5. (Entered <= Allowed(steps))'
        BY <1>1, <2>4 DEF PaceInv, Allowed
  <2>6. ASSUME NEW q \in DOMAIN cache_out_request_buffer'
        PROVE  Entered <= Allowed(asked'[q])
    <3>1. asked'[q] = IF q = r THEN steps ELSE asked[q]
          BY <2>2 DEF Put
    <3> QED
        BY <2>2, <3>1 DEF PaceInv
  <2>7. (\A q \in DOMAIN cache_out_request_buffer : Entered <= Allowed(asked[q]))'
        BY <2>4, <2>6 DEF Allowed
  <2>8. Paced(fe_pipe, retire_ins_count, Entered, Base)'
        BY <1>1, <1>2, <2>4 DEF PaceInv, Paced, CountsUp, WithinAllowed, Allowed
  <2> QED
      BY <2>5, <2>7, <2>8 DEF PaceInv
<1> QED
    BY <1>3, <1>4

LEMMA NextStepPaced ==
  ASSUME HierTypeOK, CpuTypes, PipeInv, PaceInv, NextStep
  PROVE  PaceInv'
<1>1. /\ stage = "end" /\ stage' = "retire" /\ steps' = steps + 1
      /\ UNCHANGED <<fe_pipe, retire_ins_count, cache_out_request_buffer, asked>>
      BY DEF NextStep, At, EndCycle, mmuVars
<1>2. steps \in Nat /\ FePipeDepth \in Nat /\ Entered \in Nat
      BY PaceTypes
<1>3. Base' = Base
      BY <1>1, <1>2 DEF Base
<1>4. InPipe' = InPipe
      BY <1>1, Zenon DEF InPipe
<1>5. Entered' = Entered
      BY <1>1, <1>4 DEF Entered
<1>6. Entered <= Allowed(steps')
  <2>1. steps \in Int /\ steps' \in Int /\ steps <= steps'
        BY <1>1, <1>2
  <2>2. Allowed(steps) \in Nat /\ Allowed(steps') \in Nat /\ Allowed(steps) <= Allowed(steps')
    <3>1. ASSUME NEW b \in Int, steps <= b
          PROVE  Allowed(steps) \in Nat /\ Allowed(b) \in Nat /\ Allowed(steps) <= Allowed(b)
          BY <2>1, <3>1, AllowedGrows
    <3> QED
        BY <2>1, <3>1
  <2> QED
      BY <1>2, <2>2 DEF PaceInv
<1>7. (Entered <= Allowed(steps))'
      BY <1>5, <1>6 DEF Allowed
<1>8. (\A r \in DOMAIN cache_out_request_buffer : Entered <= Allowed(asked[r]))'
      BY <1>1, <1>5 DEF PaceInv, Allowed
<1>9. Paced(fe_pipe, retire_ins_count, Entered, Base)'
      BY <1>1, <1>3, <1>5 DEF PaceInv, Paced, CountsUp, WithinAllowed, Allowed
<1> QED
    BY <1>7, <1>8, <1>9 DEF PaceInv

LEMMA PaceInvNext ==
  ASSUME HierInv, HierTypeOK, CpuTypes, PipeInv, AtMostOne, PaceInv, [InOrderNext]_inOrderVars
  PROVE  PaceInv'
<1>1. CASE (HierStep /\ UNCHANGED cpuVars) \/ UNCHANGED inOrderVars
  <2>1. UNCHANGED <<steps, cpuVars, cache_out_request_buffer, asked>>
        BY <1>1 DEF HierStep, FillPart, LookupPart, MemoryPart, NoResponse, FillResponse,
                    FailedResponse, NoLookup, LookupHit, LookupMiss, MemoryIdle, MemoryServe,
                    inOrderVars, hierVars, mmuVars
  <2> QED
      BY <2>1, PaceStands DEF Base, cpuVars
<1>2. CASE ReadPart
  <2>1. /\ UNCHANGED <<steps, fe_pipe, retire_ins_count, cache_out_request_buffer, asked>>
        /\ stage # "retire" /\ stage' # "retire"
        BY <1>2 DEF ReadPart, TraceEnd, ReadIns, At, hierVars, mmuVars
  <2> QED
      BY <2>1, PaceStands DEF Base
<1> QED
    BY <1>1, <1>2, RetirePaced, WaitPaced, AnswerPaced, SendPaced, NextStepPaced
       DEF InOrderNext, Work, CpuStep, FetchPart, Crashed

(* Every block pays for a round trip of its own, and retires no sooner     *)
(* than the depth of the pipe later.                                       *)
THEOREM FetchPacedAlways == InOrderSpec => []FetchPaced
<1>1. InOrderInit => PaceInv
  <2> SUFFICES ASSUME InOrderInit PROVE PaceInv
      OBVIOUS
  <2>1. /\ steps = 0 /\ DOMAIN cache_out_request_buffer = {} /\ retire_ins_count = 0
        /\ stage = "retire" /\ FePipeDepth \in Nat
        BY InOrderAssumption DEF InOrderInit, HierInit
  <2>2. /\ fe_pipe \in Seq(Seq(Ins)) /\ InPipe = <<>> /\ \A n \in DOMAIN fe_pipe : fe_pipe[n] = <<>>
        BY EmptyPipe
  <2>3. Entered = 0
        BY <2>1, <2>2 DEF Entered
  <2>4. Base \in Int
        BY <2>1 DEF Base
  <2>5. Paced(fe_pipe, retire_ins_count, Entered, Base)
        BY <2>1, <2>2, <2>3, <2>4, PacedEmpty
  <2>6. Allowed(steps) \in Nat
        BY <2>1, AllowedGrows
  <2> QED
      BY <2>1, <2>3, <2>5, <2>6 DEF PaceInv
<1>2. HierInv /\ HierTypeOK /\ CpuTypes /\ PipeInv /\ AtMostOne /\ PaceInv /\ [InOrderNext]_inOrderVars
        => PaceInv'
      BY PaceInvNext
<1>3. InOrderSpec => [](HierInv /\ HierTypeOK)
      BY CpuDrivesHierarchy, HierInvariant, HierTypeCorrect, PTL
<1>4. ASSUME HierTypeOK, CpuTypes, PipeInv, PaceInv
      PROVE  FetchPaced
  <2>1. steps \in Nat /\ FePipeDepth \in Nat /\ Base \in Int
        BY <1>4, PaceTypes
  <2>2. \A cycle \in Nat : Allowed(cycle) = FePipeWidth * (cycle \div (HitLatency + 1))
        BY DEF Allowed
  <2>3. Entered <= FePipeWidth * (steps \div (HitLatency + 1))
        BY <1>4, <2>1, <2>2 DEF PaceInv
  <2>4. ASSUME steps >= FePipeDepth
        PROVE  retire_ins_count <= FePipeWidth * ((steps - FePipeDepth) \div (HitLatency + 1))
    <3>1. PICK c \in [0 .. Len(fe_pipe) -> Nat] :
            c[0] = retire_ins_count /\ WithinAllowed(fe_pipe, c, Base)
          BY <1>4 DEF PaceInv, Paced
    <3>2. 0 \in 0 .. Len(fe_pipe) /\ Base + 0 = Base
          BY <1>4, <2>1 DEF PipeInv
    <3>3. retire_ins_count <= Allowed(Base) /\ retire_ins_count \in Nat
          BY <1>4, <3>1, <3>2 DEF WithinAllowed, PipeInv
    <3> DEFINE last == steps - FePipeDepth
    <3>4. last \in Nat /\ last \in Int /\ Base <= last
          BY <2>1, <2>4 DEF Base
    <3> HIDE DEF last
    <3>5. Allowed(Base) \in Nat /\ Allowed(last) \in Nat /\ Allowed(Base) <= Allowed(last)
          BY <2>1, <3>4, AllowedGrows
    <3>6. retire_ins_count <= Allowed(last)
          BY <3>3, <3>5
    <3> QED
        BY <2>2, <3>4, <3>6 DEF last
  <2> QED
      BY <2>3, <2>4 DEF FetchPaced, Entered, InPipe
<1> QED
    BY <1>1, <1>2, <1>3, <1>4, CpuTypesInvariant, PipeInvariant, AtMostOneInvariant, PTL
       DEF InOrderSpec
=============================================================================
