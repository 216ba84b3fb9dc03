--------------------------- MODULE SimReportProofs --------------------------
(***************************************************************************)
(* Proofs about the whole simulator: with the predictor and the counters   *)
(* it is the one of RunaheadSim, so that what is proved there holds here;  *)
(* the cache counts each request of fetch once; and mispredictions cost    *)
(* cycles, and misses stalls, whatever the predictor and the cache answer. *)
(***************************************************************************)
EXTENDS SimReport, RunaheadSimProofs

-----------------------------------------------------------------------------
(* Every step is one of RunaheadSim's, or leaves its variables alone.      *)

LEMMA ServedIsCacheStep ==
  ASSUME CacheCounts
  PROVE  CacheStep /\ UNCHANGED cpuVars
<1>1. CASE NotServed
      BY <1>1 DEF NotServed, CacheCounts, CacheStep, FetchStep, PrefetchStep
<1>2. CASE \E line \in Lines : Served(line)
      BY <1>2 DEF Served, CacheCounts, CacheStep, FetchStep, PrefetchStep
<1> QED
    BY <1>1, <1>2 DEF CacheCounts

LEMMA ReportStep ==
  ASSUME [ReportNext]_reportVars
  PROVE  [SimNext]_simVars
<1>1. CASE CacheCounts
      BY <1>1, ServedIsCacheStep DEF SimNext, Work
<1>2. CASE Control
      BY <1>2 DEF Control, SimNext, Work, CpuStep, PredictStage
<1>3. CASE OtherStep
      BY <1>3 DEF OtherStep, ReadPart, SimNext, Work, CpuStep, PredictStage
<1>4. CASE UNCHANGED reportVars
      BY <1>4 DEF reportVars
<1> QED
    BY <1>1, <1>2, <1>3, <1>4 DEF ReportNext, ReportWork

(* Whatever the predictor is, a run of the whole simulator is one of       *)
(* RunaheadSim's, whose predictor may answer as it likes.                  *)
THEOREM ReportRunsSimulator == ReportSpec => SimInit /\ [][SimNext]_simVars
<1>1. ReportInit => SimInit
      BY DEF ReportInit
<1> QED
    BY <1>1, ReportStep, PTL DEF ReportSpec

(* So the CPU's count of unanswered fetches is right here too, and the     *)
(* invariants that this rests on hold.                                     *)
LEMMA ReportKeepsSimInv == ReportSpec => []SimInv
<1>1. SimInit => SimInv
      BY InitInv, PipelineTypeInit, AccountingInit DEF SimInit, SimInv, ControlHasTarget
<1>2. SimInv /\ [SimNext]_simVars => SimInv'
  <2>1. SimInv /\ [SimNext]_simVars => L1iInv'
        BY CpuStepCalls, NextInv DEF SimNext, Work, Terminating, L1iNext, simVars, SimInv
  <2> QED
      BY <2>1, PipelineTypeNext, ControlHasTargetNext, AccountingNext DEF SimInv
<1> QED
    BY <1>1, <1>2, ReportRunsSimulator, PTL

-----------------------------------------------------------------------------
(* The count of fetch requests.                                            *)

CountTypes ==
  /\ total_requests \in [ReqObj -> Nat] /\ total_misses \in [ReqObj -> Nat]
  /\ fetches_sent \in Nat

FetchQueue == super_in_request_buffer["f"]

LEMMA FetchQueueType ==
  ASSUME SimInv
  PROVE  FetchQueue \in Seq(Lines) /\ fetch_per_block \in Nat
<1>1. super_in_request_buffer \in [ReqObj -> Seq(Lines)] /\ PendingFetches \in Seq(Lines)
      BY PendingType DEF SimInv, L1iInv, CoreTypeOK, QueuesTypeOK
<1> QED
    BY <1>1 DEF FetchQueue, ReqObj, SimInv, FetchAccounting

LEMMA CountedOnePlace ==
  ASSUME CountTypes, NEW obj \in ReqObj, CountHit(obj) \/ CountMiss(obj)
  PROVE  /\ total_requests' \in [ReqObj -> Nat] /\ total_misses' \in [ReqObj -> Nat]
         /\ total_requests'["f"] = total_requests["f"] + IF obj = "f" THEN 1 ELSE 0
BY DEF CountTypes, CountHit, CountMiss, ReqObj

(* A request of fetch that leaves its queue is counted, one of prefetch    *)
(* counts elsewhere.                                                       *)
LEMMA ServedCounted ==
  ASSUME SimInv, CountTypes, FetchRequestsCounted, NEW line \in Lines, Served(line),
         UNCHANGED fetches_sent
  PROVE  CountTypes' /\ FetchRequestsCounted'
<1>1. CASE FetchHit(line) \/ FetchMerge(line) \/ FetchMiss(line)
  <2>1. (CountHit("f") \/ CountMiss("f")) /\ PopRequest("f") /\ FetchQueue # <<>>
        BY <1>1 DEF Served, FetchHit, FetchMerge, FetchMiss, PrefetchMerge, PrefetchHit,
                    PrefetchMiss, Respond, NextRequest, FetchQueue
  <2>2. Len(FetchQueue') = Len(FetchQueue) - 1 /\ Len(FetchQueue) \in Nat
    <3>1. FetchQueue' = Tail(FetchQueue)
          BY <2>1 DEF PopRequest, FetchQueue, SimInv, L1iInv, CoreTypeOK, QueuesTypeOK, ReqObj
    <3> QED
        BY <3>1, <2>1, FetchQueueType
  <2>3. /\ total_requests' \in [ReqObj -> Nat] /\ total_misses' \in [ReqObj -> Nat]
        /\ total_requests'["f"] = total_requests["f"] + 1
        BY <2>1, CountedOnePlace DEF ReqObj
  <2>4. CountTypes'
        BY <2>3 DEF CountTypes
  <2>5. /\ fetches_sent = total_requests["f"] + Len(FetchQueue)
        /\ total_requests["f"] \in Nat
        BY DEF FetchRequestsCounted, FetchQueue, CountTypes, ReqObj
  <2>6. fetches_sent = (total_requests["f"] + 1) + (Len(FetchQueue) - 1)
        BY <2>2, <2>5
  <2>7. fetches_sent' = total_requests'["f"] + Len(FetchQueue')
        BY <2>2, <2>3, <2>6, Zenon
  <2> QED
      BY <2>4, <2>7 DEF FetchRequestsCounted, FetchQueue
<1>2. CASE PrefetchMerge(line) \/ PrefetchHit(line) \/ PrefetchMiss(line)
  <2>1. (CountHit("pf") \/ CountMiss("pf")) /\ PopRequest("pf")
        BY <1>2 DEF Served, FetchHit, FetchMerge, FetchMiss, PrefetchMerge, PrefetchHit,
                    PrefetchMiss
  <2>2. FetchQueue' = FetchQueue
        BY <2>1 DEF PopRequest, FetchQueue, SimInv, L1iInv, CoreTypeOK, QueuesTypeOK, ReqObj
  <2>3. /\ total_requests' \in [ReqObj -> Nat] /\ total_misses' \in [ReqObj -> Nat]
        /\ total_requests'["f"] = total_requests["f"]
        BY <2>1, CountedOnePlace DEF ReqObj, CountTypes
  <2>4. CountTypes'
        BY <2>3 DEF CountTypes
  <2>5. fetches_sent = total_requests["f"] + Len(FetchQueue)
        BY DEF FetchRequestsCounted, FetchQueue
  <2>6. fetches_sent' = total_requests'["f"] + Len(FetchQueue')
        BY <2>2, <2>3, <2>5, Zenon
  <2> QED
      BY <2>4, <2>6 DEF FetchRequestsCounted, FetchQueue
<1> QED
    BY <1>1, <1>2 DEF Served

LEMMA NothingCounted ==
  ASSUME CountTypes, FetchRequestsCounted, FetchQueue' = FetchQueue,
         UNCHANGED <<cacheStats, fetches_sent>>
  PROVE  CountTypes' /\ FetchRequestsCounted'
BY DEF CountTypes, FetchRequestsCounted, FetchQueue, cacheStats

LEMMA PrefetchCallKeepsQueue ==
  ASSUME SimInv, (\E line \in Lines : ClientSend("pf", line)) \/ UNCHANGED l1iVars
  PROVE  FetchQueue' = FetchQueue
<1>1. ASSUME NEW line \in Lines, ClientSend("pf", line)
      PROVE  FetchQueue' = FetchQueue
      BY <1>1 DEF ClientSend, sub_send_request, FetchQueue, SimInv, L1iInv, CoreTypeOK,
                  QueuesTypeOK, ReqObj
<1> QED
    BY <1>1 DEF l1iVars, ioVars, FetchQueue

(* The CPU's count grows exactly with a request that enters the queue.     *)
LEMMA CpuStepCounted ==
  ASSUME SimInv, CountTypes, FetchRequestsCounted, CpuStep, UNCHANGED cacheStats,
         fetches_sent' = fetches_sent + IF fetch_per_block' > fetch_per_block THEN 1 ELSE 0
  PROVE  CountTypes' /\ FetchRequestsCounted'
<1>1. CASE FetchIns
  <2> DEFINE ins_cla == line_of(Head(Head(fetch_buffer)).ia)
  <2>1. /\ ins_cla \in Lines
        /\ IF ins_cla # prev_fetch_cb THEN ClientSend("f", ins_cla) ELSE UNCHANGED l1iVars
        /\ fetch_per_block' = IF ins_cla # prev_fetch_cb THEN fetch_per_block + 1
                                                         ELSE fetch_per_block
        BY <1>1, FetchCall DEF SimInv, FetchIns, fetchVars
  <2>2. CASE ins_cla # prev_fetch_cb
    <3>1. FetchQueue' = Append(FetchQueue, ins_cla)
      <4>1. sub_send_request("f", ins_cla)
            BY <2>1, <2>2 DEF ClientSend
      <4> HIDE DEF ins_cla
      <4> QED
          BY <4>1 DEF sub_send_request, FetchQueue, SimInv, L1iInv, CoreTypeOK,
                      QueuesTypeOK, ReqObj
    <3>2. Len(FetchQueue') = Len(FetchQueue) + 1 /\ Len(FetchQueue) \in Nat
          BY <2>1, <3>1, FetchQueueType
    <3>3. fetches_sent' = fetches_sent + 1
          BY <2>1, <2>2, FetchQueueType
    <3>4. UNCHANGED <<total_requests, total_misses>>
          BY DEF cacheStats
    <3>5. CountTypes'
          BY <3>3, <3>4 DEF CountTypes
    <3>6. /\ fetches_sent = total_requests["f"] + Len(FetchQueue)
          /\ total_requests["f"] \in Nat
          BY DEF FetchRequestsCounted, FetchQueue, CountTypes, ReqObj
    <3>7. fetches_sent + 1 = total_requests["f"] + (Len(FetchQueue) + 1)
          BY <3>2, <3>6
    <3>8. fetches_sent' = total_requests'["f"] + Len(FetchQueue')
          BY <3>2, <3>3, <3>4, <3>7, Zenon
    <3> QED
        BY <3>5, <3>8 DEF FetchRequestsCounted, FetchQueue
  <2>3. CASE ins_cla = prev_fetch_cb
    <3>1. FetchQueue' = FetchQueue
          BY <2>1, <2>3 DEF l1iVars, ioVars, FetchQueue
    <3>2. fetches_sent' = fetches_sent
          BY <2>1, <2>3, FetchQueueType DEF CountTypes
    <3> QED
        BY <3>1, <3>2, NothingCounted
  <2> QED
      BY <2>2, <2>3
<1>2. CASE ~ FetchIns
  <2>1. FetchQueue' = FetchQueue
    <3>1. CASE (\E next : PredictIns(next)) \/ PredictedTaken
          BY <3>1, PredictInsCall, PredictedTakenCall, PrefetchCallKeepsQueue DEF SimInv
    <3>2. CASE ReceiveFetch \/ NextStep
          BY <3>2 DEF ReceiveFetch, NextStep, NextCycle, ioVars, FetchQueue
    <3> QED
        BY <1>2, <3>1, <3>2, QuietActions, PrefetchCallKeepsQueue
           DEF CpuStep, DecodeStage, FetchPart, PredictStage
  <2>2. fetch_per_block' \in Int /\ fetch_per_block' <= fetch_per_block
    <3>1. CASE ReceiveFetch
          BY <3>1, FetchQueueType DEF ReceiveFetch
    <3>2. CASE RetireLimitReached \/ FetchAdvance
          BY <3>2, FetchQueueType DEF RetireLimitReached, FetchAdvance
    <3>3. CASE ~ (ReceiveFetch \/ RetireLimitReached \/ FetchAdvance)
      <4>1. fetch_per_block' = fetch_per_block
            BY <1>2, <3>3
               DEF CpuStep, DecodeStage, FetchPart, PredictStage, Decode, ResponsesDone,
                   FetchStall, PopEmptyBlock, FetchStarved, PredictSkip, PredictStart, TraceOver,
                   PredictIns, PredictedTaken, PredictedNotTaken, Mispredicted, NextStep,
                   RunOver, fetchVars
      <4> QED
          BY <4>1, FetchQueueType
    <3> QED
        BY <3>1, <3>2, <3>3
  <2>3. fetches_sent' = fetches_sent
    <3>1. ~ (fetch_per_block' > fetch_per_block)
          BY <2>2, FetchQueueType
    <3> QED
        BY <3>1 DEF CountTypes
  <2> QED
      BY <2>1, <2>3, NothingCounted
<1> QED
    BY <1>1, <1>2

LEMMA CountedNext ==
  ASSUME SimInv, CountTypes, FetchRequestsCounted, [ReportNext]_reportVars
  PROVE  CountTypes' /\ FetchRequestsCounted'
<1>1. CASE CacheCounts
  <2>1. CASE NotServed
        BY <1>1, <2>1, NothingCounted
           DEF NotServed, CacheCounts, FillStep, FillLine, FillEnd, FetchEnd, PrefetchEnd,
               ioVars, FetchQueue
  <2>2. CASE \E line \in Lines : Served(line)
        BY <1>1, <2>2, ServedCounted DEF CacheCounts
  <2> QED
      BY <1>1, <2>1, <2>2 DEF CacheCounts
<1>2. CASE Control
  <2>1. PredictedTaken \/ PredictedNotTaken \/ Mispredicted
        BY <1>2 DEF Control
  <2>2. FetchQueue' = FetchQueue
        BY <2>1, PredictedTakenCall, QuietActions, PrefetchCallKeepsQueue DEF SimInv
  <2> QED
      BY <1>2, <2>2, NothingCounted DEF Control
<1>3. CASE OtherStep
  <2>1. CpuStep
        BY <1>3 DEF OtherStep, ReadPart, CpuStep, PredictStage
  <2> QED
      BY <1>3, <2>1, CpuStepCounted DEF OtherStep
<1>4. CASE UNCHANGED reportVars
      BY <1>4, NothingCounted DEF reportVars, simVars, l1iVars, ioVars, FetchQueue
<1> QED
    BY <1>1, <1>2, <1>3, <1>4 DEF ReportNext, ReportWork

(* Every request of the fetch stage is counted by the cache exactly once,  *)
(* in the cycle it is served, however often L2 has refused it before.      *)
THEOREM FetchRequestsCountedCorrect == ReportSpec => []FetchRequestsCounted
<1>1. ReportInit => CountTypes /\ FetchRequestsCounted
      BY DEF ReportInit, SimInit, L1iInit, CountTypes, FetchRequestsCounted, ReqObj
<1>2. SimInv /\ CountTypes /\ FetchRequestsCounted /\ [ReportNext]_reportVars
        => CountTypes' /\ FetchRequestsCounted'
      BY CountedNext
<1> QED
    BY <1>1, <1>2, ReportKeepsSimInv, PTL DEF ReportSpec

-----------------------------------------------------------------------------
(* Mispredictions, and the cycles that one costs.                          *)

LEMMA OtherStepIsCpuStep ==
  ASSUME OtherStep
  PROVE  CpuStep /\ ~ Mispredicted
<1>1. CpuStep
      BY DEF OtherStep, ReadPart, CpuStep, PredictStage
<1>2. PredictSkip \/ PredictStart \/ TraceOver \/ ReadPart \/ ~ At("control")
      BY DEF OtherStep, DecodeStage, Decode, ReceiveFetch, ResponsesDone, FetchPart, FetchStall,
             RetireLimitReached, FetchAdvance, PopEmptyBlock, FetchStarved, FetchIns, NextStep,
             RunOver, At
<1>3. ~ At("control")
      BY <1>2 DEF PredictSkip, PredictStart, TraceOver, ReadPart, PredictIns, At
<1> QED
    BY <1>1, <1>3 DEF Mispredicted

LEMMA ReportKeepsPredictInv == ReportSpec => [](PredictInv /\ PipelineTypeOK)
<1>1. SimInit => PredictInv /\ PipelineTypeOK
      BY PipelineTypeInit DEF SimInit, PredictInv
<1>2. PredictInv /\ PipelineTypeOK /\ [SimNext]_simVars => PredictInv' /\ PipelineTypeOK'
      BY PredictInvNext, PipelineTypeNext
<1> QED
    BY <1>1, <1>2, ReportRunsSimulator, PTL

(* How many of the three cycles have passed once its block is where it is: *)
(* the youngest instruction is that of the misprediction.                  *)
Moved == stage \in {"fetching", "predict", "predicting", "control", "end", "done"}

CyclesPassed ==
  IF ~ last_misp THEN 3
  ELSE IF Flat # <<>> THEN IF Moved /\ stage # "fetching" THEN 0 ELSE 1
  ELSE IF fetch_block # <<>> THEN IF Moved THEN 1 ELSE 2
  ELSE IF iq_buffer # <<>> THEN IF Moved THEN 2 ELSE 3
  ELSE 3

LEMMA PassedNext ==
  ASSUME PipelineTypeOK, PredictInv, steps \in Nat, [SimNext]_simVars, ~ Mispredicted
  PROVE  \/ steps' = steps /\ CyclesPassed' <= CyclesPassed
         \/ steps' = steps + 1 /\ CyclesPassed' <= CyclesPassed + 1
<1>0. CyclesPassed \in 0 .. 3 /\ CyclesPassed' \in 0 .. 3 /\ (~ last_misp => CyclesPassed = 3)
      BY DEF CyclesPassed
<1>1. CASE UNCHANGED cpuVars /\ steps' = steps
  <2>1. CyclesPassed' = CyclesPassed
        BY <1>1 DEF CyclesPassed, Moved, Flat, cpuVars, pipeVars, predVars
  <2> QED
      BY <1>0, <1>1, <2>1
<1>2. CASE Decode
  <2>1. iq_buffer = <<>> => iq_buffer' = <<>>
    <3>1. d_pipe_width \in Nat
          BY RunaheadAssumption
    <3> QED
        BY <1>2, <3>1 DEF Decode
  <2>2. /\ Flat' = Flat /\ fetch_block' = fetch_block /\ last_misp' = last_misp
        /\ steps' = steps /\ stage = "decode" /\ stage' = "response"
        BY <1>2 DEF Decode, Flat, At, predVars, l1iVars
  <2> QED
      BY <1>0, <2>1, <2>2 DEF CyclesPassed, Moved
<1>3. CASE ReceiveFetch \/ ResponsesDone \/ FetchStall \/ RetireLimitReached \/ FetchStarved
             \/ PredictSkip \/ RunOver \/ NextStep \/ PopEmptyBlock
  <2>1. Flat' = Flat
        BY <1>3, PopKeepsFlat DEF ReceiveFetch, ResponsesDone, FetchStall, RetireLimitReached,
             FetchStarved, PredictSkip, RunOver, NextStep, Flat, pipeVars
  <2>2. /\ fetch_block' = fetch_block /\ iq_buffer' = iq_buffer /\ last_misp' = last_misp
        BY <1>3 DEF ReceiveFetch, ResponsesDone, FetchStall, RetireLimitReached, FetchStarved,
             PredictSkip, RunOver, NextStep, PopEmptyBlock, pipeVars, predVars
  <2>3. CASE NextStep
    <3>1. steps' = steps + 1 /\ stage = "end" /\ stage' = "decode"
          BY <2>3 DEF NextStep, NextCycle
    <3> QED
        BY <1>0, <2>1, <2>2, <3>1 DEF CyclesPassed, Moved
  <2>4. CASE ~ NextStep
    <3>1. /\ steps' = steps
          /\ \/ stage' = stage
             \/ stage \in {"response", "fetch", "fetching"}
                  /\ stage' \in {"fetch", "predict", "done"} /\ (stage' = "fetch" => stage = "response")
             \/ stage \in {"predict", "end"} /\ stage' \in {"end", "done"}
          BY <1>3, <2>4 DEF ReceiveFetch, ResponsesDone, FetchStall, RetireLimitReached,
             FetchStarved, PredictSkip, RunOver, PopEmptyBlock, GoTo, At
    <3> QED
        BY <1>0, <2>1, <2>2, <3>1 DEF CyclesPassed, Moved
  <2> QED
      BY <2>3, <2>4
<1>4. CASE FetchAdvance
  <2>1. /\ Flat' = Flat /\ fetch_block' = <<>> /\ last_misp' = last_misp
        /\ steps' = steps /\ stage = "fetch" /\ stage' = "fetching"
        /\ iq_buffer' = iq_buffer \o fetch_block
        BY <1>4 DEF FetchAdvance, Flat, At, GoTo, predVars
  <2>2. fetch_block # <<>> => iq_buffer' # <<>>
        BY <2>1 DEF PipelineTypeOK
  <2> QED
      BY <1>0, <2>1, <2>2 DEF CyclesPassed, Moved
<1>5. CASE FetchIns
  <2>1. Flat # <<>> /\ fetch_block' # <<>>
    <3>1. fetch_block' # <<>>
      <4>1. \E ins : fetch_block' = Append(fetch_block, ins)
            BY <1>5, Zenon DEF FetchIns
      <4> QED
          BY <4>1 DEF PipelineTypeOK
    <3>2. PICK ins \in Ins : Flat' \in Seq(Ins) /\ Flat = <<ins>> \o Flat'
          BY <1>5, FetchInsFlat
    <3>3. Flat # <<>>
      <4> DEFINE rest == Flat'
      <4>1. rest \in Seq(Ins) /\ Flat = <<ins>> \o rest
            BY <3>2
      <4> HIDE DEF rest
      <4> QED
          BY <4>1
    <3> QED
        BY <3>1, <3>3
  <2>2. /\ last_misp' = last_misp /\ steps' = steps
        /\ stage = "fetching" /\ stage' \in {"fetching", "predict"}
        BY <1>5 DEF FetchIns, At, GoTo, predVars
  <2> QED
      BY <1>0, <2>1, <2>2 DEF CyclesPassed, Moved
<1>6. CASE PredictStart
  <2>1. steps' = steps
        BY <1>6 DEF PredictStart, GoTo
  <2>2. CyclesPassed = 3
    <3>1. CASE ~ last_misp
          BY <1>0, <3>1
    <3>2. CASE Drained
          BY <3>2, FlattenEmpty DEF Drained, CyclesPassed, Flat
    <3> QED
        BY <1>6, <3>1, <3>2 DEF PredictStart
  <2> QED
      BY <1>0, <2>1, <2>2
<1>7. CASE TraceOver \/ (\E next : PredictIns(next)) \/ PredictedTaken \/ PredictedNotTaken
  <2>1. stage \in {"predicting", "control"}
        BY <1>7 DEF TraceOver, PredictIns, PredictedTaken, PredictedNotTaken, At
  <2>2. CyclesPassed = 3
        BY <1>0, <2>1 DEF PredictInv
  <2>3. steps' = steps
        BY <1>7 DEF TraceOver, PredictIns, PredictedTaken, PredictedNotTaken, BlockOrNext, GoTo
  <2> QED
      BY <1>0, <2>2, <2>3
<1>8. CASE CacheStep /\ UNCHANGED cpuVars
      BY <1>1, <1>8, CacheStepSameCycle
<1>9. CASE UNCHANGED simVars
      BY <1>1, <1>9 DEF simVars, l1iVars
<1> QED
    BY <1>2, <1>3, <1>4, <1>5, <1>6, <1>7, <1>8, <1>9
       DEF SimNext, Work, Terminating, CpuStep, DecodeStage, FetchPart, PredictStage

LEMMA MispredictedPassed ==
  ASSUME PipelineTypeOK, PredictInv, Mispredicted
  PROVE  steps' = steps /\ CyclesPassed = 3 /\ CyclesPassed' = 0
<1>1. /\ stage = "control" /\ stage' = "end" /\ last_misp' = TRUE /\ steps' = steps
      /\ prefetch_block # <<>> /\ prefetch_block \in Seq(Ins) /\ ~ last_misp
      BY DEF Mispredicted, At, GoTo, PredictInv, PipelineTypeOK
<1>2. Flat' # <<>>
  <2>1. Flat' \o prefetch_block' = Flat \o prefetch_block /\ prefetch_block' = <<>>
        BY <1>1, PushFlat DEF Mispredicted, PushBlock
  <2>2. Flat' \in Seq(Ins) /\ Flat \in Seq(Ins)
        BY <1>1, PushFlat, FlatType DEF Mispredicted, PipelineTypeOK
  <2> QED
      BY <1>1, <2>1, <2>2
<1> QED
    BY <1>1, <1>2 DEF CyclesPassed, Moved

(* predict() counts a failure where it does not return SUCCESS.            *)
LEMMA FailureCounted ==
  ASSUME failures \in Nat, NEW ins, Predictor!predict(ins)
  PROVE  failures' = failures + IF predict_res' = "SUCCESS" THEN 0 ELSE 1
<1>1. \E res \in {"SUCCESS", "FAIL"} : Predictor!Return(res)
  <2>1. /\ Predictor!TargetResult(ins) \in {"SUCCESS", "FAIL"}
        /\ (IF Predictor!DirRight(ins) THEN Predictor!TargetResult(ins) ELSE "FAIL")
              \in {"SUCCESS", "FAIL"}
        /\ (IF Predictor!ExactMiss THEN "FAIL" ELSE "SUCCESS") \in {"SUCCESS", "FAIL"}
        /\ (IF ins.taken THEN "FAIL" ELSE "SUCCESS") \in {"SUCCESS", "FAIL"}
        BY DEF Predictor!TargetResult
  <2> QED
      BY <2>1, Zenon
         DEF Predictor!predict, Predictor!PredictJump, Predictor!PredictCall,
             Predictor!PredictRetUnmatched, Predictor!PredictRetMatched,
             Predictor!PredictNotTaken, Predictor!PredictTaken, Predictor!PredictExact,
             Predictor!PredictPerfect, Predictor!PredictDisabled
<1>2. ASSUME NEW res \in {"SUCCESS", "FAIL"}, Predictor!Return(res)
      PROVE  failures' = failures + IF predict_res' = "SUCCESS" THEN 0 ELSE 1
      BY <1>2 DEF Predictor!Return
<1> QED
    BY <1>1, <1>2

FlushInv ==
  /\ failures \in Nat /\ steps \in Nat
  /\ 3 * failures + CyclesPassed <= steps + 3

LEMMA FlushNext ==
  ASSUME PipelineTypeOK, PredictInv, FlushInv, [ReportNext]_reportVars
  PROVE  FlushInv'
<1> USE DEF FlushInv
<1>0. CyclesPassed \in 0 .. 3 /\ CyclesPassed' \in 0 .. 3 /\ [SimNext]_simVars
      BY ReportStep DEF CyclesPassed
<1>1. CASE CacheCounts \/ OtherStep \/ UNCHANGED reportVars
  <2>1. failures' = failures
        BY <1>1 DEF CacheCounts, OtherStep, reportVars, predictorVars
  <2>2. ~ Mispredicted
    <3>1. CASE CacheCounts
      <4>1. pc # "cpu"
            BY <3>1 DEF CacheCounts, NotServed, Served, FillStep, FillEnd, FillLine, FetchEnd,
                 PrefetchEnd, FetchHit, FetchMerge, FetchMiss, PrefetchMerge, PrefetchHit,
                 PrefetchMiss
      <4> QED
          BY <4>1 DEF Mispredicted, At
    <3>2. CASE OtherStep
          BY <3>2, OtherStepIsCpuStep
    <3>3. CASE UNCHANGED reportVars
      <4>1. stage' = stage
            BY <3>3 DEF reportVars, simVars, cpuVars
      <4> QED
          BY <4>1 DEF Mispredicted, At, GoTo
    <3> QED
        BY <1>1, <3>1, <3>2, <3>3
  <2>3. \/ steps' = steps /\ CyclesPassed' <= CyclesPassed
        \/ steps' = steps + 1 /\ CyclesPassed' <= CyclesPassed + 1
        BY <1>0, <2>2, PassedNext
  <2> HIDE DEF CyclesPassed
  <2> QED
      BY <1>0, <2>1, <2>3
<1>2. CASE Control
  <2>1. failures' = failures + IF predict_res' = "SUCCESS" THEN 0 ELSE 1
        BY <1>2, FailureCounted DEF Control
  <2>2. CASE predict_res' = "SUCCESS"
    <3>1. PredictedTaken \/ PredictedNotTaken
          BY <1>2, <2>2 DEF Control
    <3>2. CyclesPassed = 3 /\ CyclesPassed' = 3 /\ steps' = steps
          BY <3>1 DEF PredictedTaken, PredictedNotTaken, BlockOrNext, At, GoTo, predVars,
               PredictInv, CyclesPassed
    <3> QED
        BY <1>0, <2>1, <2>2, <3>2
  <2>3. CASE predict_res' # "SUCCESS"
    <3>1. Mispredicted
          BY <1>2, <2>3 DEF Control
    <3> QED
        BY <2>1, <2>3, <3>1, MispredictedPassed
  <2> QED
      BY <2>2, <2>3
<1> QED
    BY <1>1, <1>2 DEF ReportNext, ReportWork

(* A misprediction costs at least three cycles: what has been charged for  *)
(* the failures so far, with the cycles that the last one has yet to cost, *)
(* never exceeds the cycles that have gone by.                             *)
THEOREM FlushesCost == ReportSpec => []FlushesCostCycles
<1>1. ReportInit => FlushInv
  <2> SUFFICES ASSUME ReportInit PROVE FlushInv
      OBVIOUS
  <2>1. failures = 0 /\ steps = 0
        BY DEF ReportInit, Predictor!PredictorInit, SimInit, L1iInit
  <2>2. CyclesPassed \in 0 .. 3
        BY DEF CyclesPassed
  <2> QED
      BY <2>1, <2>2 DEF FlushInv
<1>2. (PredictInv /\ PipelineTypeOK) /\ FlushInv /\ [ReportNext]_reportVars => FlushInv'
      BY FlushNext
<1>3. FlushInv => FlushesCostCycles
  <2> SUFFICES ASSUME FlushInv PROVE FlushesCostCycles
      OBVIOUS
  <2>1. CyclesPassed \in 0 .. 3
        BY DEF CyclesPassed
  <2> QED
      BY <2>1 DEF FlushInv, FlushesCostCycles
<1> QED
    BY <1>1, <1>2, <1>3, ReportKeepsPredictInv, PTL DEF ReportSpec

-----------------------------------------------------------------------------
(* Misses and stalled cycles.  A miss of fetch leaves a response that is   *)
(* held back, so that the cycle in which it is counted becomes a stalled   *)
(* one; until it has, the misses of the cycle, as many as there are ports, *)
(* are ahead of the stalls.                                                *)

HeldBack ==
  \E n \in DOMAIN super_in_response_buffer :
    super_in_response_buffer[n].response_time > steps

Charged == HitRequestBw * ifetch_stalls

Uncharged ==
  IF pc = "f" THEN i
  ELSE IF pc = "pf" \/ (pc = "cpu" /\ stage \in {"decode", "response"}) THEN HitRequestBw
  ELSE 0

MissInv ==
  /\ total_misses \in [ReqObj -> Nat] /\ ifetch_stalls \in Nat
  /\ pc # "cpu" => stage = "decode"
  /\ pc = "f" => i <= HitRequestBw
  /\ total_misses["f"] <= Charged + Uncharged
  /\ total_misses["f"] > Charged => HeldBack

LEMMA ChargedType ==
  ASSUME HitRequestBw # NoLimit, MissInv, SimInv
  PROVE  /\ HitRequestBw \in Nat /\ total_misses["f"] \in Nat /\ Charged \in Nat
         /\ i \in Nat /\ steps \in Nat /\ pc \in {"fill", "f", "pf", "cpu"}
<1>1. HitRequestBw \in Nat
      BY L1iAssumption
<1>2. \A a, b \in Nat : a * b \in Nat
      OBVIOUS
<1>3. Charged \in Nat
      BY <1>1, <1>2, Zenon DEF Charged, MissInv
<1> QED
    BY <1>1, <1>3 DEF MissInv, ReqObj, SimInv, L1iInv, CoreTypeOK, ControlTypeOK

(* A response that is added leaves the others held back.                   *)
LEMMA RespondHolds ==
  ASSUME SimInv, NEW line \in Lines, NEW when \in Nat, Respond(line, when), steps' = steps,
         HeldBack \/ when > steps
  PROVE  HeldBack'
<1> DEFINE response == [da |-> line, response_time |-> when]
<1>1. /\ super_in_response_buffer \in Seq(Response) /\ response \in Response
      /\ super_in_response_buffer' = Append(super_in_response_buffer, response)
      /\ response.response_time = when
      BY DEF SimInv, L1iInv, CoreTypeOK, QueuesTypeOK, Respond, Response
<1> HIDE DEF response
<1>2. /\ \A n \in DOMAIN super_in_response_buffer :
           n \in DOMAIN super_in_response_buffer' /\
           super_in_response_buffer'[n] = super_in_response_buffer[n]
      /\ \E n \in DOMAIN super_in_response_buffer' : super_in_response_buffer'[n] = response
      BY <1>1
<1>3. CASE HeldBack
      BY <1>2, <1>3 DEF HeldBack
<1>4. CASE when > steps
      BY <1>1, <1>2, <1>4 DEF HeldBack
<1> QED
    BY <1>3, <1>4

(* A miss that is on its way is due later than now.                        *)
LEMMA MergeIsLate ==
  ASSUME SimInv, pc = "f", NEW line \in Lines, InCompletion(line)
  PROVE  /\ super_in_request_completion[line] \in Nat
         /\ super_in_request_completion[line] > steps
<1>1. super_in_request_completion[line] \in Dues
      BY DEF SimInv, L1iInv, MshrCoherent, OutstandingBuffered, InCompletion
<1> QED
    BY <1>1 DEF SimInv, L1iInv, DueWindow, CoreTypeOK, MshrTypeOK, ControlTypeOK, InCompletion

LEMMA ServedMisses ==
  ASSUME HitRequestBw # NoLimit, SimInv, MissInv, UNCHANGED cpuVars,
         NEW line \in Lines, Served(line)
  PROVE  MissInv'
<1>0. /\ HitRequestBw \in Nat /\ total_misses["f"] \in Nat /\ Charged \in Nat
      /\ i \in Nat /\ steps \in Nat /\ stage' = stage /\ ifetch_stalls' = ifetch_stalls
      /\ Charged' = Charged
      BY ChargedType DEF cpuVars, statVars, Charged
<1>1. CASE FetchHit(line) \/ FetchMerge(line) \/ FetchMiss(line)
  <2>1. /\ pc = "f" /\ pc' = "f" /\ steps' = steps /\ i' = i + 1 /\ i < HitRequestBw
        /\ CountHit("f") \/ CountMiss("f")
        BY <1>1, <1>0 DEF Served, FetchHit, FetchMerge, FetchMiss, PrefetchHit, PrefetchMerge,
             PrefetchMiss, HitBwLeft, Respond
  <2>2. PICK when \in Nat : /\ Respond(line, when)
                            /\ when > steps \/ CountHit("f")
    <3>1. CASE FetchHit(line) /\ CountHit("f")
          BY <1>0, <3>1 DEF FetchHit
    <3>2. CASE FetchMerge(line)
          BY <3>2, <2>1, MergeIsLate DEF FetchMerge
    <3>3. CASE FetchMiss(line)
      <4>1. steps + MissLatency \in Nat /\ steps + MissLatency > steps
            BY <1>0, L1iAssumption
      <4> QED
          BY <3>3, <4>1 DEF FetchMiss
    <3> QED
        BY <1>1, <2>1, <3>1, <3>2, <3>3
           DEF Served, FetchHit, FetchMerge, FetchMiss, PrefetchHit, PrefetchMerge, PrefetchMiss
  <2>3. total_misses' \in [ReqObj -> Nat]
        BY <2>1 DEF CountHit, CountMiss, MissInv, ReqObj
  <2>4. CASE CountHit("f")
    <3>1. total_misses'["f"] = total_misses["f"]
          BY <2>4 DEF CountHit
    <3>2. total_misses["f"] <= Charged + i
          BY <2>1 DEF MissInv, Uncharged
    <3>3. total_misses'["f"] <= Charged' + Uncharged'
          BY <1>0, <2>1, <3>1, <3>2 DEF Uncharged
    <3>4. total_misses'["f"] > Charged' => HeldBack'
          BY <1>0, <2>1, <2>2, <3>1, RespondHolds DEF MissInv
    <3> QED
        BY <1>0, <2>1, <2>3, <3>3, <3>4 DEF MissInv
  <2>5. CASE CountMiss("f") /\ when > steps
    <3>1. total_misses'["f"] = total_misses["f"] + 1
          BY <2>5 DEF CountMiss, MissInv, ReqObj
    <3>2. total_misses["f"] <= Charged + i
          BY <2>1 DEF MissInv, Uncharged
    <3>3. total_misses'["f"] <= Charged' + Uncharged'
          BY <1>0, <2>1, <3>1, <3>2 DEF Uncharged
    <3>4. HeldBack'
          BY <2>1, <2>2, <2>5, RespondHolds
    <3> QED
        BY <1>0, <2>1, <2>3, <3>3, <3>4 DEF MissInv
  <2> QED
      BY <2>1, <2>2, <2>4, <2>5
<1>2. CASE PrefetchMerge(line) \/ PrefetchHit(line) \/ PrefetchMiss(line)
  <2>1. /\ pc = "pf" /\ pc' = "pf" /\ steps' = steps
        /\ super_in_response_buffer' = super_in_response_buffer
        /\ CountHit("pf") \/ CountMiss("pf")
        BY <1>2 DEF Served, FetchHit, FetchMerge, FetchMiss, PrefetchHit, PrefetchMerge,
             PrefetchMiss
  <2>2. total_misses' \in [ReqObj -> Nat] /\ total_misses'["f"] = total_misses["f"]
        BY <2>1 DEF CountHit, CountMiss, MissInv, ReqObj
  <2>3. HeldBack' = HeldBack /\ Uncharged' = Uncharged
        BY <2>1 DEF HeldBack, Uncharged
  <2> QED
      BY <1>0, <2>1, <2>2, <2>3 DEF MissInv
<1> QED
    BY <1>1, <1>2 DEF Served

LEMMA NotServedMisses ==
  ASSUME HitRequestBw # NoLimit, SimInv, MissInv, UNCHANGED cpuVars, NotServed
  PROVE  MissInv'
<1>0. /\ HitRequestBw \in Nat /\ total_misses["f"] \in Nat /\ Charged \in Nat
      /\ i \in Nat /\ stage' = stage /\ ifetch_stalls' = ifetch_stalls
      /\ Charged' = Charged /\ total_misses' = total_misses
      BY ChargedType DEF cpuVars, statVars, Charged, NotServed, cacheStats
<1>1. /\ HeldBack' = HeldBack
      /\ \/ pc = "fill" /\ pc' = "fill"
         \/ pc = "fill" /\ pc' = "f" /\ i' = 0
         \/ pc = "f" /\ pc' = "pf"
         \/ pc = "pf" /\ pc' = "cpu"
      BY DEF NotServed, FillStep, FillLine, FillEnd, FetchEnd, PrefetchEnd, HeldBack, ioVars
<1>2. pc # "cpu" /\ stage = "decode"
      BY <1>1 DEF MissInv
<1>3. total_misses'["f"] <= Charged' + Uncharged'
      BY <1>0, <1>1, <1>2 DEF MissInv, Uncharged
<1> QED
    BY <1>0, <1>1, <1>2, <1>3 DEF MissInv

(* The responses that are still held back make the cycle a stalled one.    *)
LEMMA ResponsesDoneMisses ==
  ASSUME HitRequestBw # NoLimit, SimInv, MissInv, ResponsesDone, UNCHANGED cacheStats
  PROVE  MissInv'
<1>0. /\ HitRequestBw \in Nat /\ total_misses["f"] \in Nat /\ Charged \in Nat
      /\ ifetch_stalls \in Nat
      BY ChargedType DEF MissInv
<1>1. /\ pc = "cpu" /\ stage = "response" /\ pc' = "cpu" /\ stage' = "fetch"
      /\ total_misses' = total_misses
      BY DEF ResponsesDone, At, GoTo, cacheStats
<1>2. total_misses["f"] <= Charged + HitRequestBw
      BY <1>1 DEF MissInv, Uncharged
<1>3. ifetch_stalls' = ifetch_stalls + IF fetch_per_block > 0 THEN 1 ELSE 0
      BY <1>0 DEF ResponsesDone
<1>4. total_misses["f"] <= Charged'
  <2>1. CASE fetch_per_block > 0
    <3>1. \A a, b \in Nat : a * (b + 1) = a * b + a
          OBVIOUS
    <3>2. ifetch_stalls' = ifetch_stalls + 1
          BY <1>3, <2>1
    <3>3. Charged' = HitRequestBw * (ifetch_stalls + 1)
          BY <3>2, Zenon DEF Charged
    <3>4. Charged' = Charged + HitRequestBw
          BY <1>0, <3>1, <3>3, Zenon DEF Charged
    <3> QED
        BY <1>2, <3>4
  <2>2. CASE ~ (fetch_per_block > 0)
    <3>1. Len(PendingFetches) = 0 /\ PendingFetches \in Seq(Lines)
          BY <2>2, PendingType DEF SimInv, FetchAccounting
    <3>2. Len(super_in_response_buffer) = 0
      <4>1. /\ ResponseLines \in Seq(Lines)
            /\ Len(ResponseLines) = Len(super_in_response_buffer)
            /\ super_in_request_buffer["f"] \in Seq(Lines)
            BY ResponseLinesType DEF SimInv, L1iInv, CoreTypeOK
      <4>2. PendingFetches = ResponseLines \o super_in_request_buffer["f"]
            BY DEF PendingFetches, ResponseLines
      <4> QED
          BY <3>1, <4>1, <4>2
    <3>3. ~ HeldBack
          BY <3>2 DEF HeldBack, SimInv, L1iInv, CoreTypeOK, QueuesTypeOK
    <3>4. total_misses["f"] <= Charged
          BY <1>0, <3>3 DEF MissInv
    <3>5. ifetch_stalls' = ifetch_stalls
          BY <1>0, <1>3, <2>2
    <3>6. Charged' = Charged
          BY <3>5 DEF Charged
    <3> QED
        BY <3>4, <3>6
  <2> QED
      BY <2>1, <2>2
<1>5. /\ Uncharged' = 0 /\ ifetch_stalls' \in Nat /\ Charged' \in Nat
  <2>1. ifetch_stalls' \in Nat
        BY <1>0, <1>3
  <2>2. \A a, b \in Nat : a * b \in Nat
        OBVIOUS
  <2>3. Charged' \in Nat
        BY <1>0, <2>1, <2>2, Zenon DEF Charged
  <2> QED
      BY <1>1, <2>1, <2>3 DEF Uncharged
<1>6. total_misses'["f"] <= Charged' + Uncharged' /\ ~ (total_misses'["f"] > Charged')
      BY <1>0, <1>1, <1>4, <1>5
<1> QED
    BY <1>1, <1>5, <1>6 DEF MissInv

(* The calls of a cycle that has been charged.                             *)
LEMMA CpuStepMisses ==
  ASSUME HitRequestBw # NoLimit, SimInv, MissInv, CpuStep, UNCHANGED cacheStats
  PROVE  MissInv'
<1>0. /\ HitRequestBw \in Nat /\ total_misses["f"] \in Nat /\ Charged \in Nat
      /\ total_misses' = total_misses
      BY ChargedType DEF cacheStats
<1>1. CASE Decode
  <2>1. /\ pc' = "cpu" /\ pc = "cpu" /\ stage = "decode" /\ stage' = "response"
        /\ UNCHANGED <<super_in_response_buffer, steps, ifetch_stalls>>
        BY <1>1 DEF Decode, At, l1iVars, ioVars, statVars
  <2>2. HeldBack' = HeldBack /\ Charged' = Charged /\ Uncharged' = Uncharged
        BY <2>1 DEF HeldBack, Charged, Uncharged
  <2> QED
      BY <1>0, <2>1, <2>2 DEF MissInv
<1>2. CASE ReceiveFetch
  <2>1. /\ pc' = "cpu" /\ pc = "cpu" /\ stage = "response" /\ stage' = "response"
        /\ UNCHANGED <<steps, ifetch_stalls>> /\ ResponseReady
        /\ super_in_response_buffer' = Tail(super_in_response_buffer)
        /\ super_in_response_buffer \in Seq(Response) /\ steps \in Nat
        BY <1>2 DEF ReceiveFetch, At, GoTo, statVars, SimInv, L1iInv, CoreTypeOK, QueuesTypeOK,
             ControlTypeOK
  <2>2. ASSUME HeldBack PROVE HeldBack'
    <3>1. PICK n \in DOMAIN super_in_response_buffer :
            super_in_response_buffer[n].response_time > steps
          BY <2>2 DEF HeldBack
    <3>2. n # 1
      <4>1. super_in_response_buffer[1].response_time <= steps
            BY <2>1 DEF ResponseReady
      <4>2. super_in_response_buffer[1].response_time \in Nat
        <5>1. super_in_response_buffer[1] \in Response
              BY <2>1 DEF ResponseReady
        <5> QED
            BY <5>1 DEF Response
      <4> QED
          BY <2>1, <3>1, <4>1, <4>2
    <3>3. /\ n - 1 \in DOMAIN Tail(super_in_response_buffer)
          /\ Tail(super_in_response_buffer)[n - 1] = super_in_response_buffer[n]
          BY <2>1, <3>2
    <3> QED
        BY <2>1, <3>1, <3>3 DEF HeldBack
  <2>3. Charged' = Charged /\ Uncharged' = Uncharged
        BY <2>1 DEF Charged, Uncharged
  <2> QED
      BY <1>0, <2>1, <2>2, <2>3 DEF MissInv
<1>3. CASE ResponsesDone
      BY <1>3, ResponsesDoneMisses
<1>4. CASE ~ (Decode \/ ReceiveFetch \/ ResponsesDone)
  <2>1. /\ pc = "cpu" /\ stage \notin {"decode", "response"} /\ ifetch_stalls' = ifetch_stalls
        /\ \/ pc' = "cpu" /\ stage' \notin {"decode", "response"}
           \/ pc' = "fill" /\ stage' = "decode"
    <3>1. CASE NextStep
          BY <3>1 DEF NextStep, NextCycle, statVars
    <3>2. CASE ~ NextStep
          BY <1>4, <3>2
             DEF CpuStep, DecodeStage, FetchPart, PredictStage, FetchStall, RetireLimitReached,
                 FetchAdvance, PopEmptyBlock, FetchStarved, FetchIns, PredictSkip, PredictStart,
                 TraceOver, PredictIns, PredictedTaken, PredictedNotTaken, Mispredicted, RunOver,
                 BlockOrNext, At, GoTo, statVars
    <3> QED
        BY <3>1, <3>2
  <2>2. Charged' = Charged /\ Uncharged = 0 /\ Uncharged' = 0
        BY <2>1 DEF Charged, Uncharged
  <2> QED
      BY <1>0, <2>1, <2>2 DEF MissInv
<1> QED
    BY <1>1, <1>2, <1>3, <1>4

LEMMA MissNext ==
  ASSUME HitRequestBw # NoLimit, SimInv, MissInv, [ReportNext]_reportVars
  PROVE  MissInv'
<1>1. CASE CacheCounts
      BY <1>1, NotServedMisses, ServedMisses DEF CacheCounts
<1>2. CASE Control \/ OtherStep
      BY <1>2, CpuStepMisses DEF Control, OtherStep, ReadPart, CpuStep, PredictStage
<1>3. CASE UNCHANGED reportVars
      BY <1>3 DEF MissInv, HeldBack, Charged, Uncharged, reportVars, simVars, l1iVars, ioVars,
                  cpuVars, statVars, cacheStats
<1> QED
    BY <1>1, <1>2, <1>3 DEF ReportNext, ReportWork

(* Each cycle in which the cache counts misses of fetch is one that the    *)
(* CPU counts as stalled on the cache, whatever the answers, the merges    *)
(* and the refusals of L2 are; the ports bound how many misses that is.    *)
THEOREM MissesStall ==
  ASSUME HitRequestBw # NoLimit
  PROVE  ReportSpec => []MissesCostStalls
<1>1. ReportInit => MissInv
  <2> SUFFICES ASSUME ReportInit PROVE MissInv
      OBVIOUS
  <2>1. /\ total_misses \in [ReqObj -> Nat] /\ total_misses["f"] = 0 /\ ifetch_stalls = 0
        /\ pc = "fill" /\ stage = "decode"
        BY DEF ReportInit, SimInit, L1iInit, ReqObj
  <2>2. Charged = 0 /\ Uncharged = 0
    <3>1. HitRequestBw \in Nat
          BY L1iAssumption
    <3> QED
        BY <2>1, <3>1 DEF Charged, Uncharged
  <2> QED
      BY <2>1, <2>2 DEF MissInv
<1>2. SimInv /\ MissInv /\ [ReportNext]_reportVars => MissInv'
      BY MissNext
<1>3. SimInv /\ MissInv => MissesCostStalls
  <2> SUFFICES ASSUME SimInv, MissInv, pc = "cpu", stage \notin {"decode", "response"}
               PROVE  total_misses["f"] <= Charged
      BY DEF MissesCostStalls, Charged
  <2>1. Uncharged = 0
        BY DEF Uncharged
  <2> QED
      BY <2>1, ChargedType DEF MissInv
<1> QED
    BY <1>1, <1>2, <1>3, ReportKeepsSimInv, PTL DEF ReportSpec
=============================================================================
