------------------------- MODULE RunaheadSimProofs --------------------------
(***************************************************************************)
(* Proofs about the simulator, for every trace and every configuration.    *)
(*                                                                         *)
(* Its runs are runs of the L1 instruction cache under one particular      *)
(* client, so that whatever L1iStandaloneProofs shows of the cache under   *)
(* any client holds here.  Of the CPU: its count of unanswered fetches is  *)
(* right, its four buffers are one queue in trace order and stay within    *)
(* their depths, its counters fit each other, and what it fetches it has   *)
(* prefetched.                                                             *)
(***************************************************************************)
EXTENDS RunaheadSim, L1iStandaloneProofs

-----------------------------------------------------------------------------
(* The pipeline holds instructions, and so asks for lines of the cache.    *)

LEMMA InsLine ==
  ASSUME NEW ins \in Ins
  PROVE  line_of(ins.ia) \in Lines
BY RunaheadAssumption, TraceAssumption DEF Ins

LEMMA PipelineTypeInit == SimInit => PipelineTypeOK
BY RunaheadAssumption, TraceAssumption DEF SimInit, PipelineTypeOK, parse_ins, Ins, Kinds

LEMMA PushBlockType ==
  ASSUME NEW block \in Seq(Ins), fetch_buffer \in Seq(Seq(Ins)),
         PushBlock(block) \/ KeepBlock(block)
  PROVE  prefetch_block' \in Seq(Ins) /\ fetch_buffer' \in Seq(Seq(Ins))
<1>1. Append(fetch_buffer, block) \in Seq(Seq(Ins)) /\ <<>> \in Seq(Ins)
      OBVIOUS
<1>2. CASE PushBlock(block)
  <2>1. fetch_buffer' \in {fetch_buffer, Append(fetch_buffer, block)} /\ prefetch_block' = <<>>
        BY <1>2 DEF PushBlock
  <2> QED
      BY <2>1, <1>1
<1>3. CASE KeepBlock(block)
      BY <1>3 DEF KeepBlock
<1> QED
    BY <1>2, <1>3

LEMMA BlockOrNextType ==
  ASSUME NEW block \in Seq(Ins), NEW ins, fetch_buffer \in Seq(Seq(Ins)),
         BlockOrNext(ins, block)
  PROVE  prefetch_block' \in Seq(Ins) /\ fetch_buffer' \in Seq(Seq(Ins))
BY PushBlockType DEF BlockOrNext

LEMMA PipelineTypeStep ==
  ASSUME PipelineTypeOK, CpuStep
  PROVE  PipelineTypeOK'
<1> USE DEF PipelineTypeOK
<1>1. CASE Decode
  <2>1. CASE Len(iq_buffer) <= d_pipe_width
        BY <2>1, <1>1 DEF Decode
  <2>2. CASE ~ Len(iq_buffer) <= d_pipe_width
    <3>1. SubSeq(iq_buffer, d_pipe_width + 1, Len(iq_buffer)) \in Seq(Ins)
          BY RunaheadAssumption, TraceAssumption
    <3> QED
        BY <3>1, <2>2, <1>1 DEF Decode
  <2> QED
      BY <2>1, <2>2
<1>2. CASE ReceiveFetch \/ ResponsesDone \/ FetchStall \/ RetireLimitReached \/ FetchStarved
             \/ PredictSkip \/ PredictStart \/ NextStep \/ RunOver
      BY <1>2 DEF ReceiveFetch, ResponsesDone, FetchStall, RetireLimitReached, FetchStarved,
                  PredictSkip, PredictStart, NextStep, RunOver, pipeVars
<1>3. CASE FetchAdvance
      BY <1>3 DEF FetchAdvance
<1>4. CASE PopEmptyBlock
      BY <1>4 DEF PopEmptyBlock
<1>5. CASE FetchIns
  <2>1. Head(fetch_buffer) \in Seq(Ins) /\ Tail(fetch_buffer) \in Seq(Seq(Ins))
        BY <1>5 DEF FetchIns
  <2>2. Head(Head(fetch_buffer)) \in Ins /\ Tail(Head(fetch_buffer)) \in Seq(Ins)
        BY <2>1, <1>5 DEF FetchIns
  <2> QED
      BY <2>1, <2>2, <1>5 DEF FetchIns
<1>6. CASE TraceOver
      BY <1>6, PushBlockType DEF TraceOver
<1>7. ASSUME temp_ins # NULL,
             NEW next \in parse_ins(temp_ins.n + 1),
             PredictIns(next)
      PROVE  PipelineTypeOK'
  <2>1. temp_ins \in Ins /\ Append(prefetch_block, temp_ins) \in Seq(Ins)
        BY <1>7
  <2>2. next \in Ins \cup {NULL}
        BY <2>1, <1>7 DEF parse_ins, Ins
  <2>3. prefetch_block' \in Seq(Ins) /\ fetch_buffer' \in Seq(Seq(Ins))
        BY <2>1, <1>7, PushBlockType, BlockOrNextType DEF PredictIns
  <2> QED
      BY <2>2, <2>3, <1>7 DEF PredictIns
<1>8. CASE PredictedTaken
      BY <1>8, PushBlockType DEF PredictedTaken
<1>9. CASE PredictedNotTaken
      BY <1>9, BlockOrNextType DEF PredictedNotTaken
<1>10. CASE Mispredicted
      BY <1>10, PushBlockType DEF Mispredicted
<1> QED
    BY <1>1, <1>2, <1>3, <1>4, <1>5, <1>6, <1>7, <1>8, <1>9, <1>10
       DEF CpuStep, DecodeStage, FetchPart, PredictStage

LEMMA PipelineTypeNext ==
  ASSUME PipelineTypeOK, [SimNext]_simVars
  PROVE  PipelineTypeOK'
<1>1. CASE CpuStep
      BY <1>1, PipelineTypeStep
<1>2. CASE UNCHANGED cpuVars \/ UNCHANGED simVars
      BY <1>2 DEF simVars, cpuVars, pipeVars, PipelineTypeOK
<1> QED
    BY <1>1, <1>2 DEF SimNext, Work, Terminating

(* Every variable of the pipeline has the type its declaration gives it.   *)
THEOREM PipelineTypeCorrect == SimSpec => []PipelineTypeOK
<1>1. PipelineTypeOK /\ [SimNext]_simVars => PipelineTypeOK'
      BY PipelineTypeNext
<1> QED
    BY PipelineTypeInit, <1>1, PTL DEF SimSpec

-----------------------------------------------------------------------------
(* Each step of the simulator is a step of the cache, a call of its        *)
(* client, the start of a cycle, or no affair of the cache's.              *)

(* A step of the CPU that makes no call.                                   *)
LEMMA QuietStep ==
  ASSUME NEW s, GoTo(s), Quiet
  PROVE  UNCHANGED l1iVars
BY DEF GoTo, Quiet, l1iVars

LEMMA PrefetchCall ==
  ASSUME NEW line \in Lines, pc = "cpu", NEW s, GoTo(s),
         SendPrefetch(line), UNCHANGED super_in_response_buffer
  PROVE  ClientSend("pf", line)
BY DEF GoTo, SendPrefetch, ClientSend

LEMMA ReceiveCall ==
  ASSUME ReceiveFetch
  PROVE  ClientReceive
BY DEF ReceiveFetch, At, GoTo, ClientReceive

LEMMA BlockOrNextGoes ==
  ASSUME NEW ins, NEW block, BlockOrNext(ins, block)
  PROVE  \E s : GoTo(s)
BY DEF BlockOrNext

LEMMA FetchCall ==
  ASSUME PipelineTypeOK, FetchIns
  PROVE  LET ins_cla == line_of(Head(Head(fetch_buffer)).ia)
         IN  /\ ins_cla \in Lines
             /\ Head(Head(fetch_buffer)) \in Ins
             /\ IF ins_cla # prev_fetch_cb THEN ClientSend("f", ins_cla)
                                           ELSE UNCHANGED l1iVars
<1>1. Head(fetch_buffer) \in Seq(Ins)
      BY DEF FetchIns, PipelineTypeOK
<1>2. Head(Head(fetch_buffer)) \in Ins
      BY <1>1 DEF FetchIns
<1>3. line_of(Head(Head(fetch_buffer)).ia) \in Lines
      BY <1>2, InsLine
<1> QED
    BY <1>2, <1>3 DEF FetchIns, At, GoTo, ClientSend, l1iVars, ioVars

LEMMA PredictInsCall ==
  ASSUME PipelineTypeOK, NEW next, PredictIns(next)
  PROVE  (\E line \in Lines : ClientSend("pf", line)) \/ UNCHANGED l1iVars
<1> DEFINE ins_cla == line_of(temp_ins.ia)
<1>1. ins_cla \in Lines
      BY InsLine DEF PredictIns, PipelineTypeOK
<1>2. PICK s : GoTo(s)
      BY BlockOrNextGoes DEF PredictIns
<1>3. CASE Prefetch /\ ins_cla # prev_prefetch_cl
      BY <1>1, <1>2, <1>3, PrefetchCall DEF PredictIns, At
<1>4. CASE ~ (Prefetch /\ ins_cla # prev_prefetch_cl)
  <2>1. UNCHANGED ioVars
        BY <1>4 DEF PredictIns, ioVars
  <2> QED
      BY <2>1, <1>2, QuietStep DEF Quiet
<1> QED
    BY <1>3, <1>4

(* temp_ins is the instruction after a control instruction while that is   *)
(* being predicted: its line is the target's.                              *)
ControlHasTarget == stage = "control" => temp_ins # NULL

LEMMA ControlHasTargetNext ==
  ASSUME ControlHasTarget, [SimNext]_simVars
  PROVE  ControlHasTarget'
<1>1. CASE CacheStep /\ UNCHANGED cpuVars
      BY <1>1 DEF ControlHasTarget, cpuVars, pipeVars
<1>2. CASE UNCHANGED simVars
      BY <1>2 DEF ControlHasTarget, simVars, cpuVars, pipeVars
<1>3. CASE CpuStep
  <2>1. CASE \E next : PredictIns(next)
        BY <2>1 DEF PredictIns, ControlHasTarget
  <2>2. CASE DecodeStage
        BY <2>2 DEF DecodeStage, Decode, ReceiveFetch, ResponsesDone, GoTo, ControlHasTarget
  <2>3. CASE FetchPart
        BY <2>3 DEF FetchPart, FetchStall, RetireLimitReached, FetchAdvance, PopEmptyBlock,
                    FetchStarved, FetchIns, GoTo, ControlHasTarget
  <2>4. CASE PredictSkip \/ PredictStart \/ TraceOver \/ PredictedTaken
               \/ PredictedNotTaken \/ Mispredicted
        BY <2>4 DEF PredictSkip, PredictStart, TraceOver, PredictedTaken, PredictedNotTaken,
                    Mispredicted, BlockOrNext, GoTo, ControlHasTarget
  <2>5. CASE NextStep \/ RunOver
        BY <2>5 DEF NextStep, RunOver, GoTo, ControlHasTarget
  <2> QED
      BY <1>3, <2>1, <2>2, <2>3, <2>4, <2>5 DEF CpuStep, PredictStage
<1> QED
    BY <1>1, <1>2, <1>3 DEF SimNext, Work, Terminating

LEMMA PredictedTakenCall ==
  ASSUME PipelineTypeOK, ControlHasTarget, PredictedTaken
  PROVE  (\E line \in Lines : ClientSend("pf", line)) \/ UNCHANGED l1iVars
<1> DEFINE target == line_of(temp_ins.ia)
<1>1. target \in Lines
      BY InsLine DEF PredictedTaken, At, ControlHasTarget, PipelineTypeOK
<1>2. GoTo("end") /\ pc = "cpu" /\ UNCHANGED super_in_response_buffer
      BY DEF PredictedTaken, At
<1>3. CASE SendPrefetch(target)
      BY <1>1, <1>2, <1>3, PrefetchCall
<1>4. CASE UNCHANGED super_in_request_buffer
      BY <1>2, <1>4, QuietStep DEF Quiet, ioVars
<1> QED
    BY <1>3, <1>4 DEF PredictedTaken

(* What the rest of the CPU's actions do to the cache: nothing.            *)
LEMMA QuietActions ==
  ASSUME Decode \/ ResponsesDone \/ FetchStall \/ RetireLimitReached \/ FetchAdvance
           \/ PopEmptyBlock \/ FetchStarved \/ PredictSkip \/ PredictStart \/ TraceOver
           \/ PredictedNotTaken \/ Mispredicted \/ RunOver
  PROVE  UNCHANGED l1iVars
<1>1. CASE Decode
      BY <1>1 DEF Decode
<1>2. CASE ~ Decode
  <2>1. Quiet /\ \E s : GoTo(s)
        BY <1>2, BlockOrNextGoes
           DEF ResponsesDone, FetchStall, RetireLimitReached, FetchAdvance, PopEmptyBlock,
               FetchStarved, PredictSkip, PredictStart, TraceOver, PredictedNotTaken,
               Mispredicted, RunOver
  <2> QED
      BY <2>1, QuietStep
<1> QED
    BY <1>1, <1>2

LEMMA CpuStepCalls ==
  ASSUME PipelineTypeOK, ControlHasTarget, CpuStep
  PROVE  [L1iNext]_l1iVars
<1>1. CASE ReceiveFetch
      BY <1>1, ReceiveCall DEF L1iNext, ClientStep
<1>2. CASE FetchIns
      BY <1>2, FetchCall DEF L1iNext, ClientStep, ReqObj
<1>3. CASE \E next : PredictIns(next)
      BY <1>3, PredictInsCall DEF L1iNext, ClientStep, ReqObj
<1>4. CASE PredictedTaken
      BY <1>4, PredictedTakenCall DEF L1iNext, ClientStep, ReqObj
<1>5. CASE NextStep
      BY <1>5 DEF NextStep, L1iNext, ClientStep
<1> QED
    BY <1>1, <1>2, <1>3, <1>4, <1>5, QuietActions
       DEF CpuStep, DecodeStage, FetchPart, PredictStage

(* The simulator drives the cache as L1iSpec lets any client drive it, so  *)
(* every theorem about L1iSpec is one about the simulator's cache.         *)
THEOREM SimDrivesCache == SimSpec => L1iSpec
<1>1. SimInit => L1iInit /\ PipelineTypeOK /\ ControlHasTarget
      BY PipelineTypeInit DEF SimInit, ControlHasTarget
<1>2. PipelineTypeOK /\ ControlHasTarget /\ [SimNext]_simVars => [L1iNext]_l1iVars
      BY CpuStepCalls DEF SimNext, Work, Terminating, L1iNext, simVars
<1>3. PipelineTypeOK /\ ControlHasTarget /\ [SimNext]_simVars
        => PipelineTypeOK' /\ ControlHasTarget'
      BY PipelineTypeNext, ControlHasTargetNext
<1> QED
    BY <1>1, <1>2, <1>3, PTL DEF SimSpec, L1iSpec

-----------------------------------------------------------------------------
(* The CPU's count of unanswered fetches.                                  *)

SimInv == L1iInv /\ PipelineTypeOK /\ ControlHasTarget /\ FetchAccounting

LEMMA PendingType ==
  ASSUME L1iInv
  PROVE  PendingFetches \in Seq(Lines)
<1>1. ResponseLines \in Seq(Lines) /\ super_in_request_buffer["f"] \in Seq(Lines)
      BY ResponseLinesType DEF L1iInv, CoreTypeOK
<1> QED
    BY <1>1 DEF PendingFetches, ResponseLines

LEMMA AccountingInit == SimInit => FetchAccounting
<1> SUFFICES ASSUME SimInit PROVE FetchAccounting
    OBVIOUS
<1>1. PendingFetches = <<>>
      BY ChannelStart DEF SimInit, Channel!ChannelInit
<1> QED
    BY <1>1 DEF SimInit, FetchAccounting

(* While the block and the calls to the cache stand, so does the account.  *)
LEMMA AccountKept ==
  ASSUME FetchAccounting, PendingFetches' = PendingFetches,
         UNCHANGED <<fetch_per_block, fetch_block>>
  PROVE  FetchAccounting'
BY DEF FetchAccounting

LEMMA QuietPending ==
  ASSUME UNCHANGED l1iVars
  PROVE  PendingFetches' = PendingFetches
BY PendingUnchanged DEF l1iVars, ioVars

LEMMA PrefetchPending ==
  ASSUME L1iInv, (\E line \in Lines : ClientSend("pf", line)) \/ UNCHANGED l1iVars
  PROVE  PendingFetches' = PendingFetches
<1>1. ASSUME NEW line \in Lines, ClientSend("pf", line)
      PROVE  PendingFetches' = PendingFetches
      BY <1>1, SendPending DEF ReqObj
<1> QED
    BY <1>1, QuietPending

LEMMA ReceiveAccounted ==
  ASSUME SimInv, ReceiveFetch
  PROVE  FetchAccounting'
<1>1. /\ PendingFetches \in Seq(Lines) /\ PendingFetches # <<>>
      /\ PendingFetches' = Tail(PendingFetches)
      BY PendingType, ReceiveCall, ReceivePending DEF SimInv
<1>2. /\ fetch_per_block' = fetch_per_block - 1
      /\ fetch_block' = fetch_block
      BY DEF ReceiveFetch, pipeVars
<1>3. /\ Len(Tail(PendingFetches)) = Len(PendingFetches) - 1
      /\ \A n \in DOMAIN Tail(PendingFetches) :
           n + 1 \in DOMAIN PendingFetches /\ Tail(PendingFetches)[n] = PendingFetches[n + 1]
      BY <1>1
<1> QED
    BY <1>1, <1>2, <1>3 DEF SimInv, FetchAccounting

(* Fetch moves on only when no request is open: with a block in place      *)
(* because the count says so, without one because requests have blocks.    *)
LEMMA ReadyHasNoPending ==
  ASSUME SimInv, FetchReady
  PROVE  PendingFetches = <<>> /\ fetch_per_block = 0
<1>1. PendingFetches \in Seq(Lines) /\ fetch_per_block = Len(PendingFetches)
      BY PendingType DEF SimInv, FetchAccounting
<1>2. CASE fetch_block = <<>>
  <2>1. DOMAIN PendingFetches = {}
        BY <1>2 DEF SimInv, FetchAccounting
  <2> QED
      BY <1>1, <2>1
<1>3. CASE fetch_per_block <= 0
      BY <1>1, <1>3
<1> QED
    BY <1>2, <1>3 DEF FetchReady

LEMMA MoveOnAccounted ==
  ASSUME SimInv, RetireLimitReached \/ FetchAdvance
  PROVE  FetchAccounting'
<1>1. FetchReady /\ fetch_per_block' = 0
      BY DEF RetireLimitReached, FetchAdvance
<1>2. PendingFetches' = PendingFetches
      BY QuietActions, QuietPending
<1> QED
    BY <1>1, <1>2, ReadyHasNoPending DEF FetchAccounting

LEMMA FetchInsAccounted ==
  ASSUME SimInv, FetchIns
  PROVE  FetchAccounting'
<1> DEFINE ins     == Head(Head(fetch_buffer))
           ins_cla == line_of(ins.ia)
<1>1. /\ ins_cla \in Lines /\ ins \in Ins
      /\ IF ins_cla # prev_fetch_cb THEN ClientSend("f", ins_cla) ELSE UNCHANGED l1iVars
      BY FetchCall DEF SimInv
<1>2. /\ fetch_block' = Append(fetch_block, ins) /\ fetch_block \in Seq(Ins)
      /\ fetch_per_block' = IF ins_cla # prev_fetch_cb THEN fetch_per_block + 1
                                                       ELSE fetch_per_block
      BY DEF FetchIns, fetchVars, SimInv, PipelineTypeOK
<1>3. PendingFetches \in Seq(Lines) /\ fetch_per_block = Len(PendingFetches)
      BY PendingType DEF SimInv, FetchAccounting
<1>4. /\ \A m \in DOMAIN fetch_block :
           m \in DOMAIN fetch_block' /\ fetch_block'[m] = fetch_block[m]
      /\ \E m \in DOMAIN fetch_block' : fetch_block'[m] = ins
      BY <1>1, <1>2
<1>5. \A n \in DOMAIN PendingFetches :
        \E m \in DOMAIN fetch_block' : line_of(fetch_block'[m].ia) = PendingFetches[n]
      BY <1>4 DEF SimInv, FetchAccounting
<1>6. CASE ins_cla # prev_fetch_cb
  <2>1. PendingFetches' = Append(PendingFetches, ins_cla)
        BY <1>1, <1>6, SendPending DEF SimInv, ReqObj
  <2>2. /\ Len(PendingFetches') = Len(PendingFetches) + 1
        /\ \A n \in DOMAIN PendingFetches' :
             \/ n \in DOMAIN PendingFetches /\ PendingFetches'[n] = PendingFetches[n]
             \/ PendingFetches'[n] = ins_cla
        BY <1>1, <1>3, <2>1
  <2> QED
      BY <1>2, <1>3, <1>4, <1>5, <1>6, <2>2 DEF FetchAccounting
<1>7. CASE ins_cla = prev_fetch_cb
  <2>1. PendingFetches' = PendingFetches
        BY <1>1, <1>7, QuietPending
  <2> QED
      BY <1>2, <1>3, <1>5, <1>7, <2>1 DEF FetchAccounting
<1> QED
    BY <1>6, <1>7

LEMMA AccountingNext ==
  ASSUME SimInv, [SimNext]_simVars
  PROVE  FetchAccounting'
<1> USE DEF SimInv
<1>1. CASE CacheStep /\ UNCHANGED cpuVars
      BY <1>1, CacheStepKeepsPending, AccountKept DEF cpuVars, pipeVars, fetchVars
<1>2. CASE UNCHANGED simVars
      BY <1>2, QuietPending, AccountKept DEF simVars, cpuVars, pipeVars, fetchVars
<1>3. CASE ReceiveFetch
      BY <1>3, ReceiveAccounted
<1>4. CASE RetireLimitReached \/ FetchAdvance
      BY <1>4, MoveOnAccounted
<1>5. CASE FetchIns
      BY <1>5, FetchInsAccounted
<1>6. CASE Decode \/ ResponsesDone \/ FetchStall \/ PopEmptyBlock \/ FetchStarved
             \/ PredictSkip \/ PredictStart \/ TraceOver \/ PredictedNotTaken
             \/ Mispredicted \/ RunOver
  <2>1. UNCHANGED <<fetch_per_block, fetch_block>>
        BY <1>6 DEF Decode, ResponsesDone, FetchStall, PopEmptyBlock, FetchStarved, PredictSkip,
                    PredictStart, TraceOver, PredictedNotTaken, Mispredicted, RunOver,
                    pipeVars, fetchVars
  <2> QED
      BY <1>6, <2>1, QuietActions, QuietPending, AccountKept
<1>7. CASE (\E next : PredictIns(next)) \/ PredictedTaken
  <2>1. UNCHANGED <<fetch_per_block, fetch_block>>
        BY <1>7 DEF PredictIns, PredictedTaken, fetchVars
  <2> QED
      BY <1>7, <2>1, PredictInsCall, PredictedTakenCall, PrefetchPending, AccountKept
<1>8. CASE NextStep
  <2>1. UNCHANGED <<fetch_per_block, fetch_block>> /\ PendingFetches' = PendingFetches
        BY <1>8, PendingUnchanged DEF NextStep, NextCycle, ioVars, pipeVars, fetchVars
  <2> QED
      BY <2>1, AccountKept
<1> QED
    BY <1>1, <1>2, <1>3, <1>4, <1>5, <1>6, <1>7, <1>8
       DEF SimNext, Work, Terminating, CpuStep, DecodeStage, FetchPart, PredictStage

LEMMA SimInvariant == SimSpec => []SimInv
<1>1. SimInit => SimInv
      BY InitInv, PipelineTypeInit, AccountingInit DEF SimInit, SimInv, ControlHasTarget
<1>2. SimInv /\ [SimNext]_simVars => SimInv'
  <2>1. SimInv /\ [SimNext]_simVars => L1iInv'
        BY CpuStepCalls, NextInv DEF SimNext, Work, Terminating, L1iNext, simVars, SimInv
  <2> QED
      BY <2>1, PipelineTypeNext, ControlHasTargetNext, AccountingNext DEF SimInv
<1> QED
    BY <1>1, <1>2, PTL DEF SimSpec

(* The CPU's count of unanswered fetches is the number of requests and     *)
(* responses in the cache, all for lines of the block being fetched:       *)
(* resetting it never hides an open request, and no block moves on before  *)
(* its lines have come.                                                    *)
THEOREM FetchAccountingCorrect == SimSpec => []FetchAccounting
<1>1. SimInv => FetchAccounting
      BY DEF SimInv
<1> QED
    BY <1>1, SimInvariant, PTL

-----------------------------------------------------------------------------
(* What is counted as retired and what is counted as decoded.              *)

Counted(uninit) ==
  uninit + retire_ins_count =
    total_decoded_ins + Len(iq_buffer) + IF stage = "done" THEN Len(fetch_block) ELSE 0

CountTypeOK == retire_ins_count \in Nat /\ total_decoded_ins \in Nat

LEMMA DecodeCounted ==
  ASSUME PipelineTypeOK, CountTypeOK, NEW uninit \in UninitValues, Counted(uninit), Decode
  PROVE  CountTypeOK' /\ Counted(uninit)'
<1>1. /\ iq_buffer \in Seq(Ins) /\ Len(iq_buffer) \in Nat
      /\ uninit \in Nat /\ d_pipe_width \in Nat
      BY RunaheadAssumption DEF PipelineTypeOK
<1>2. Len(iq_buffer') \in Nat /\ Len(iq_buffer') <= Len(iq_buffer)
  <2>1. CASE Len(iq_buffer) <= d_pipe_width
        BY <1>1, <2>1 DEF Decode
  <2>2. CASE ~ (Len(iq_buffer) <= d_pipe_width)
    <3>1. Len(iq_buffer') = Len(iq_buffer) - d_pipe_width
          BY <1>1, <2>2 DEF Decode
    <3> QED
        BY <1>1, <2>2, <3>1
  <2> QED
      BY <2>1, <2>2
<1>3. /\ total_decoded_ins' = total_decoded_ins + Len(iq_buffer) - Len(iq_buffer')
      /\ retire_ins_count' = retire_ins_count
      /\ stage = "decode" /\ stage' = "response"
      BY DEF Decode, At, statVars
<1>4. uninit + retire_ins_count = total_decoded_ins + Len(iq_buffer)
      BY <1>1, <1>3 DEF Counted, CountTypeOK
<1>5. CountTypeOK'
      BY <1>1, <1>2, <1>3 DEF CountTypeOK
<1>6. uninit + retire_ins_count' = total_decoded_ins' + Len(iq_buffer')
      BY <1>1, <1>2, <1>3, <1>4 DEF CountTypeOK
<1> QED
    BY <1>2, <1>3, <1>5, <1>6 DEF Counted, CountTypeOK

(* The block is counted as it enters the queue, or at the limit.           *)
LEMMA HandOverCounted ==
  ASSUME PipelineTypeOK, CountTypeOK, NEW uninit \in UninitValues, Counted(uninit),
         RetireLimitReached \/ FetchAdvance
  PROVE  CountTypeOK' /\ Counted(uninit)'
<1>1. /\ iq_buffer \in Seq(Ins) /\ Len(iq_buffer) \in Nat
      /\ fetch_block \in Seq(Ins) /\ Len(fetch_block) \in Nat /\ uninit \in Nat
      BY RunaheadAssumption DEF PipelineTypeOK
<1>2. /\ retire_ins_count' = retire_ins_count + Len(fetch_block)
      /\ total_decoded_ins' = total_decoded_ins /\ stage = "fetch"
      BY DEF RetireLimitReached, FetchAdvance, Retired, At, GoTo
<1>3. CountTypeOK'
      BY <1>1, <1>2 DEF CountTypeOK
<1>4. uninit + retire_ins_count = total_decoded_ins + Len(iq_buffer)
      BY <1>1, <1>2 DEF Counted, CountTypeOK
<1>5. CASE RetireLimitReached
  <2>1. iq_buffer' = iq_buffer /\ fetch_block' = fetch_block /\ stage' = "done"
        BY <1>5 DEF RetireLimitReached, GoTo, pipeVars
  <2>2. uninit + retire_ins_count' = total_decoded_ins' + Len(iq_buffer) + Len(fetch_block)
        BY <1>1, <1>2, <1>4 DEF CountTypeOK
  <2> QED
      BY <1>3, <2>1, <2>2 DEF Counted
<1>6. CASE FetchAdvance
  <2>1. iq_buffer' = iq_buffer \o fetch_block /\ stage' = "fetching"
        BY <1>6 DEF FetchAdvance, GoTo
  <2>2. Len(iq_buffer') = Len(iq_buffer) + Len(fetch_block)
        BY <1>1, <2>1
  <2>3. uninit + retire_ins_count' = total_decoded_ins' + Len(iq_buffer')
        BY <1>1, <1>2, <1>4, <2>2 DEF CountTypeOK
  <2> QED
      BY <1>1, <1>2, <1>3, <2>1, <2>2, <2>3 DEF Counted, CountTypeOK
<1> QED
    BY <1>5, <1>6

(* Nothing else touches the counts or the queue; when the trace is over    *)
(* the block is empty.                                                     *)
LEMMA OthersKeepCount ==
  ASSUME CpuStep, ~ (Decode \/ RetireLimitReached \/ FetchAdvance)
  PROVE  /\ UNCHANGED <<retire_ins_count, total_decoded_ins, iq_buffer>>
         /\ stage # "done"
         /\ stage' = "done" => fetch_block' = <<>>
<1>1. CASE ReceiveFetch \/ ResponsesDone
      BY <1>1 DEF ReceiveFetch, ResponsesDone, At, GoTo, pipeVars, statVars
<1>2. CASE FetchStall \/ PopEmptyBlock \/ FetchStarved \/ FetchIns
      BY <1>2 DEF FetchStall, PopEmptyBlock, FetchStarved, FetchIns, At, GoTo, pipeVars, statVars
<1>3. CASE PredictSkip \/ PredictStart \/ TraceOver
      BY <1>3 DEF PredictSkip, PredictStart, TraceOver, At, GoTo, pipeVars, statVars
<1>4. CASE \E next : PredictIns(next)
      BY <1>4 DEF PredictIns, BlockOrNext, At, GoTo, statVars
<1>5. CASE PredictedTaken \/ PredictedNotTaken \/ Mispredicted
      BY <1>5 DEF PredictedTaken, PredictedNotTaken, Mispredicted, BlockOrNext, At, GoTo, statVars
<1>6. CASE NextStep \/ RunOver
      BY <1>6 DEF NextStep, RunOver, Drained, At, GoTo, pipeVars, statVars
<1> QED
    BY <1>1, <1>2, <1>3, <1>4, <1>5, <1>6 DEF CpuStep, DecodeStage, FetchPart, PredictStage

LEMMA CountsNext ==
  ASSUME PipelineTypeOK, CountTypeOK, CountsAgree, [SimNext]_simVars
  PROVE  CountTypeOK' /\ CountsAgree'
<1>1. PICK uninit \in UninitValues : Counted(uninit)
      BY DEF CountsAgree, Counted
<1>2. CASE Decode
      BY <1>1, <1>2, DecodeCounted DEF CountsAgree, Counted
<1>3. CASE RetireLimitReached \/ FetchAdvance
      BY <1>1, <1>3, HandOverCounted DEF CountsAgree, Counted
<1>4. CASE CpuStep /\ ~ (Decode \/ RetireLimitReached \/ FetchAdvance)
  <2>1. /\ UNCHANGED <<retire_ins_count, total_decoded_ins, iq_buffer>>
        /\ stage # "done"
        /\ stage' = "done" => fetch_block' = <<>>
        BY <1>4, OthersKeepCount
  <2>2. (IF stage' = "done" THEN Len(fetch_block') ELSE 0) = 0
        BY <2>1
  <2> QED
      BY <1>1, <2>1, <2>2 DEF CountTypeOK, CountsAgree, Counted
<1>5. CASE UNCHANGED cpuVars
      BY <1>1, <1>5 DEF cpuVars, pipeVars, statVars, CountTypeOK, CountsAgree, Counted
<1> QED
    BY <1>2, <1>3, <1>4, <1>5 DEF SimNext, Work, Terminating, simVars

LEMMA CountsInit == SimInit => CountTypeOK /\ CountsAgree
<1> SUFFICES ASSUME SimInit PROVE CountTypeOK /\ CountsAgree
    OBVIOUS
<1>1. /\ retire_ins_count = 0 /\ total_decoded_ins \in UninitValues
      /\ Len(iq_buffer) = 0 /\ stage = "decode"
      BY DEF SimInit
<1> QED
    BY <1>1, RunaheadAssumption DEF CountTypeOK, CountsAgree

LEMMA CountsInvariant == SimSpec => [](CountTypeOK /\ CountsAgree)
<1>1. PipelineTypeOK /\ CountTypeOK /\ CountsAgree /\ [SimNext]_simVars
        => CountTypeOK' /\ CountsAgree'
      BY CountsNext
<1> QED
    BY <1>1, CountsInit, PipelineTypeCorrect, PTL DEF SimSpec

(* Whatever total_decoded_ins started at, it stays behind retire_ins_count *)
(* by exactly what has been handed over and not been decoded.              *)
THEOREM RetiredAccounted == SimSpec => []CountsAgree
BY CountsInvariant, PTL

-----------------------------------------------------------------------------
(* The pipeline as one queue.                                              *)

Flat == SeqExt!FlattenSeq(fetch_buffer)

(* The block under construction is empty except while predicting, which    *)
(* goes on only after a misprediction has drained; a control instruction   *)
(* that is being predicted is the last of the block.                       *)
PredictInv ==
  /\ last_misp \in BOOLEAN
  /\ stage \in {"predicting", "control"} => last_misp = FALSE
  /\ stage \notin {"predicting", "control"} => prefetch_block = <<>>
  /\ stage = "control" => prefetch_block # <<>>

QueueInv == PipelineTypeOK /\ CountTypeOK /\ PredictInv

LEMMA PredictInvNext ==
  ASSUME PredictInv, PipelineTypeOK, [SimNext]_simVars
  PROVE  PredictInv'
<1>1. CASE UNCHANGED cpuVars
      BY <1>1 DEF PredictInv, cpuVars, pipeVars, predVars
<1>2. CASE DecodeStage
      BY <1>2 DEF DecodeStage, Decode, ReceiveFetch, ResponsesDone, At, GoTo, PredictInv,
                  pipeVars, predVars
<1>3. CASE FetchPart
      BY <1>3 DEF FetchPart, FetchStall, RetireLimitReached, FetchAdvance, PopEmptyBlock,
                  FetchStarved, FetchIns, At, GoTo, PredictInv, pipeVars, predVars
<1>4. CASE PredictSkip \/ PredictStart \/ TraceOver
      BY <1>4 DEF PredictSkip, PredictStart, TraceOver, PushBlock, At, GoTo, PredictInv,
                  pipeVars, predVars
<1>5. ASSUME NEW next, PredictIns(next)
      PROVE  PredictInv'
  <2>1. temp_ins \in Ins /\ prefetch_block \in Seq(Ins)
        BY <1>5 DEF PredictIns, PipelineTypeOK
  <2>2. Append(prefetch_block, temp_ins) # <<>>
        BY <2>1, AppendProperties
  <2> QED
      BY <1>5, <2>2 DEF PredictIns, BlockOrNext, PushBlock, KeepBlock, At, GoTo, PredictInv
<1>6. CASE PredictedTaken \/ PredictedNotTaken \/ Mispredicted
      BY <1>6 DEF PredictedTaken, PredictedNotTaken, Mispredicted, BlockOrNext, PushBlock,
                  KeepBlock, At, GoTo, PredictInv, predVars
<1>7. CASE NextStep \/ RunOver
      BY <1>7 DEF NextStep, RunOver, At, GoTo, PredictInv, pipeVars, predVars
<1> QED
    BY <1>1, <1>2, <1>3, <1>4, <1>5, <1>6, <1>7
       DEF SimNext, Work, Terminating, CpuStep, PredictStage, simVars

LEMMA FlatType ==
  ASSUME PipelineTypeOK
  PROVE  Flat \in Seq(Ins)
BY FlattenType DEF Flat, PipelineTypeOK

LEMMA WindowType ==
  ASSUME PipelineTypeOK
  PROVE  Window \in Seq(Ins)
<1>1. iq_buffer \in Seq(Ins) /\ fetch_block \in Seq(Ins) /\ prefetch_block \in Seq(Ins)
      BY DEF PipelineTypeOK
<1>2. Flat \in Seq(Ins)
      BY FlatType
<1> QED
    BY <1>1, <1>2 DEF Window, Flat

(* Blocks move along the queue and leave it as it is.                      *)
LEMMA AdvanceKeepsWindow ==
  ASSUME PipelineTypeOK, FetchAdvance
  PROVE  Window' = Window
<1>1. /\ iq_buffer \in Seq(Ins) /\ fetch_block \in Seq(Ins) /\ prefetch_block \in Seq(Ins)
      /\ Flat \in Seq(Ins)
      BY FlatType DEF PipelineTypeOK
<1>2. /\ iq_buffer' = iq_buffer \o fetch_block /\ fetch_block' = <<>>
      /\ Flat' = Flat /\ prefetch_block' = prefetch_block
      BY DEF FetchAdvance, Flat
<1>3. (iq_buffer \o fetch_block) \o <<>> = iq_buffer \o fetch_block
      BY <1>1
<1> QED
    BY <1>2, <1>3, Zenon DEF Window, Flat

LEMMA PopKeepsFlat ==
  ASSUME PipelineTypeOK, PopEmptyBlock
  PROVE  Flat' = Flat
<1>1. /\ fetch_buffer \in Seq(Seq(Ins)) /\ fetch_buffer # <<>> /\ Head(fetch_buffer) = <<>>
      /\ fetch_buffer' = Tail(fetch_buffer)
      BY DEF PopEmptyBlock, PipelineTypeOK
<1>2. SeqExt!FlattenSeq(Tail(fetch_buffer)) \in Seq(Ins)
  <2>1. Tail(fetch_buffer) \in Seq(Seq(Ins))
        BY <1>1
  <2> QED
      BY <2>1, FlattenType
<1>3. Flat = <<>> \o SeqExt!FlattenSeq(Tail(fetch_buffer))
      BY <1>1, FlattenHead DEF Flat
<1>4. Flat = SeqExt!FlattenSeq(Tail(fetch_buffer))
      BY <1>2, <1>3
<1> QED
    BY <1>1, <1>4, Zenon DEF Flat

LEMMA PopKeepsWindow ==
  ASSUME PipelineTypeOK, PopEmptyBlock
  PROVE  Window' = Window
<1>1. UNCHANGED <<iq_buffer, fetch_block, prefetch_block>> /\ Flat' = Flat
      BY PopKeepsFlat DEF PopEmptyBlock
<1> QED
    BY <1>1, Zenon DEF Window, Flat

(* Fetch takes the oldest instruction of the blocks.                       *)
LEMMA FetchInsFlat ==
  ASSUME PipelineTypeOK, FetchIns
  PROVE  /\ Head(Head(fetch_buffer)) \in Ins /\ Flat' \in Seq(Ins)
         /\ Flat = <<Head(Head(fetch_buffer))>> \o Flat'
<1> DEFINE h == Head(fetch_buffer)
           t == Tail(fetch_buffer)
           F == SeqExt!FlattenSeq(t)
<1>1. /\ fetch_buffer \in Seq(Seq(Ins)) /\ fetch_buffer # <<>> /\ h # <<>>
      /\ fetch_buffer' = <<Tail(h)>> \o t
      BY DEF FetchIns, PipelineTypeOK
<1>2. h \in Seq(Ins) /\ t \in Seq(Seq(Ins))
      BY <1>1
<1>3. Head(h) \in Ins /\ Tail(h) \in Seq(Ins) /\ h = <<Head(h)>> \o Tail(h)
  <2> HIDE DEF h
  <2> QED
      BY <1>1, <1>2
<1>4. F \in Seq(Ins)
      BY <1>2, FlattenType
<1>5. Flat = h \o F
      BY <1>1, FlattenHead DEF Flat
<1>6. Flat' = Tail(h) \o F
  <2>1. /\ fetch_buffer' \in Seq(Seq(Ins)) /\ fetch_buffer' # <<>>
        /\ Head(fetch_buffer') = Tail(h) /\ Tail(fetch_buffer') = t
    <3>1. Tail(h) \in Seq(Ins)
          BY <1>3
    <3> HIDE DEF h, t
    <3>2. /\ <<Tail(h)>> \o t \in Seq(Seq(Ins)) /\ <<Tail(h)>> \o t # <<>>
          /\ Head(<<Tail(h)>> \o t) = Tail(h) /\ Tail(<<Tail(h)>> \o t) = t
          BY <1>2, <3>1, PrependProperties
    <3> QED
        BY <1>1, <3>2, Zenon
  <2>2. SeqExt!FlattenSeq(fetch_buffer') = Head(fetch_buffer') \o SeqExt!FlattenSeq(Tail(fetch_buffer'))
        BY <2>1, FlattenHead
  <2> QED
      BY <2>1, <2>2, Zenon DEF Flat
<1> HIDE DEF h, t, F
<1>7. Tail(h) \o F \in Seq(Ins) /\ <<Head(h)>> \in Seq(Ins)
      BY <1>3, <1>4, ConcatProperties
<1>8. Associates(<<Head(h)>>, Tail(h), F)
      BY <1>3, <1>4, <1>7, ConcatAssociates
<1>9. Flat = <<Head(h)>> \o Flat'
      BY <1>3, <1>5, <1>6, <1>8, Zenon DEF Associates
<1> QED
    BY <1>3, <1>6, <1>7, <1>9, Zenon DEF h

LEMMA FetchInsKeepsWindow ==
  ASSUME PipelineTypeOK, FetchIns
  PROVE  Window' = Window
<1> DEFINE one == <<Head(Head(fetch_buffer))>>
<1>1. /\ UNCHANGED <<iq_buffer, prefetch_block>>
      /\ iq_buffer \in Seq(Ins) /\ fetch_block \in Seq(Ins) /\ Flat \in Seq(Ins)
      BY FlatType DEF FetchIns, PipelineTypeOK
<1>2. one \in Seq(Ins) /\ Flat' \in Seq(Ins) /\ Flat = one \o Flat'
      BY FetchInsFlat
<1>3. fetch_block' = fetch_block \o one
  <2>1. fetch_block' = Append(fetch_block, Head(Head(fetch_buffer)))
        BY DEF FetchIns
  <2>2. Append(fetch_block, Head(Head(fetch_buffer))) = fetch_block \o one
        BY <1>1, FetchInsFlat, AppendIsConcat
  <2> QED
      BY <2>1, <2>2
<1> HIDE DEF one
<1>4. fetch_block \o one \in Seq(Ins)
      BY <1>1, <1>2
<1>5. Associates(fetch_block, one, Flat') /\ Associates(iq_buffer, fetch_block, Flat)
      BY <1>1, <1>2, ConcatAssociates
<1>6. Associates(iq_buffer, fetch_block \o one, Flat')
      BY <1>1, <1>2, <1>4, ConcatAssociates
<1>7. iq_buffer \o fetch_block' \o Flat' = iq_buffer \o fetch_block \o Flat
      BY <1>2, <1>3, <1>5, <1>6, Zenon DEF Associates
<1> QED
    BY <1>1, <1>7, Zenon DEF Window, Flat

(* A block that is pushed stays at the end of the queue.                   *)
LEMMA PushFlat ==
  ASSUME PipelineTypeOK, NEW block \in Seq(Ins), PushBlock(block) \/ KeepBlock(block)
  PROVE  /\ Flat' \in Seq(Ins) /\ prefetch_block' \in Seq(Ins)
         /\ Flat' \o prefetch_block' = Flat \o block
<1>1. Flat \in Seq(Ins) /\ fetch_buffer \in Seq(Seq(Ins)) /\ Flat \o block \in Seq(Ins)
      BY FlatType, ConcatProperties DEF PipelineTypeOK
<1>2. CASE KeepBlock(block)
      BY <1>1, <1>2 DEF KeepBlock, Flat
<1>3. CASE PushBlock(block)
  <2>1. Flat' = Flat \o block
    <3>1. CASE block = <<>>
      <4>1. Flat \o <<>> = Flat
            BY <1>1
      <4> QED
          BY <1>3, <3>1, <4>1, Zenon DEF PushBlock, Flat
    <3>2. CASE block # <<>>
          BY <1>1, <1>3, <3>2, FlattenAppend DEF PushBlock, Flat
    <3> QED
        BY <3>1, <3>2
  <2>2. prefetch_block' = <<>>
        BY <1>3 DEF PushBlock
  <2>3. (Flat \o block) \o <<>> = Flat \o block
        BY <1>1, ConcatEmptySeq
  <2> QED
      BY <1>1, <2>1, <2>2, <2>3
<1> QED
    BY <1>2, <1>3

LEMMA PushWindow ==
  ASSUME PipelineTypeOK, NEW block \in Seq(Ins), PushBlock(block) \/ KeepBlock(block),
         UNCHANGED <<iq_buffer, fetch_block>>
  PROVE  Window' = iq_buffer \o fetch_block \o Flat \o block
<1> DEFINE front == iq_buffer \o fetch_block
<1>1. front \in Seq(Ins) /\ Flat \in Seq(Ins)
      BY FlatType DEF PipelineTypeOK
<1>2. /\ Flat' \in Seq(Ins) /\ prefetch_block' \in Seq(Ins)
      /\ Flat' \o prefetch_block' = Flat \o block
      BY PushFlat
<1>3. Window' = (front \o Flat') \o prefetch_block'
      BY Zenon DEF Window, Flat
<1> HIDE DEF front
<1>4. Associates(front, Flat', prefetch_block') /\ Associates(front, Flat, block)
      BY <1>1, <1>2, ConcatAssociates
<1>5. Window' = (front \o Flat) \o block
      BY <1>2, <1>3, <1>4, Zenon DEF Associates
<1> QED
    BY <1>5, Zenon DEF front

(* What a step of the simulator has to be.                                 *)
FrontEndStep == RunAhead!FrontEndNext \/ UNCHANGED RunAhead!frontEndVars

(* Decode takes the front of the queue.                                    *)
LEMMA DecodeTakesFront ==
  ASSUME PipelineTypeOK, CountTypeOK, Decode
  PROVE  FrontEndStep
<1> DEFINE rest == fetch_block \o Flat \o prefetch_block
           k == Len(iq_buffer) - Len(iq_buffer')
<1>1. /\ iq_buffer \in Seq(Ins) /\ fetch_block \in Seq(Ins) /\ prefetch_block \in Seq(Ins)
      /\ Flat \in Seq(Ins) /\ Len(iq_buffer) \in Nat /\ d_pipe_width \in Nat
      BY FlatType, RunaheadAssumption DEF PipelineTypeOK
<1>2. /\ UNCHANGED <<temp_ins, fetch_block, prefetch_block, last_misp>> /\ Flat' = Flat
      /\ total_decoded_ins' = total_decoded_ins + Len(iq_buffer) - Len(iq_buffer')
      BY DEF Decode, predVars, Flat
<1>3. /\ k \in 0 .. Len(iq_buffer) /\ k <= d_pipe_width
      /\ iq_buffer' = SubSeq(iq_buffer, k + 1, Len(iq_buffer))
  <2>1. CASE Len(iq_buffer) <= d_pipe_width
    <3>1. iq_buffer' = <<>> /\ Len(iq_buffer') = 0
          BY <2>1 DEF Decode
    <3>2. SubSeq(iq_buffer, Len(iq_buffer) + 1, Len(iq_buffer)) = <<>>
          BY <1>1, SubSeqEmpty
    <3>3. k = Len(iq_buffer)
          BY <1>1, <3>1
    <3> QED
        BY <1>1, <2>1, <3>1, <3>2, <3>3
  <2>2. CASE ~ (Len(iq_buffer) <= d_pipe_width)
    <3>1. iq_buffer' = SubSeq(iq_buffer, d_pipe_width + 1, Len(iq_buffer))
          BY <2>2 DEF Decode
    <3>2. Len(iq_buffer') = Len(iq_buffer) - d_pipe_width
          BY <1>1, <2>2, <3>1
    <3>3. k = d_pipe_width
          BY <1>1, <3>2
    <3> HIDE DEF k
    <3>4. k \in 0 .. Len(iq_buffer) /\ k <= d_pipe_width
          BY <1>1, <2>2, <3>3
    <3> QED
        BY <3>1, <3>3, <3>4, Zenon
  <2> QED
      BY <2>1, <2>2
<1> HIDE DEF k
<1>4. Window = iq_buffer \o rest /\ Window' = iq_buffer' \o rest /\ rest \in Seq(Ins)
  <2>0. fetch_block \o Flat \in Seq(Ins)
        BY <1>1, ConcatProperties
  <2>1. ASSUME NEW a \in Seq(Ins)
        PROVE  a \o fetch_block \o Flat \o prefetch_block = a \o rest
    <3>1. Associates(a, fetch_block, Flat)
          BY <1>1, ConcatAssociates
    <3>2. Associates(a, fetch_block \o Flat, prefetch_block)
          BY <1>1, <2>0, ConcatAssociates
    <3> QED
        BY <3>1, <3>2, Zenon DEF Associates
  <2>4. rest \in Seq(Ins)
        BY <1>1
  <2>2. iq_buffer' \in Seq(Ins)
        BY <1>1, <1>3, DropFront
  <2> HIDE DEF rest
  <2> QED
      BY <1>1, <1>2, <2>1, <2>2, <2>4, Zenon DEF Window, Flat
<1> HIDE DEF rest
<1>5. Window' = SubSeq(Window, k + 1, Len(Window))
      BY <1>1, <1>3, <1>4, ConcatDropFront
<1>6. total_decoded_ins' = total_decoded_ins + k
      BY <1>1, <1>2, <1>3 DEF CountTypeOK, k
<1>7. CASE k = 0
  <2>1. SubSeq(iq_buffer, 1, Len(iq_buffer)) = iq_buffer
        BY <1>1, SubSeqFull
  <2>2. iq_buffer' = iq_buffer
        BY <1>3, <1>7, <2>1
  <2>3. total_decoded_ins' = total_decoded_ins
        BY <1>6, <1>7 DEF CountTypeOK
  <2> QED
      BY <1>2, <1>4, <2>2, <2>3, Zenon DEF FrontEndStep, RunAhead!frontEndVars
<1>8. CASE k # 0
  <2>1. k \in 1 .. d_pipe_width /\ k <= Len(Window)
    <3>1. Len(Window) = Len(iq_buffer) + Len(rest) /\ Len(rest) \in Nat
          BY <1>1, <1>4
    <3> QED
        BY <1>1, <1>3, <1>8, <3>1
  <2>2. RunAhead!Decode(k)
        BY <1>2, <1>5, <1>6 DEF RunAhead!Decode
  <2> QED
      BY <2>1, <2>2 DEF FrontEndStep, RunAhead!FrontEndNext
<1> QED
    BY <1>7, <1>8

(* A step that moves nothing in or out.                                    *)
LEMMA QueueStands ==
  ASSUME Window' = Window, UNCHANGED <<temp_ins, total_decoded_ins, last_misp>>
  PROVE  FrontEndStep
BY DEF FrontEndStep, RunAhead!frontEndVars

(* An instruction enters the queue at its end.                             *)
LEMMA PredictReads ==
  ASSUME QueueInv, NEW next \in parse_ins(temp_ins.n + 1),
         PredictIns(next)
  PROVE  FrontEndStep
<1>1. /\ prefetch_block \in Seq(Ins) /\ temp_ins \in Ins /\ last_misp = FALSE
      /\ iq_buffer \in Seq(Ins) /\ fetch_block \in Seq(Ins) /\ Flat \in Seq(Ins)
      /\ PipelineTypeOK
      BY FlatType DEF QueueInv, PipelineTypeOK, PredictInv, PredictIns, At
<1>2. next \in Ins /\ next.n = temp_ins.n + 1 /\ temp_ins' = next /\ temp_ins # NULL
      BY <1>1 DEF PredictIns, parse_ins, Ins
<1> DEFINE block == Append(prefetch_block, temp_ins)
<1>3. /\ PushBlock(block) \/ KeepBlock(block)
      /\ UNCHANGED <<iq_buffer, fetch_block, total_decoded_ins, last_misp>>
      BY DEF PredictIns, BlockOrNext, GoTo
<1>4. Window' = iq_buffer \o fetch_block \o Flat \o block
  <2>1. block \in Seq(Ins)
        BY <1>1
  <2> HIDE DEF block
  <2> QED
      BY <1>1, <1>3, <2>1, PushWindow
<1>5. Window' = Append(Window, temp_ins)
  <2> DEFINE front == iq_buffer \o fetch_block \o Flat
  <2>1. front \in Seq(Ins) /\ Window = front \o prefetch_block
        BY <1>1, Zenon, ConcatProperties DEF Window, Flat
  <2>2. Window' = front \o block
        BY <1>4, Zenon
  <2> HIDE DEF front
  <2>3. front \o block = Append(front \o prefetch_block, temp_ins)
        BY <1>1, <2>1, AppendLast
  <2> QED
      BY <2>1, <2>2, <2>3, Zenon
<1> QED
    BY <1>1, <1>2, <1>3, <1>5 DEF FrontEndStep, RunAhead!FrontEndNext, RunAhead!Read

(* The block is pushed as it is.                                           *)
LEMMA PushKeepsWindow ==
  ASSUME PipelineTypeOK, PushBlock(prefetch_block) \/ KeepBlock(prefetch_block),
         UNCHANGED <<iq_buffer, fetch_block>>
  PROVE  Window' = Window
<1>1. prefetch_block \in Seq(Ins)
      BY DEF PipelineTypeOK
<1>2. Window' = iq_buffer \o fetch_block \o Flat \o prefetch_block
      BY <1>1, PushWindow
<1> QED
    BY <1>2, Zenon DEF Window, Flat

(* What is mispredicted is the youngest of the queue, and a control        *)
(* instruction.                                                            *)
LEMMA MispredictedLast ==
  ASSUME QueueInv, Mispredicted
  PROVE  FrontEndStep
<1>1. /\ PipelineTypeOK /\ prefetch_block \in Seq(Ins) /\ prefetch_block # <<>>
      /\ iq_buffer \in Seq(Ins) /\ fetch_block \in Seq(Ins) /\ Flat \in Seq(Ins)
      BY FlatType DEF QueueInv, PipelineTypeOK, PredictInv, Mispredicted, At
<1>2. /\ last_misp' = TRUE /\ UNCHANGED <<temp_ins, total_decoded_ins>>
      /\ UNCHANGED <<iq_buffer, fetch_block>> /\ PushBlock(prefetch_block)
      BY DEF Mispredicted, GoTo
<1>3. Window' = Window
      BY <1>1, <1>2, PushKeepsWindow
<1>4. Current.kind # "none"
      BY RunaheadAssumption DEF Mispredicted
<1>5. Window # <<>> /\ Window[Len(Window)] = Current
  <2> DEFINE f == iq_buffer \o fetch_block \o Flat
  <2>1. f \in Seq(Ins) /\ Window = f \o prefetch_block
        BY <1>1 DEF Window, Flat
  <2> HIDE DEF f
  <2>2. /\ Len(f) \in Nat /\ Len(prefetch_block) \in Nat \ {0}
        /\ Len(f \o prefetch_block) = Len(f) + Len(prefetch_block)
        /\ \A j \in 1 .. Len(f) + Len(prefetch_block) :
             (f \o prefetch_block)[j] = IF j <= Len(f) THEN f[j] ELSE prefetch_block[j - Len(f)]
        BY <1>1, <2>1, ConcatProperties
  <2> DEFINE n == Len(f)
             m == Len(prefetch_block)
  <2>3. n + m \in 1 .. n + m /\ ~ (n + m <= n) /\ (n + m) - n = m /\ n + m # 0
    <3> HIDE DEF n, m
    <3>1. n \in Nat /\ m \in Nat \ {0}
          BY <2>2 DEF n, m
    <3> QED
        BY <3>1
  <2>4. (f \o prefetch_block)[Len(f \o prefetch_block)] = prefetch_block[m]
        BY <2>2, <2>3, Zenon
  <2>5. f \o prefetch_block # <<>>
        BY <2>1, <2>2, <2>3
  <2> QED
      BY <2>1, <2>4, <2>5, Zenon DEF Current
<1> QED
    BY <1>2, <1>3, <1>4, <1>5 DEF FrontEndStep, RunAhead!FrontEndNext, RunAhead!Mispredict

(* Reading resumes when the queue has run dry.                             *)
LEMMA PredictResumes ==
  ASSUME QueueInv, PredictStart
  PROVE  FrontEndStep
<1>1. /\ last_misp' = FALSE /\ last_misp \in BOOLEAN /\ prefetch_block = <<>>
      /\ ~ last_misp \/ Drained
      /\ UNCHANGED <<temp_ins, total_decoded_ins>> /\ UNCHANGED pipeVars
      BY DEF PredictStart, At, QueueInv, PredictInv, GoTo, pipeVars
<1>2. Window' = Window
      BY <1>1, Zenon DEF pipeVars, Window
<1>3. CASE last_misp
  <2>1. iq_buffer = <<>> /\ fetch_block = <<>> /\ fetch_buffer = <<>>
        BY <1>1, <1>3 DEF Drained
  <2>2. SeqExt!FlattenSeq(fetch_buffer) = <<>>
        BY <2>1, FlattenEmpty
  <2>3. Window = <<>> \o <<>> \o <<>> \o <<>>
        BY <1>1, <2>1, <2>2, Zenon DEF Window
  <2>4. Window = <<>>
        BY <2>3
  <2> QED
      BY <1>1, <1>2, <2>4 DEF FrontEndStep, RunAhead!FrontEndNext, RunAhead!Resume
<1>4. CASE ~ last_misp
      BY <1>1, <1>2, <1>4, QueueStands
<1> QED
    BY <1>3, <1>4

LEMMA FrontEndNextStep ==
  ASSUME QueueInv, [SimNext]_simVars
  PROVE  FrontEndStep
<1> USE DEF QueueInv
<1>1. CASE UNCHANGED cpuVars
  <2>1. /\ UNCHANGED <<temp_ins, iq_buffer, fetch_block, fetch_buffer, prefetch_block>>
        /\ UNCHANGED <<total_decoded_ins, last_misp>>
        BY <1>1 DEF cpuVars, pipeVars, predVars
  <2>2. Window' = Window
        BY <2>1, Zenon DEF Window
  <2> QED
      BY <2>1, <2>2, QueueStands
<1>2. CASE Decode
      BY <1>2, DecodeTakesFront
<1>3. CASE ReceiveFetch \/ ResponsesDone \/ FetchStall \/ RetireLimitReached \/ FetchStarved
             \/ PredictSkip \/ NextStep \/ RunOver
  <2>1. /\ UNCHANGED <<temp_ins, iq_buffer, fetch_block, fetch_buffer, prefetch_block>>
        /\ UNCHANGED <<total_decoded_ins, last_misp>>
        BY <1>3 DEF ReceiveFetch, ResponsesDone, FetchStall, RetireLimitReached, FetchStarved,
                    PredictSkip, NextStep, RunOver, GoTo, pipeVars, predVars
  <2>2. Window' = Window
        BY <2>1, Zenon DEF Window
  <2> QED
      BY <2>1, <2>2, QueueStands
<1>4. CASE FetchAdvance \/ PopEmptyBlock \/ FetchIns
  <2>1. UNCHANGED <<temp_ins, total_decoded_ins, last_misp>>
        BY <1>4 DEF FetchAdvance, PopEmptyBlock, FetchIns, GoTo, predVars
  <2>2. Window' = Window
        BY <1>4, AdvanceKeepsWindow, PopKeepsWindow, FetchInsKeepsWindow
  <2> QED
      BY <2>1, <2>2, QueueStands
<1>5. CASE PredictStart
      BY <1>5, PredictResumes
<1>6. CASE TraceOver
  <2>1. last_misp = FALSE /\ UNCHANGED <<total_decoded_ins, last_misp>> /\ temp_ins' = NULL
        BY <1>6 DEF TraceOver, At, GoTo, PredictInv
  <2>2. Window' = Window
        BY <1>6, PushKeepsWindow DEF TraceOver
  <2> QED
      BY <2>1, <2>2 DEF FrontEndStep, RunAhead!FrontEndNext, RunAhead!EndOfTrace
<1>7. ASSUME NEW next \in parse_ins(temp_ins.n + 1), PredictIns(next)
      PROVE  FrontEndStep
      BY <1>7, PredictReads
<1>8. CASE PredictedTaken \/ PredictedNotTaken
  <2>1. UNCHANGED <<temp_ins, total_decoded_ins, last_misp>>
        BY <1>8 DEF PredictedTaken, PredictedNotTaken, BlockOrNext, GoTo, predVars
  <2>2. Window' = Window
        BY <1>8, PushKeepsWindow DEF PredictedTaken, PredictedNotTaken, BlockOrNext
  <2> QED
      BY <2>1, <2>2, QueueStands
<1>9. CASE Mispredicted
      BY <1>9, MispredictedLast
<1> QED
    BY <1>1, <1>2, <1>3, <1>4, <1>5, <1>6, <1>7, <1>8, <1>9
       DEF SimNext, Work, Terminating, CpuStep, DecodeStage, FetchPart, PredictStage, simVars

(* The buffers implement one queue between the trace and decode that       *)
(* drains after every misprediction: however blocks are cut, moved, popped *)
(* and emptied, no instruction is lost, repeated or overtaken.             *)
THEOREM PipelineIsFrontEnd == SimSpec => FrontEndInOrder
<1>1. SimInit => RunAhead!FrontEndInit /\ PredictInv
  <2> SUFFICES ASSUME SimInit PROVE RunAhead!FrontEndInit /\ PredictInv
      OBVIOUS
  <2>1. /\ iq_buffer = <<>> /\ fetch_block = <<>> /\ prefetch_block = <<>> /\ fetch_buffer = <<>>
        /\ temp_ins \in parse_ins(1) /\ total_decoded_ins \in UninitValues
        /\ last_misp \in BOOLEAN /\ stage = "decode"
        BY DEF SimInit
  <2>2. SeqExt!FlattenSeq(fetch_buffer) = <<>>
        BY <2>1, FlattenEmpty
  <2>3. Window = <<>> \o <<>> \o <<>> \o <<>>
        BY <2>1, <2>2, Zenon DEF Window
  <2>4. Window = <<>>
        BY <2>3
  <2>5. temp_ins \in {ins \in Ins : ins.n = 1} \cup {NULL}
        BY <2>1, TraceAssumption DEF parse_ins, Ins
  <2> QED
      BY <2>1, <2>4, <2>5 DEF RunAhead!FrontEndInit, PredictInv
<1>2. QueueInv /\ [SimNext]_simVars => [RunAhead!FrontEndNext]_(RunAhead!frontEndVars)
      BY FrontEndNextStep DEF FrontEndStep
<1>3. PipelineTypeOK /\ PredictInv /\ [SimNext]_simVars => PredictInv'
      BY PredictInvNext
<1>4. SimSpec => []QueueInv
      BY <1>1, <1>3, PipelineTypeCorrect, CountsInvariant, PTL DEF SimSpec, QueueInv
<1> QED
    BY <1>1, <1>2, <1>4, PTL DEF SimSpec, FrontEndInOrder, RunAhead!FrontEndSpec

-----------------------------------------------------------------------------
(* The stall counters.  A cycle that is stalled on the cache is counted by *)
(* ifetch_stalls before it is by total_stalls, and a cycle's stall before  *)
(* steps counts the cycle.                                                 *)

LEMMA CacheStepSameCycle ==
  ASSUME CacheStep
  PROVE  steps' = steps
BY DEF CacheStep, FillStep, FillLine, FillEnd, FetchStep, FetchHit, FetchMerge, FetchMiss,
       FetchEnd, PrefetchStep, PrefetchMerge, PrefetchHit, PrefetchMiss, PrefetchEnd

StallInv ==
  /\ total_stalls \in Nat /\ ifetch_stalls \in Nat /\ decode_stalls \in Nat
  /\ decode_stalls <= ifetch_stalls
  /\ ifetch_stalls <= total_stalls + IF stage = "fetch" /\ fetch_per_block > 0 THEN 1 ELSE 0
  /\ total_stalls <= steps + IF stage \in {"decode", "response", "fetch"} THEN 0 ELSE 1

LEMMA StallNext ==
  ASSUME SimInv, StallInv, [SimNext]_simVars
  PROVE  StallInv'
<1>1. steps \in Nat /\ fetch_per_block \in Nat
      BY PendingType DEF SimInv, FetchAccounting, L1iInv, CoreTypeOK, ControlTypeOK
<1>2. CASE UNCHANGED cpuVars /\ steps' = steps
      BY <1>2 DEF StallInv, cpuVars, statVars, fetchVars
<1>3. CASE Decode \/ ReceiveFetch
      BY <1>1, <1>3 DEF StallInv, Decode, ReceiveFetch, At, GoTo, statVars, fetchVars, l1iVars
<1>4. CASE ResponsesDone
      BY <1>1, <1>4 DEF StallInv, ResponsesDone, At, GoTo, fetchVars
<1>5. CASE FetchStall
      BY <1>1, <1>5 DEF StallInv, FetchStall, At, GoTo, fetchVars
<1>6. CASE RetireLimitReached \/ FetchAdvance
  <2>1. fetch_per_block = 0
        BY <1>6, ReadyHasNoPending DEF RetireLimitReached, FetchAdvance
  <2> QED
      BY <1>1, <1>6, <2>1 DEF StallInv, RetireLimitReached, FetchAdvance, At, GoTo
<1>7. CASE PopEmptyBlock \/ FetchStarved \/ FetchIns \/ PredictSkip \/ PredictStart \/ TraceOver
             \/ (\E next : PredictIns(next)) \/ PredictedTaken \/ PredictedNotTaken
             \/ Mispredicted \/ RunOver
  <2>1. /\ UNCHANGED statVars /\ steps' = steps
        /\ stage \notin {"decode", "response", "fetch"}
        /\ stage' \notin {"decode", "response", "fetch"}
        BY <1>7 DEF PopEmptyBlock, FetchStarved, FetchIns, PredictSkip, PredictStart, TraceOver,
                    PredictIns, PredictedTaken, PredictedNotTaken, Mispredicted, RunOver,
                    BlockOrNext, At, GoTo
  <2> QED
      BY <1>1, <2>1 DEF StallInv, statVars
<1>8. CASE NextStep
      BY <1>1, <1>8 DEF StallInv, NextStep, NextCycle, statVars
<1> QED
    BY <1>2, <1>3, <1>4, <1>5, <1>6, <1>7, <1>8, CacheStepSameCycle
       DEF SimNext, Work, Terminating, CpuStep, DecodeStage, FetchPart, PredictStage, simVars,
           l1iVars

LEMMA StallInvariant == SimSpec => []StallInv
<1>1. SimInit => StallInv
      BY DEF SimInit, L1iInit, StallInv
<1>2. SimInv /\ StallInv /\ [SimNext]_simVars => StallInv'
      BY StallNext
<1> QED
    BY <1>1, <1>2, SimInvariant, PTL DEF SimSpec

(* A cycle in which decode is starved by a stalled fetch is one in which   *)
(* fetch is stalled on the cache, each of those is a stalled cycle, and    *)
(* there are no more of them than cycles.                                  *)
THEOREM StallCountersNest == SimSpec => []StallsNest
<1>1. SimInv /\ StallInv => StallsNest
  <2> SUFFICES ASSUME SimInv, StallInv PROVE StallsNest
      OBVIOUS
  <2>1. steps \in Nat
        BY DEF SimInv, L1iInv, CoreTypeOK, ControlTypeOK
  <2> QED
      BY <2>1 DEF StallInv, StallsNest
<1> QED
    BY <1>1, SimInvariant, StallInvariant, PTL

-----------------------------------------------------------------------------
(* The depths of the buffers.                                              *)

(* Prediction starts a block only while the fetch buffer has room, and     *)
(* fetch goes on with one only while the block is short.                   *)
DepthInv ==
  /\ Len(iq_buffer) <= iq_buffer_size
  /\ Len(fetch_buffer) <= f_buffer_size
  /\ stage \in {"predicting", "control"} => Len(fetch_buffer) < f_buffer_size
  /\ pd_pipe_width > 0 =>
       /\ Len(fetch_block) <= pd_pipe_width
       /\ stage = "fetching" => Len(fetch_block) < pd_pipe_width

LEMMA PushDepth ==
  ASSUME fetch_buffer \in Seq(Seq(Ins)), NEW block \in Seq(Ins),
         PushBlock(block) \/ KeepBlock(block)
  PROVE  Len(fetch_buffer') \in {Len(fetch_buffer), Len(fetch_buffer) + 1}
<1>1. Len(Append(fetch_buffer, block)) = Len(fetch_buffer) + 1
      BY AppendProperties
<1>2. fetch_buffer' \in {fetch_buffer, Append(fetch_buffer, block)}
      BY DEF PushBlock, KeepBlock
<1> QED
    BY <1>1, <1>2

LEMMA DepthNext ==
  ASSUME PipelineTypeOK, DepthInv, [SimNext]_simVars
  PROVE  DepthInv'
<1>1. /\ iq_buffer \in Seq(Ins) /\ fetch_block \in Seq(Ins) /\ prefetch_block \in Seq(Ins)
      /\ fetch_buffer \in Seq(Seq(Ins))
      /\ iq_buffer_size \in Nat /\ f_buffer_size \in Nat /\ pd_pipe_width \in Nat
      /\ d_pipe_width \in Nat
      BY RunaheadAssumption DEF PipelineTypeOK
<1>2. /\ Len(iq_buffer) \in Nat /\ Len(fetch_block) \in Nat /\ Len(fetch_buffer) \in Nat
      BY <1>1
<1>3. CASE UNCHANGED cpuVars
      BY <1>3 DEF DepthInv, cpuVars, pipeVars
<1>4. CASE Decode
  <2>1. Len(iq_buffer') <= Len(iq_buffer) /\ Len(iq_buffer') \in Nat
    <3>1. CASE Len(iq_buffer) <= d_pipe_width
          BY <1>2, <1>4, <3>1 DEF Decode
    <3>2. CASE ~ (Len(iq_buffer) <= d_pipe_width)
      <4>1. Len(iq_buffer') = Len(iq_buffer) - d_pipe_width
            BY <1>1, <1>4, <3>2 DEF Decode
      <4> QED
          BY <1>1, <1>2, <3>2, <4>1
    <3> QED
        BY <3>1, <3>2
  <2>2. UNCHANGED <<fetch_buffer, fetch_block>> /\ stage' = "response"
        BY <1>4 DEF Decode
  <2> QED
      BY <1>1, <1>2, <2>1, <2>2 DEF DepthInv
<1>5. CASE ReceiveFetch \/ ResponsesDone \/ FetchStall \/ RetireLimitReached \/ FetchStarved
             \/ PredictSkip \/ RunOver \/ NextStep
  <2>1. /\ UNCHANGED <<iq_buffer, fetch_block, fetch_buffer>>
        /\ stage' \notin {"predicting", "control", "fetching"}
        BY <1>5 DEF ReceiveFetch, ResponsesDone, FetchStall, RetireLimitReached, FetchStarved,
                    PredictSkip, RunOver, NextStep, GoTo, pipeVars
  <2> QED
      BY <2>1 DEF DepthInv
<1>6. CASE FetchAdvance
  <2>1. /\ iq_buffer' = iq_buffer \o fetch_block /\ fetch_block' = <<>>
        /\ fetch_buffer' = fetch_buffer /\ stage' = "fetching"
        /\ Len(iq_buffer) + Len(fetch_block) <= iq_buffer_size
        BY <1>6 DEF FetchAdvance, FetchReady, GoTo
  <2>2. Len(iq_buffer') = Len(iq_buffer) + Len(fetch_block) /\ Len(fetch_block') = 0
        BY <1>1, <2>1
  <2> QED
      BY <1>1, <2>1, <2>2 DEF DepthInv
<1>7. CASE PopEmptyBlock
  <2>1. /\ UNCHANGED <<iq_buffer, fetch_block>> /\ stage = "fetching" /\ stage' = "fetching"
        /\ Len(fetch_buffer') = Len(fetch_buffer) - 1
        BY <1>1, <1>7 DEF PopEmptyBlock, At, GoTo
  <2> QED
      BY <1>1, <1>2, <2>1 DEF DepthInv
<1>8. CASE FetchIns
  <2> DEFINE ins == Head(Head(fetch_buffer))
             block == Append(fetch_block, ins)
  <2>1. /\ fetch_buffer' = <<Tail(Head(fetch_buffer))>> \o Tail(fetch_buffer)
        /\ fetch_buffer # <<>> /\ Head(fetch_buffer) # <<>> /\ stage = "fetching"
        /\ fetch_block' = block /\ iq_buffer' = iq_buffer
        /\ stage' \in {"predict", "fetching"}
        /\ stage' = "fetching" => ~ (Len(block) >= pd_pipe_width)
        BY <1>8 DEF FetchIns, At, GoTo, EndsFetchBlock
  <2>2. Head(fetch_buffer) \in Seq(Ins) /\ Tail(fetch_buffer) \in Seq(Seq(Ins))
        BY <1>1, <2>1
  <2>3. Tail(Head(fetch_buffer)) \in Seq(Ins) /\ ins \in Ins
        BY <2>1, <2>2
  <2>4. Len(block) = Len(fetch_block) + 1
        BY <1>1, <2>3
  <2>5. Len(fetch_buffer') = Len(fetch_buffer)
    <3>1. Len(Tail(fetch_buffer)) = Len(fetch_buffer) - 1
          BY <1>1, <2>1
    <3>2. <<Tail(Head(fetch_buffer))>> \in Seq(Seq(Ins)) /\ Len(<<Tail(Head(fetch_buffer))>>) = 1
          BY <2>3
    <3> QED
        BY <1>2, <2>1, <2>2, <3>1, <3>2
  <2> HIDE DEF block
  <2> QED
      BY <1>1, <1>2, <2>1, <2>4, <2>5 DEF DepthInv
<1>9. CASE PredictStart
  <2>1. /\ UNCHANGED <<iq_buffer, fetch_block, fetch_buffer>>
        /\ stage' = IF Len(fetch_buffer) < f_buffer_size THEN "predicting" ELSE "end"
        BY <1>9 DEF PredictStart, GoTo, pipeVars
  <2> QED
      BY <2>1 DEF DepthInv
<1>10. ASSUME NEW block \in Seq(Ins), stage \in {"predicting", "control"},
              UNCHANGED <<iq_buffer, fetch_block>>,
              \/ PushBlock(block) /\ stage' = "end"
              \/ KeepBlock(block) /\ stage' \in {"predicting", "control"}
       PROVE  DepthInv'
  <2>1. CASE PushBlock(block) /\ stage' = "end"
        BY <1>1, <1>2, <1>10, <2>1, PushDepth DEF DepthInv
  <2>2. CASE KeepBlock(block) /\ stage' \in {"predicting", "control"}
        BY <1>1, <1>2, <1>10, <2>2 DEF KeepBlock, DepthInv
  <2> QED
      BY <1>10, <2>1, <2>2
<1>11. CASE TraceOver \/ PredictedTaken \/ PredictedNotTaken \/ Mispredicted
       BY <1>1, <1>10, <1>11
          DEF TraceOver, PredictedTaken, PredictedNotTaken, Mispredicted, BlockOrNext, At, GoTo
<1>12. ASSUME NEW next, PredictIns(next)
       PROVE  DepthInv'
  <2> DEFINE block == Append(prefetch_block, temp_ins)
  <2>1. block \in Seq(Ins)
        BY <1>1, <1>12 DEF PredictIns, PipelineTypeOK
  <2>2. /\ stage = "predicting" /\ UNCHANGED <<iq_buffer, fetch_block>>
        /\ \/ PushBlock(block) /\ stage' = "end"
           \/ KeepBlock(block) /\ stage' \in {"predicting", "control"}
        BY <1>12 DEF PredictIns, BlockOrNext, At, GoTo
  <2> HIDE DEF block
  <2> QED
      BY <1>10, <2>1, <2>2
<1> QED
    BY <1>3, <1>4, <1>5, <1>6, <1>7, <1>8, <1>9, <1>11, <1>12
       DEF SimNext, Work, Terminating, CpuStep, DecodeStage, FetchPart, PredictStage, simVars

(* The cache's queue of prefetches: only the client adds to it.            *)
LEMMA CacheStepPrefetches ==
  ASSUME L1iInv, CacheStep
  PROVE  super_in_request_buffer'["pf"]
           \in {super_in_request_buffer["pf"], Tail(super_in_request_buffer["pf"])}
         /\ (super_in_request_buffer'["pf"] # super_in_request_buffer["pf"]
               => super_in_request_buffer["pf"] # <<>>)
<1>1. super_in_request_buffer \in [ReqObj -> Seq(Lines)]
      BY DEF L1iInv, CoreTypeOK, QueuesTypeOK
<1>2. CASE FillStep \/ FetchEnd \/ PrefetchEnd
      BY <1>2 DEF FillStep, FillLine, FillEnd, FetchEnd, PrefetchEnd, ioVars
<1>3. CASE \E line \in Lines : FetchHit(line) \/ FetchMerge(line) \/ FetchMiss(line)
      BY <1>1, <1>3 DEF FetchHit, FetchMerge, FetchMiss, Respond, PopRequest, ReqObj
<1>4. CASE \E line \in Lines : PrefetchMerge(line) \/ PrefetchHit(line) \/ PrefetchMiss(line)
      BY <1>1, <1>4 DEF PrefetchMerge, PrefetchHit, PrefetchMiss, PrefetchMissable, NextRequest,
                        PopRequest, ReqObj
<1> QED
    BY <1>2, <1>3, <1>4 DEF CacheStep, FetchStep, PrefetchStep

PrefetchDepth == Len(super_in_request_buffer["pf"]) <= InRequestBufferSize

LEMMA SendDepth ==
  ASSUME L1iInv, PrefetchDepth, NEW obj \in ReqObj, NEW line \in Lines,
         sub_send_request(obj, line)
  PROVE  PrefetchDepth'
<1> DEFINE pushed == [super_in_request_buffer EXCEPT ![obj] = Append(@, line)]
           q == super_in_request_buffer["pf"]
<1>1. /\ super_in_request_buffer \in [ReqObj -> Seq(Lines)] /\ q \in Seq(Lines)
      /\ InRequestBufferSize \in Nat
      BY L1iAssumption DEF L1iInv, CoreTypeOK, QueuesTypeOK, ReqObj
<1>2. pushed \in [ReqObj -> Seq(Lines)] /\ pushed["pf"] \in {q, Append(q, line)}
      BY <1>1 DEF ReqObj
<1>3. Len(pushed["pf"]) \in Nat /\ Len(pushed["pf"]) <= Len(q) + 1 /\ pushed["pf"] \in Seq(Lines)
      BY <1>1, <1>2, AppendProperties
<1>4. CASE UNCHANGED super_in_request_buffer
      BY <1>4 DEF PrefetchDepth
<1>5. CASE ~ UNCHANGED super_in_request_buffer
  <2>1. super_in_request_buffer' = IF Len(pushed["pf"]) > InRequestBufferSize
                                   THEN [pushed EXCEPT !["pf"] = Tail(@)] ELSE pushed
        BY <1>5 DEF sub_send_request
  <2> HIDE DEF pushed
  <2>2. CASE Len(pushed["pf"]) > InRequestBufferSize
    <3>1. super_in_request_buffer'["pf"] = Tail(pushed["pf"])
          BY <1>2, <2>1, <2>2 DEF ReqObj
    <3>2. Len(Tail(pushed["pf"])) = Len(pushed["pf"]) - 1
          BY <1>1, <1>3, <2>2
    <3> QED
        BY <1>1, <1>3, <3>1, <3>2 DEF PrefetchDepth
  <2>3. CASE ~ (Len(pushed["pf"]) > InRequestBufferSize)
        BY <1>1, <1>3, <2>1, <2>3 DEF PrefetchDepth
  <2> QED
      BY <2>2, <2>3
<1> QED
    BY <1>4, <1>5

LEMMA PrefetchDepthNext ==
  ASSUME L1iInv, PrefetchDepth, [L1iNext]_l1iVars
  PROVE  PrefetchDepth'
<1>1. CASE CacheStep
  <2>1. super_in_request_buffer["pf"] \in Seq(Lines) /\ InRequestBufferSize \in Nat
        BY L1iAssumption DEF L1iInv, CoreTypeOK, QueuesTypeOK, ReqObj
  <2> QED
      BY <1>1, <2>1, CacheStepPrefetches DEF PrefetchDepth
<1>2. CASE \E obj \in ReqObj, line \in Lines : ClientSend(obj, line)
      BY <1>2, SendDepth DEF ClientSend
<1>3. CASE ClientReceive \/ NextCycle \/ UNCHANGED l1iVars
      BY <1>3 DEF ClientReceive, NextCycle, l1iVars, ioVars, PrefetchDepth
<1> QED
    BY <1>1, <1>2, <1>3 DEF L1iNext, ClientStep

(* No queue of the simulator outgrows its configured depth.                *)
THEOREM BuffersBounded == SimSpec => []BuffersWithinLimits
<1>1. SimInit => DepthInv /\ PrefetchDepth
      BY RunaheadAssumption, L1iAssumption
         DEF SimInit, L1iInit, DepthInv, PrefetchDepth, ReqObj
<1>2. PipelineTypeOK /\ DepthInv /\ [SimNext]_simVars => DepthInv'
      BY DepthNext
<1>3. L1iInv /\ PrefetchDepth /\ [L1iNext]_l1iVars => PrefetchDepth'
      BY PrefetchDepthNext
<1>4. DepthInv /\ PrefetchDepth => BuffersWithinLimits
      BY DEF DepthInv, PrefetchDepth, BuffersWithinLimits
<1> QED
    BY <1>1, <1>2, <1>3, <1>4, PipelineTypeCorrect, SimDrivesCache, L1iInvariant, PTL
       DEF SimSpec, L1iSpec

-----------------------------------------------------------------------------
(* The widths of the blocks.                                               *)

(* None of the first k instructions lies beyond the width, as the code     *)
(* measures it from the start of the block.                                *)
Reaches(block, k, width) ==
  \A m \in 1 .. k : ~ Beyond(block[m].ia, block[1].ia, width)

(* A block that can still grow has not left the width; one that is done    *)
(* may have, with its last instruction.                                    *)
SpanInv ==
  /\ \A n \in DOMAIN fetch_buffer : WithinWidth(fetch_buffer[n], pf_pipe_width)
  /\ stage = "predicting" => Reaches(prefetch_block, Len(prefetch_block), pf_pipe_width)
  /\ stage = "control" => Reaches(prefetch_block, Len(prefetch_block) - 1, pf_pipe_width)
  /\ Reaches(fetch_block, Len(fetch_block) - 1, fe_pipe_width)
  /\ stage = "fetching" => Reaches(fetch_block, Len(fetch_block), fe_pipe_width)

LEMMA ReachGrows ==
  ASSUME NEW block \in Seq(Ins), NEW ins \in Ins, NEW width \in Nat,
         Reaches(block, Len(block), width)
  PROVE  LET grown == Append(block, ins)
         IN  /\ Reaches(grown, Len(grown) - 1, width)
             /\ ~ Beyond(ins.ia, Head(grown).ia, width) => Reaches(grown, Len(grown), width)
<1> DEFINE grown == Append(block, ins)
<1>1. /\ Len(grown) = Len(block) + 1 /\ Len(block) \in Nat
      /\ \A m \in 1 .. Len(block) : grown[m] = block[m]
      /\ grown[Len(block) + 1] = ins
      /\ Head(grown) = grown[1]
      BY AppendProperties
<1> HIDE DEF grown
<1>2. \A m \in 1 .. Len(block) : 1 \in 1 .. Len(block)
      BY <1>1
<1>3. \A m \in 1 .. Len(block) : ~ Beyond(grown[m].ia, grown[1].ia, width)
      BY <1>1, <1>2 DEF Reaches
<1>4. \A m \in 1 .. Len(block) + 1 : m \in 1 .. Len(block) \/ m = Len(block) + 1
      BY <1>1
<1>5. (Len(block) + 1) - 1 = Len(block)
      BY <1>1
<1> QED
    BY <1>1, <1>3, <1>4, <1>5 DEF Reaches, grown

LEMMA ReachWithin ==
  ASSUME NEW block \in Seq(Ins), NEW width \in Nat, Reaches(block, Len(block) - 1, width)
  PROVE  WithinWidth(block, width)
<1>1. \A m \in 1 .. Len(block) - 1 : block[m].ia \in Nat /\ block[1].ia \in Nat
  <2>1. \A m \in 1 .. Len(block) - 1 : m \in 1 .. Len(block) /\ 1 \in 1 .. Len(block)
        OBVIOUS
  <2>2. \A m \in 1 .. Len(block) : block[m] \in Ins
        OBVIOUS
  <2> QED
      BY <2>1, <2>2, TraceAssumption DEF Ins
<1> QED
    BY <1>1 DEF Reaches, Beyond, WithinWidth

(* Fetch takes instructions off a block's front.                           *)
LEMMA TailWithin ==
  ASSUME NEW block \in Seq(Ins), NEW width, block # <<>>, WithinWidth(block, width)
  PROVE  WithinWidth(Tail(block), width)
<1> DEFINE rest == Tail(block)
<1>1. /\ Len(block) \in Nat \ {0} /\ Len(rest) = Len(block) - 1
      /\ \A m \in 1 .. Len(block) - 1 : rest[m] = block[m + 1]
      OBVIOUS
<1> HIDE DEF rest
<1>2. \A m \in 1 .. Len(rest) - 1 : m \in 1 .. Len(block) - 1 /\ m + 1 \in 1 .. Len(block) - 1
      BY <1>1
<1> QED
    BY <1>1, <1>2 DEF WithinWidth, rest

LEMMA PushWithin ==
  ASSUME fetch_buffer \in Seq(Seq(Ins)), NEW block \in Seq(Ins),
         \A n \in DOMAIN fetch_buffer : WithinWidth(fetch_buffer[n], pf_pipe_width),
         \/ PushBlock(block) /\ WithinWidth(block, pf_pipe_width)
         \/ KeepBlock(block)
  PROVE  \A n \in DOMAIN fetch_buffer' : WithinWidth(fetch_buffer'[n], pf_pipe_width)
<1>1. CASE fetch_buffer' = fetch_buffer
      BY <1>1
<1>2. CASE fetch_buffer' = Append(fetch_buffer, block) /\ WithinWidth(block, pf_pipe_width)
  <2> DEFINE pushed == Append(fetch_buffer, block)
  <2>1. /\ DOMAIN fetch_buffer = 1 .. Len(fetch_buffer) /\ Len(fetch_buffer) \in Nat
        /\ DOMAIN pushed = 1 .. Len(fetch_buffer) + 1
        /\ \A n \in 1 .. Len(fetch_buffer) : pushed[n] = fetch_buffer[n]
        /\ pushed[Len(fetch_buffer) + 1] = block
        OBVIOUS
  <2> HIDE DEF pushed
  <2>2. \A n \in DOMAIN pushed : n \in DOMAIN fetch_buffer \/ n = Len(fetch_buffer) + 1
        BY <2>1
  <2>3. \A n \in DOMAIN pushed : WithinWidth(pushed[n], pf_pipe_width)
        BY <1>2, <2>1, <2>2
  <2> QED
      BY <1>2, <2>3 DEF pushed
<1> QED
    BY <1>1, <1>2 DEF PushBlock, KeepBlock

LEMMA SpanNext ==
  ASSUME PipelineTypeOK, PredictInv, SpanInv, [SimNext]_simVars
  PROVE  SpanInv'
<1>1. /\ fetch_block \in Seq(Ins) /\ prefetch_block \in Seq(Ins)
      /\ fetch_buffer \in Seq(Seq(Ins))
      /\ pf_pipe_width \in Nat /\ fe_pipe_width \in Nat
      BY RunaheadAssumption DEF PipelineTypeOK
<1>2. CASE UNCHANGED cpuVars
      BY <1>2 DEF SpanInv, cpuVars, pipeVars
<1>3. CASE Decode \/ ReceiveFetch \/ ResponsesDone \/ FetchStall \/ RetireLimitReached
             \/ FetchStarved \/ PredictSkip \/ RunOver \/ NextStep
  <2>1. /\ UNCHANGED <<fetch_block, fetch_buffer>>
        /\ stage' \notin {"predicting", "control", "fetching"}
        BY <1>3 DEF Decode, ReceiveFetch, ResponsesDone, FetchStall, RetireLimitReached,
                    FetchStarved, PredictSkip, RunOver, NextStep, GoTo, pipeVars
  <2> QED
      BY <2>1 DEF SpanInv
<1>4. CASE FetchAdvance
  <2>1. fetch_block' = <<>> /\ fetch_buffer' = fetch_buffer /\ stage' = "fetching"
        BY <1>4 DEF FetchAdvance, GoTo
  <2>2. Reaches(<<>>, 0, fe_pipe_width) /\ Reaches(<<>>, 0 - 1, fe_pipe_width)
        BY DEF Reaches
  <2> QED
      BY <2>1, <2>2 DEF SpanInv
<1>5. CASE PopEmptyBlock
  <2>1. /\ fetch_block' = fetch_block /\ stage = "fetching" /\ stage' = "fetching"
        /\ fetch_buffer # <<>> /\ fetch_buffer' = Tail(fetch_buffer)
        BY <1>5 DEF PopEmptyBlock, At, GoTo
  <2>2. \A n \in DOMAIN Tail(fetch_buffer) :
          n + 1 \in DOMAIN fetch_buffer /\ Tail(fetch_buffer)[n] = fetch_buffer[n + 1]
        BY <1>1, <2>1
  <2> QED
      BY <2>1, <2>2 DEF SpanInv
<1>6. CASE FetchIns
  <2> DEFINE ins == Head(Head(fetch_buffer))
             block == Append(fetch_block, ins)
             rest == Tail(Head(fetch_buffer))
             left == <<rest>> \o Tail(fetch_buffer)
  <2>1. /\ fetch_buffer' = left /\ fetch_block' = block
        /\ fetch_buffer # <<>> /\ Head(fetch_buffer) # <<>> /\ stage = "fetching"
        /\ stage' \in {"predict", "fetching"}
        /\ stage' = "fetching" => ~ Beyond(ins.ia, Head(block).ia, fe_pipe_width)
        BY <1>6 DEF FetchIns, At, GoTo, EndsFetchBlock
  <2>2. Head(fetch_buffer) \in Seq(Ins) /\ Tail(fetch_buffer) \in Seq(Seq(Ins))
        BY <1>1, <2>1
  <2>3. rest \in Seq(Ins) /\ ins \in Ins
        BY <2>1, <2>2
  <2>4. /\ Reaches(block, Len(block) - 1, fe_pipe_width)
        /\ stage' = "fetching" => Reaches(block, Len(block), fe_pipe_width)
        BY <1>1, <2>1, <2>3, ReachGrows DEF SpanInv
  <2>5. WithinWidth(rest, pf_pipe_width)
    <3>1. 1 \in DOMAIN fetch_buffer /\ Head(fetch_buffer) = fetch_buffer[1]
          BY <1>1, <2>1
    <3>2. WithinWidth(Head(fetch_buffer), pf_pipe_width)
          BY <3>1 DEF SpanInv
    <3> QED
        BY <2>1, <2>2, <3>2, TailWithin
  <2>6. \A n \in DOMAIN left : WithinWidth(left[n], pf_pipe_width)
    <3> HIDE DEF rest
    <3>1. /\ \A n \in DOMAIN left : n = 1 \/ n \in DOMAIN fetch_buffer
          /\ left[1] = rest
          /\ \A n \in DOMAIN left : n # 1 => left[n] = fetch_buffer[n]
          BY <1>1, <2>1, <2>2, <2>3
    <3> HIDE DEF left
    <3> QED
        BY <2>5, <3>1 DEF SpanInv
  <2> HIDE DEF block, left
  <2> QED
      BY <2>1, <2>4, <2>6 DEF SpanInv
<1>7. CASE PredictStart
  <2>1. /\ UNCHANGED <<fetch_block, fetch_buffer, prefetch_block>>
        /\ stage = "predict" /\ stage' \in {"predicting", "end"}
        BY <1>7 DEF PredictStart, At, GoTo, pipeVars
  <2>2. prefetch_block = <<>>
        BY <2>1 DEF PredictInv
  <2>3. Reaches(<<>>, 0, pf_pipe_width)
        BY DEF Reaches
  <2> QED
      BY <2>1, <2>2, <2>3 DEF SpanInv
<1>8. ASSUME NEW block \in Seq(Ins), stage \in {"predicting", "control"},
             UNCHANGED fetch_block,
             Reaches(block, Len(block) - 1, pf_pipe_width),
             \/ PushBlock(block) /\ stage' = "end"
             \/ KeepBlock(block) /\ stage' = "control"
             \/ /\ KeepBlock(block) /\ stage' = "predicting"
                /\ Reaches(block, Len(block), pf_pipe_width)
      PROVE  SpanInv'
  <2>1. WithinWidth(block, pf_pipe_width)
        BY <1>1, <1>8, ReachWithin
  <2>2. \A n \in DOMAIN fetch_buffer' : WithinWidth(fetch_buffer'[n], pf_pipe_width)
        BY <1>1, <1>8, <2>1, PushWithin DEF SpanInv
  <2>3. stage' \in {"predicting", "control"} => prefetch_block' = block
        BY <1>8 DEF KeepBlock
  <2> QED
      BY <1>8, <2>2, <2>3 DEF SpanInv
<1>9. CASE TraceOver
  <2>1. /\ stage = "predicting" /\ fetch_block' = fetch_block
        /\ PushBlock(prefetch_block) /\ stage' = "end"
        BY <1>9 DEF TraceOver, At, GoTo
  <2>2. Reaches(prefetch_block, Len(prefetch_block) - 1, pf_pipe_width)
        BY <1>1, <2>1 DEF SpanInv, Reaches
  <2> QED
      BY <1>1, <1>8, <2>1, <2>2
<1>10. CASE PredictedTaken \/ Mispredicted
  <2>1. /\ stage = "control" /\ fetch_block' = fetch_block
        /\ PushBlock(prefetch_block) /\ stage' = "end"
        BY <1>10 DEF PredictedTaken, Mispredicted, At, GoTo
  <2> QED
      BY <1>1, <1>8, <2>1 DEF SpanInv
<1>11. CASE PredictedNotTaken
  <2>1. /\ stage = "control" /\ fetch_block' = fetch_block /\ prefetch_block # <<>>
        /\ BlockOrNext(Current, prefetch_block)
        BY <1>11 DEF PredictedNotTaken, At, PredictInv
  <2>2. Reaches(prefetch_block, Len(prefetch_block) - 1, pf_pipe_width)
        BY <2>1 DEF SpanInv
  <2>3. ~ Beyond(Current.ia, Head(prefetch_block).ia, pf_pipe_width)
          => Reaches(prefetch_block, Len(prefetch_block), pf_pipe_width)
    <3>1. /\ Head(prefetch_block) = prefetch_block[1] /\ Len(prefetch_block) \in Nat \ {0}
          BY <1>1, <2>1
    <3>2. \A m \in 1 .. Len(prefetch_block) :
            m \in 1 .. Len(prefetch_block) - 1 \/ m = Len(prefetch_block)
          BY <3>1
    <3> QED
        BY <2>2, <3>1, <3>2 DEF Reaches, Current
  <2> QED
      BY <1>1, <1>8, <2>1, <2>2, <2>3 DEF BlockOrNext, GoTo
<1>12. ASSUME NEW next, PredictIns(next)
       PROVE  SpanInv'
  <2> DEFINE block == Append(prefetch_block, temp_ins)
  <2>1. temp_ins \in Ins /\ block \in Seq(Ins)
        BY <1>1, <1>12 DEF PredictIns, PipelineTypeOK
  <2>2. /\ stage = "predicting" /\ UNCHANGED fetch_block
        /\ \/ PushBlock(block) /\ stage' = "end"
           \/ KeepBlock(block) /\ stage' = "control"
           \/ /\ KeepBlock(block) /\ stage' = "predicting"
              /\ ~ Beyond(temp_ins.ia, Head(block).ia, pf_pipe_width)
        BY <1>12 DEF PredictIns, BlockOrNext, At, GoTo
  <2>3. /\ Reaches(block, Len(block) - 1, pf_pipe_width)
        /\ ~ Beyond(temp_ins.ia, Head(block).ia, pf_pipe_width)
             => Reaches(block, Len(block), pf_pipe_width)
        BY <1>1, <2>1, <2>2, ReachGrows DEF SpanInv
  <2> HIDE DEF block
  <2> QED
      BY <1>8, <2>1, <2>2, <2>3
<1> QED
    BY <1>2, <1>3, <1>4, <1>5, <1>6, <1>7, <1>9, <1>10, <1>11, <1>12
       DEF SimNext, Work, Terminating, CpuStep, DecodeStage, FetchPart, PredictStage, simVars

(* In whatever order a trace visits addresses, no two instructions of a    *)
(* block, its last one apart, are further from each other than the width   *)
(* of its stage; that the difference is unsigned is what the proof needs.  *)
THEOREM BlocksBounded == SimSpec => []BlocksWithinWidth
<1>1. SimInit => SpanInv
      BY DEF SimInit, SpanInv, Reaches
<1>2. PipelineTypeOK /\ PredictInv /\ SpanInv /\ [SimNext]_simVars => SpanInv'
      BY SpanNext
<1>3. PipelineTypeOK /\ PredictInv /\ SpanInv => BlocksWithinWidth
  <2> SUFFICES ASSUME PipelineTypeOK, PredictInv, SpanInv PROVE BlocksWithinWidth
      OBVIOUS
  <2>1. /\ fetch_block \in Seq(Ins) /\ prefetch_block \in Seq(Ins)
        /\ pf_pipe_width \in Nat /\ fe_pipe_width \in Nat
        BY RunaheadAssumption DEF PipelineTypeOK
  <2>2. Reaches(prefetch_block, Len(prefetch_block) - 1, pf_pipe_width)
    <3>1. CASE stage \notin {"predicting", "control"}
      <4>1. prefetch_block = <<>> /\ Len(<<>>) = 0
            BY <3>1 DEF PredictInv
      <4> QED
          BY <4>1 DEF Reaches
    <3>2. CASE stage \in {"predicting", "control"}
          BY <2>1, <3>2 DEF SpanInv, Reaches
    <3> QED
        BY <3>1, <3>2
  <2> QED
      BY <2>1, <2>2, ReachWithin DEF SpanInv, BlocksWithinWidth
<1>4. PredictInv /\ PipelineTypeOK /\ [SimNext]_simVars => PredictInv'
      BY PredictInvNext
<1>5. SimInit => PredictInv
      BY DEF SimInit, PredictInv
<1> QED
    BY <1>1, <1>2, <1>3, <1>4, <1>5, PipelineTypeCorrect, PTL DEF SimSpec

-----------------------------------------------------------------------------
(* Run-ahead prefetching.                                                  *)

RunsAhead == Prefetch /\ PrefetchType = "BR_PREDICTOR"

(* What prediction has read and fetch has not.                             *)
Ahead == Flat \o prefetch_block

LineOf(queue, n) == line_of(queue[n].ia)

(* The two "last requested" lines start at 0, so that line 0 counts as     *)
(* requested by both until some other line has been: in a queue that is    *)
(* all of line 0, line 0 is never asked for.                               *)
AllLine0(queue, last, n) == last = 0 /\ \A m \in 1 .. n : LineOf(queue, m) = 0

Covered(queue) ==
  /\ \A n \in 1 .. Len(queue) : LineOf(queue, n) \in prefetched \/ AllLine0(queue, prev_fetch_cb, n)
  /\ \/ prev_prefetch_cl \in prefetched
     \/ prev_prefetch_cl = 0 /\ AllLine0(queue, prev_fetch_cb, Len(queue))

PendingPrefetched == \A n \in DOMAIN PendingFetches : PendingFetches[n] \in prefetched

LeadInv == Covered(Ahead) /\ PendingPrefetched

LEMMA AheadType ==
  ASSUME PipelineTypeOK
  PROVE  Ahead \in Seq(Ins) /\ Len(Ahead) \in Nat
BY FlatType, ConcatProperties DEF Ahead, PipelineTypeOK

(* While the queue and the last lines stand, more prefetches do no harm.   *)
LEMMA LeadKept ==
  ASSUME PipelineTypeOK, LeadInv, Ahead' = Ahead,
         UNCHANGED <<prev_fetch_cb, prev_prefetch_cl>>, prefetched \subseteq prefetched',
         PendingFetches' = PendingFetches
  PROVE  LeadInv'
BY DEF LeadInv, Covered, AllLine0, LineOf, PendingPrefetched

LEMMA FetchInsLeads ==
  ASSUME SimInv, LeadInv, FetchIns
  PROVE  LeadInv'
<1> DEFINE ins     == Head(Head(fetch_buffer))
           ins_cla == line_of(ins.ia)
<1>1. /\ ins_cla \in Lines /\ ins \in Ins
      /\ IF ins_cla # prev_fetch_cb THEN ClientSend("f", ins_cla) ELSE UNCHANGED l1iVars
      BY FetchCall DEF SimInv
<1>2. /\ UNCHANGED <<prev_prefetch_cl, prefetched, prefetch_block>>
      /\ prev_fetch_cb' = ins_cla
      BY DEF FetchIns, predVars, fetchVars
<1>3. Ahead' \in Seq(Ins) /\ Ahead = <<ins>> \o Ahead'
  <2>1. /\ Flat' \in Seq(Ins) /\ Flat = <<ins>> \o Flat' /\ <<ins>> \in Seq(Ins)
        /\ prefetch_block \in Seq(Ins)
        BY <1>1, FetchInsFlat DEF SimInv, PipelineTypeOK
  <2>2. Associates(<<ins>>, Flat', prefetch_block)
        BY <2>1, ConcatAssociates
  <2>3. Flat' \o prefetch_block \in Seq(Ins)
        BY <2>1, ConcatProperties
  <2> QED
      BY <1>2, <2>1, <2>2, <2>3, Zenon DEF Ahead, Associates
<1>4. /\ Len(Ahead') \in Nat /\ Len(Ahead) = Len(Ahead') + 1
      /\ Ahead[1] = ins /\ \A n \in 1 .. Len(Ahead') : Ahead[n + 1] = Ahead'[n]
      BY <1>1, <1>3
<1>5. ins_cla \in prefetched \/ (prev_fetch_cb = 0 /\ ins_cla = 0)
      BY <1>4 DEF LeadInv, Covered, AllLine0, LineOf
<1>6. ASSUME NEW n \in Nat, n <= Len(Ahead'), AllLine0(Ahead, prev_fetch_cb, n + 1)
      PROVE  AllLine0(Ahead', prev_fetch_cb', n)
  <2>1. \A m \in 1 .. n : m + 1 \in 1 .. n + 1 /\ Ahead[m + 1] = Ahead'[m]
        BY <1>4, <1>6
  <2>2. ins_cla = 0
        BY <1>4, <1>6 DEF AllLine0, LineOf
  <2> QED
      BY <1>2, <1>6, <2>1, <2>2 DEF AllLine0, LineOf
<1>7. Covered(Ahead)'
  <2>1. ASSUME NEW n \in 1 .. Len(Ahead')
        PROVE  LineOf(Ahead', n) \in prefetched' \/ AllLine0(Ahead', prev_fetch_cb', n)
    <3>1. n + 1 \in 1 .. Len(Ahead) /\ Ahead[n + 1] = Ahead'[n]
          BY <1>4
    <3>2. LineOf(Ahead, n + 1) \in prefetched \/ AllLine0(Ahead, prev_fetch_cb, n + 1)
          BY <3>1 DEF LeadInv, Covered
    <3> QED
        BY <1>2, <1>6, <3>1, <3>2 DEF LineOf
  <2>2. \/ prev_prefetch_cl \in prefetched
        \/ prev_prefetch_cl = 0 /\ AllLine0(Ahead, prev_fetch_cb, Len(Ahead') + 1)
        BY <1>4 DEF LeadInv, Covered
  <2> QED
      BY <1>2, <1>4, <1>6, <2>1, <2>2 DEF Covered
<1>8. PendingPrefetched'
  <2>1. PendingFetches \in Seq(Lines)
        BY PendingType DEF SimInv
  <2>2. CASE ins_cla # prev_fetch_cb
    <3>1. PendingFetches' = Append(PendingFetches, ins_cla)
          BY <1>1, <2>2, SendPending DEF SimInv, ReqObj
    <3>2. ins_cla \in prefetched
          BY <1>5, <2>2
    <3>3. \A n \in DOMAIN PendingFetches' :
            \/ n \in DOMAIN PendingFetches /\ PendingFetches'[n] = PendingFetches[n]
            \/ PendingFetches'[n] = ins_cla
          BY <1>1, <2>1, <3>1
    <3> QED
        BY <1>2, <3>2, <3>3 DEF LeadInv, PendingPrefetched
  <2>3. CASE ins_cla = prev_fetch_cb
        BY <1>1, <1>2, <2>3, QuietPending DEF LeadInv, PendingPrefetched
  <2> QED
      BY <2>2, <2>3
<1> QED
    BY <1>7, <1>8 DEF LeadInv

(* Prediction asks for an instruction's line as it reads it.               *)
LEMMA PredictInsLeads ==
  ASSUME SimInv, RunsAhead, LeadInv, NEW next, PredictIns(next)
  PROVE  LeadInv'
<1> DEFINE cla   == line_of(temp_ins.ia)
           block == Append(prefetch_block, temp_ins)
<1>1. /\ temp_ins \in Ins /\ prefetch_block \in Seq(Ins) /\ Flat \in Seq(Ins) /\ block \in Seq(Ins)
      BY FlatType DEF PredictIns, SimInv, PipelineTypeOK
<1>2. /\ PushBlock(block) \/ KeepBlock(block)
      /\ UNCHANGED prev_fetch_cb
      BY DEF PredictIns, BlockOrNext, fetchVars
<1>3. /\ prefetched' = IF cla # prev_prefetch_cl THEN prefetched \cup {cla} ELSE prefetched
      /\ prev_prefetch_cl' = cla
      BY DEF PredictIns, SendPrefetch, RunsAhead
<1>4. Ahead' = Append(Ahead, temp_ins)
  <2>1. Ahead' = Flat \o block
        BY <1>1, <1>2, PushFlat DEF SimInv, Ahead
  <2>2. Flat \o block = Append(Flat \o prefetch_block, temp_ins)
        BY <1>1, AppendLast
  <2> QED
      BY <2>1, <2>2, Zenon DEF Ahead
<1> HIDE DEF block
<1>5. /\ Len(Ahead) \in Nat /\ Len(Ahead') = Len(Ahead) + 1
      /\ \A n \in 1 .. Len(Ahead) : Ahead'[n] = Ahead[n]
      /\ Ahead'[Len(Ahead) + 1] = temp_ins
      BY <1>1, <1>4, AheadType, AppendProperties DEF SimInv
<1>6. ASSUME NEW n \in 0 .. Len(Ahead), AllLine0(Ahead, prev_fetch_cb, n)
      PROVE  AllLine0(Ahead', prev_fetch_cb', n)
      BY <1>2, <1>5, <1>6 DEF AllLine0, LineOf
<1>7. ASSUME cla \notin prefetched'
      PROVE  cla = 0 /\ AllLine0(Ahead', prev_fetch_cb', Len(Ahead) + 1)
  <2>1. cla = prev_prefetch_cl /\ prefetched' = prefetched
        BY <1>3, <1>7
  <2>2. cla = 0 /\ AllLine0(Ahead, prev_fetch_cb, Len(Ahead))
        BY <1>7, <2>1 DEF LeadInv, Covered
  <2>3. AllLine0(Ahead', prev_fetch_cb', Len(Ahead))
        BY <1>5, <1>6, <2>2
  <2>4. \A m \in 1 .. Len(Ahead) + 1 : m \in 1 .. Len(Ahead) \/ m = Len(Ahead) + 1
        BY <1>5
  <2> QED
      BY <1>5, <2>2, <2>3, <2>4 DEF AllLine0, LineOf
<1>8. Covered(Ahead)'
  <2>1. ASSUME NEW n \in 1 .. Len(Ahead')
        PROVE  LineOf(Ahead', n) \in prefetched' \/ AllLine0(Ahead', prev_fetch_cb', n)
    <3>1. CASE n \in 1 .. Len(Ahead)
      <4>1. LineOf(Ahead', n) = LineOf(Ahead, n) /\ n \in 0 .. Len(Ahead)
            BY <1>5, <3>1 DEF LineOf
      <4> QED
          BY <1>3, <1>6, <3>1, <4>1 DEF LeadInv, Covered
    <3>2. CASE n = Len(Ahead) + 1
          BY <1>5, <1>7, <3>2 DEF LineOf
    <3> QED
        BY <1>5, <3>1, <3>2
  <2> QED
      BY <1>3, <1>5, <1>7, <2>1 DEF Covered
<1>9. PendingPrefetched'
  <2>1. PendingFetches' = PendingFetches
        BY PredictInsCall, PrefetchPending DEF SimInv
  <2> QED
      BY <1>3, <2>1 DEF LeadInv, PendingPrefetched
<1> QED
    BY <1>8, <1>9 DEF LeadInv

LEMMA PushAhead ==
  ASSUME PipelineTypeOK, PushBlock(prefetch_block) \/ KeepBlock(prefetch_block)
  PROVE  Ahead' = Ahead
<1>1. prefetch_block \in Seq(Ins)
      BY DEF PipelineTypeOK
<1> QED
    BY <1>1, PushFlat DEF Ahead

LEMMA PredictedTakenLeads ==
  ASSUME SimInv, RunsAhead, LeadInv, PredictedTaken
  PROVE  LeadInv'
<1> DEFINE target == line_of(temp_ins.ia)
<1>1. Ahead' = Ahead /\ UNCHANGED prev_fetch_cb
      BY PushAhead DEF PredictedTaken, SimInv, fetchVars
<1>2. PendingFetches' = PendingFetches
      BY PredictedTakenCall, PrefetchPending DEF SimInv
<1>3. /\ prefetched' = IF target # prev_prefetch_cl THEN prefetched \cup {target} ELSE prefetched
      /\ prev_prefetch_cl' = target
      BY DEF PredictedTaken, SendPrefetch, RunsAhead
<1>4. CASE target = prev_prefetch_cl
      BY <1>1, <1>2, <1>3, <1>4, LeadKept DEF SimInv
<1>5. CASE target # prev_prefetch_cl
  <2>1. prev_prefetch_cl' \in prefetched' /\ prefetched \subseteq prefetched'
        BY <1>3, <1>5
  <2> QED
      BY <1>1, <1>2, <2>1 DEF LeadInv, Covered, AllLine0, LineOf, PendingPrefetched
<1> QED
    BY <1>4, <1>5

LEMMA LeadNext ==
  ASSUME SimInv, RunsAhead, LeadInv, [SimNext]_simVars
  PROVE  LeadInv'
<1>1. CASE FetchIns
      BY <1>1, FetchInsLeads
<1>2. CASE \E next : PredictIns(next)
      BY <1>2, PredictInsLeads
<1>3. CASE PredictedTaken
      BY <1>3, PredictedTakenLeads
<1>4. CASE ReceiveFetch
  <2>1. PendingFetches \in Seq(Lines) /\ PendingFetches # <<>> /\ PendingFetches' = Tail(PendingFetches)
        BY <1>4, PendingType, ReceiveCall, ReceivePending DEF SimInv
  <2>2. \A n \in DOMAIN Tail(PendingFetches) :
          n + 1 \in DOMAIN PendingFetches /\ Tail(PendingFetches)[n] = PendingFetches[n + 1]
        BY <2>1
  <2>3. UNCHANGED <<fetch_buffer, prefetch_block, prev_fetch_cb, prev_prefetch_cl, prefetched>>
        BY <1>4 DEF ReceiveFetch, pipeVars, predVars
  <2>4. Ahead' = Ahead
        BY <2>3, Zenon DEF Ahead, Flat
  <2> QED
      BY <2>1, <2>2, <2>3, <2>4 DEF LeadInv, Covered, AllLine0, LineOf, PendingPrefetched
<1>5. CASE \/ CacheStep /\ UNCHANGED cpuVars
           \/ UNCHANGED simVars
           \/ NextStep
           \/ Decode \/ ResponsesDone \/ FetchStall \/ RetireLimitReached \/ FetchAdvance
           \/ FetchStarved \/ PredictSkip \/ PredictStart \/ RunOver
  <2>1. UNCHANGED <<fetch_buffer, prefetch_block, prev_fetch_cb, prev_prefetch_cl, prefetched>>
        BY <1>5 DEF simVars, cpuVars, NextStep, Decode, ResponsesDone, FetchStall,
                    RetireLimitReached, FetchAdvance, FetchStarved, PredictSkip, PredictStart,
                    RunOver, pipeVars, fetchVars, predVars
  <2>2. Ahead' = Ahead
        BY <2>1, Zenon DEF Ahead, Flat
  <2>3. PendingFetches' = PendingFetches
    <3>1. CASE NextStep
          BY <3>1, PendingUnchanged DEF NextStep, NextCycle, ioVars
    <3>2. CASE CacheStep
          BY <3>2, CacheStepKeepsPending DEF SimInv
    <3>3. CASE UNCHANGED simVars
          BY <3>3, QuietPending DEF simVars
    <3> QED
        BY <1>5, <3>1, <3>2, <3>3, QuietActions, QuietPending
  <2> QED
      BY <2>1, <2>2, <2>3, LeadKept DEF SimInv
<1>6. CASE PopEmptyBlock \/ TraceOver \/ PredictedNotTaken \/ Mispredicted
  <2>1. /\ UNCHANGED <<prev_fetch_cb, prev_prefetch_cl, prefetched>>
        /\ PopEmptyBlock => prefetch_block' = prefetch_block
        BY <1>6 DEF PopEmptyBlock, TraceOver, PredictedNotTaken, Mispredicted, fetchVars, predVars
  <2>2. Ahead' = Ahead
    <3>1. CASE PopEmptyBlock
          BY <2>1, <3>1, PopKeepsFlat, Zenon DEF SimInv, Ahead
    <3>2. CASE TraceOver \/ PredictedNotTaken \/ Mispredicted
          BY <3>2, PushAhead DEF SimInv, TraceOver, PredictedNotTaken, Mispredicted, BlockOrNext
    <3> QED
        BY <1>6, <3>1, <3>2
  <2> QED
      BY <1>6, <2>1, <2>2, LeadKept, QuietActions, QuietPending DEF SimInv
<1> QED
    BY <1>1, <1>2, <1>3, <1>4, <1>5, <1>6
       DEF SimNext, Work, Terminating, CpuStep, DecodeStage, FetchPart, PredictStage

LEMMA LeadInit ==
  ASSUME SimInit
  PROVE  LeadInv
<1>1. /\ fetch_buffer = <<>> /\ prefetch_block = <<>> /\ prev_fetch_cb = 0 /\ prev_prefetch_cl = 0
      BY DEF SimInit
<1>2. Flat = <<>>
      BY <1>1, FlattenEmpty DEF Flat
<1>3. Ahead = <<>> \o <<>>
      BY <1>1, <1>2, Zenon DEF Ahead
<1>4. Ahead = <<>> /\ Len(Ahead) = 0
      BY <1>3
<1>5. PendingFetches = <<>>
      BY ChannelStart DEF SimInit, Channel!ChannelInit
<1> QED
    BY <1>1, <1>4, <1>5 DEF LeadInv, Covered, AllLine0, PendingPrefetched

(* With the branch predictor running ahead, no line is fetched that has    *)
(* not been prefetched, on a mispredicted or taken path included.          *)
THEOREM PrefetchLeads == SimSpec => []PrefetchLeadsFetch
<1>1. SimInit => (RunsAhead => LeadInv)
      BY LeadInit
<1>2. SimInv /\ (RunsAhead => LeadInv) /\ [SimNext]_simVars => (RunsAhead => LeadInv)'
  <2>1. RunsAhead' = RunsAhead
        BY DEF RunsAhead
  <2> QED
      BY <2>1, LeadNext
<1>3. (RunsAhead => LeadInv) => PrefetchLeadsFetch
      BY DEF RunsAhead, LeadInv, PendingPrefetched, PrefetchLeadsFetch
<1> QED
    BY <1>1, <1>2, <1>3, SimInvariant, PTL DEF SimSpec

-----------------------------------------------------------------------------
(* The types of the simulator's variables.                                 *)
ScalarTypeOK ==
  /\ stage \in Stages
  /\ fetch_per_block \in Nat
  /\ prev_fetch_cb \in Nat /\ prev_prefetch_cl \in Nat
  /\ last_misp \in BOOLEAN /\ trace_over \in BOOLEAN
  /\ total_stalls \in Nat /\ ifetch_stalls \in Nat /\ decode_stalls \in Nat
  /\ prefetched \subseteq Lines

LEMMA ScalarTypeNext ==
  ASSUME ScalarTypeOK, PipelineTypeOK, ControlHasTarget, [SimNext]_simVars
  PROVE  ScalarTypeOK'
<1> USE DEF ScalarTypeOK, Stages, statVars, fetchVars, predVars
<1>1. CASE (CacheStep /\ UNCHANGED cpuVars) \/ Terminating \/ UNCHANGED simVars
      BY <1>1 DEF Terminating, simVars, cpuVars
<1>2. CASE Decode \/ ReceiveFetch \/ ResponsesDone
      BY <1>2 DEF Decode, ReceiveFetch, ResponsesDone, GoTo
<1>3. CASE FetchStall \/ RetireLimitReached \/ FetchAdvance \/ PopEmptyBlock \/ FetchStarved
      BY <1>3 DEF FetchStall, RetireLimitReached, FetchAdvance, PopEmptyBlock, FetchStarved, GoTo
<1>4. CASE FetchIns
  <2>1. line_of(Head(Head(fetch_buffer)).ia) \in Lines
    <3>1. fetch_buffer \in Seq(Seq(Ins)) /\ fetch_buffer # <<>> /\ Head(fetch_buffer) # <<>>
          BY <1>4 DEF FetchIns, PipelineTypeOK
    <3>2. Head(fetch_buffer) \in Seq(Ins)
          BY <3>1
    <3>3. Head(Head(fetch_buffer)) \in Ins
          BY <3>1, <3>2
    <3> QED
        BY <3>3, InsLine
  <2>2. /\ prev_fetch_cb' \in {prev_fetch_cb, line_of(Head(Head(fetch_buffer)).ia)}
        /\ fetch_per_block' \in {fetch_per_block, fetch_per_block + 1}
        /\ stage' \in {"predict", "fetching"}
        BY <1>4 DEF FetchIns, GoTo
  <2>3. UNCHANGED <<statVars, predVars>>
        BY <1>4 DEF FetchIns
  <2>4. line_of(Head(Head(fetch_buffer)).ia) \in Nat
        BY <2>1, L1iAssumption
  <2> QED
      BY <2>2, <2>3, <2>4
<1>5. CASE PredictSkip \/ PredictStart \/ TraceOver \/ PredictedNotTaken \/ Mispredicted
      BY <1>5 DEF PredictSkip, PredictStart, TraceOver, PredictedNotTaken, Mispredicted,
                  BlockOrNext, GoTo
<1>6. ASSUME NEW next, PredictIns(next)
      PROVE  ScalarTypeOK'
  <2>1. line_of(temp_ins.ia) \in Lines
        BY <1>6, InsLine DEF PredictIns, PipelineTypeOK
  <2> QED
      BY <1>6, <2>1, L1iAssumption DEF PredictIns, SendPrefetch, BlockOrNext, GoTo
<1>7. CASE PredictedTaken
  <2>1. line_of(temp_ins.ia) \in Lines
        BY <1>7, InsLine DEF PredictedTaken, At, ControlHasTarget, PipelineTypeOK
  <2> QED
      BY <1>7, <2>1, L1iAssumption DEF PredictedTaken, SendPrefetch, GoTo
<1>8. CASE NextStep \/ RunOver
      BY <1>8 DEF NextStep, RunOver, GoTo
<1> QED
    BY <1>1, <1>2, <1>3, <1>4, <1>5, <1>6, <1>7, <1>8
       DEF SimNext, Work, CpuStep, DecodeStage, FetchPart, PredictStage

(* SimTypeOK: every variable of the simulator, those of the cache          *)
(* included, keeps the type that its declaration gives it.  The signed     *)
(* count fetch_per_block never becomes negative.                           *)
THEOREM SimTypeCorrect == SimSpec => []SimTypeOK
<1>1. SimInit => ScalarTypeOK /\ PipelineTypeOK /\ ControlHasTarget
  <2>1. ASSUME SimInit PROVE ScalarTypeOK
    <3>1. last_misp \in BOOLEAN /\ trace_over \in BOOLEAN
          BY <2>1, Zenon DEF SimInit
    <3>2. /\ stage = "decode" /\ fetch_per_block = 0 /\ prev_fetch_cb = 0 /\ prev_prefetch_cl = 0
          /\ total_stalls = 0 /\ ifetch_stalls = 0 /\ decode_stalls = 0 /\ prefetched = {}
          BY <2>1, Zenon DEF SimInit
    <3> QED
        BY <3>1, <3>2 DEF ScalarTypeOK, Stages
  <2> QED
      BY <2>1, PipelineTypeInit DEF SimInit, ControlHasTarget
<1>2. ScalarTypeOK /\ PipelineTypeOK /\ ControlHasTarget /\ [SimNext]_simVars
        => ScalarTypeOK' /\ PipelineTypeOK' /\ ControlHasTarget'
      BY ScalarTypeNext, PipelineTypeNext, ControlHasTargetNext
<1>3. ScalarTypeOK /\ CountTypeOK /\ TypeOK /\ PipelineTypeOK => SimTypeOK
      BY DEF ScalarTypeOK, CountTypeOK, SimTypeOK, CpuTypeOK
<1> QED
    BY <1>1, <1>2, <1>3, CountsInvariant, SimDrivesCache, CacheTypeCorrect, PTL DEF SimSpec

(* BandwidthRespected: the simulator's fetches and prefetches together     *)
(* never draw more from L2 than miss_byte_bw allows, if that divides       *)
(* cl_size.                                                                *)
COROLLARY SimBandwidthKept ==
  ASSUME WholeCycles
  PROVE  SimSpec => []BandwidthRespected
BY SimDrivesCache, BandwidthKept, PTL
=============================================================================
