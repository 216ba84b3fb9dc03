---------------------------- MODULE RunaheadSim -----------------------------
(***************************************************************************)
(* The run-ahead prefetch simulator: Simulate::run, which alternates a     *)
(* step of the L1 instruction cache (L1iStandalone) and a step of the CPU, *)
(* Cpu_Prefetch_InsOnly::step, over a trace.                               *)
(*                                                                         *)
(* Within the CPU's step instructions move backwards through the pipeline, *)
(*   trace -> prefetch_block -> fetch_buffer -> fetch_block -> iq_buffer,  *)
(* so that each stage empties before the one in front of it fills.  stage  *)
(* names the part of the step that runs next; it is meaningful while the   *)
(* cache waits for its client (pc = "cpu").                                *)
(*                                                                         *)
(* The branch predictor is represented by what it may answer (Fallible).   *)
(* sub_get_response("pf") has nothing to return ever, since no prefetch    *)
(* gets a response: lines 167-172 of step() are a no-op.                   *)
(***************************************************************************)
EXTENDS L1iStandalone, TraceReader

CONSTANTS
  Fallible,        (* kinds of control instruction that may be mispredicted *)
  Prefetch,        (* prefetch_config.prefetch                             *)
  PrefetchType,    (* prefetch_config.prefetch_type                        *)
  pf_pipe_width, fe_pipe_width,           (* bytes                         *)
  pd_pipe_width, d_pipe_width,            (* instructions                  *)
  f_buffer_size,                          (* blocks                        *)
  iq_buffer_size,                         (* instructions                  *)
  RetireLimit,     (* 350000000 in the code                                *)
  UninitValues     (* what the memory of total_decoded_ins may hold        *)

line_of(ia) == ia \div ClSize   (* ia & cl_mask *)

ASSUME RunaheadAssumption ==
  /\ \A ia \in Addresses : line_of(ia) \in Lines
  /\ Fallible \subseteq Kinds \ {"none"}
  /\ Prefetch \in BOOLEAN /\ PrefetchType \in {"N1L", "N2L", "BR_PREDICTOR"}
  /\ pf_pipe_width \in Nat /\ fe_pipe_width \in Nat
  /\ pd_pipe_width \in Nat /\ d_pipe_width \in Nat
  /\ f_buffer_size \in Nat /\ iq_buffer_size \in Nat
  /\ RetireLimit \in Nat /\ UninitValues \subseteq Nat

VARIABLES
  temp_ins,             (* Trace: the line read ahead, NULL past the end   *)
  stage,
  prefetch_block, fetch_buffer, fetch_block, iq_buffer,
  fetch_per_block,      (* fetch requests of fetch_block still unanswered  *)
  prev_fetch_cb, prev_prefetch_cl,
  last_misp, trace_over,
  total_decoded_ins,
  retire_ins_count, total_stalls, ifetch_stalls, decode_stalls,
  prefetched            (* history: the lines ever requested by "pf"       *)

pipeVars  == <<temp_ins, prefetch_block, fetch_buffer, fetch_block, iq_buffer>>
statVars  == <<retire_ins_count, total_stalls, ifetch_stalls, decode_stalls>>
fetchVars == <<fetch_per_block, prev_fetch_cb>>
predVars  == <<prev_prefetch_cl, last_misp, trace_over, prefetched>>
cpuVars   == <<stage, pipeVars, total_decoded_ins, statVars, fetchVars, predVars>>
simVars   == <<l1iVars, cpuVars>>

-----------------------------------------------------------------------------
(* The constructor initialises neither last_misp nor total_decoded_ins.    *)
SimInit ==
  /\ L1iInit
  /\ temp_ins \in parse_ins(1)
  /\ stage = "decode"
  /\ prefetch_block = <<>> /\ fetch_buffer = <<>>
  /\ fetch_block = <<>> /\ iq_buffer = <<>>
  /\ fetch_per_block = 0
  /\ prev_fetch_cb = 0 /\ prev_prefetch_cl = 0
  /\ last_misp \in BOOLEAN
  /\ trace_over = FALSE
  /\ total_decoded_ins \in UninitValues
  /\ retire_ins_count = 0
  /\ total_stalls = 0 /\ ifetch_stalls = 0 /\ decode_stalls = 0
  /\ prefetched = {}

At(s) == pc = "cpu" /\ stage = s

(* The next part of the step; of the cache only its queues may change, and *)
(* only Decode counts decoded instructions.                                *)
GoTo(s) ==
  /\ stage' = s
  /\ UNCHANGED <<total_decoded_ins, steps, pc, i, tagVars, mshrVars, bwVars>>

Quiet == UNCHANGED ioVars   (* no call to the cache *)

-----------------------------------------------------------------------------
(* Decode: up to d_pipe_width instructions leave the queue.                *)
Decode ==
  LET left == IF Len(iq_buffer) <= d_pipe_width THEN <<>>
              ELSE SubSeq(iq_buffer, d_pipe_width + 1, Len(iq_buffer))
  IN  /\ At("decode")
      /\ iq_buffer' = left
      /\ total_decoded_ins' = total_decoded_ins + Len(iq_buffer) - Len(left)
      /\ stage' = "response"
      /\ UNCHANGED l1iVars
      /\ UNCHANGED <<temp_ins, prefetch_block, fetch_buffer, fetch_block>>
      /\ UNCHANGED <<statVars, fetchVars, predVars>>

(* The responses to the current fetch block, as far as they are due.       *)
ReceiveFetch ==
  /\ At("response")
  /\ fetch_per_block > 0
  /\ ResponseReady
  /\ super_in_response_buffer' = Tail(super_in_response_buffer)
  /\ fetch_per_block' = fetch_per_block - 1
  /\ GoTo("response")
  /\ UNCHANGED <<super_in_request_buffer, pipeVars, statVars, prev_fetch_cb, predVars>>

ResponsesDone ==
  /\ At("response")
  /\ ~ (fetch_per_block > 0 /\ ResponseReady)
  /\ IF fetch_per_block > 0
     THEN /\ ifetch_stalls' = ifetch_stalls + 1
          /\ decode_stalls' = IF iq_buffer = <<>> THEN decode_stalls + 1
                                                  ELSE decode_stalls
     ELSE UNCHANGED <<ifetch_stalls, decode_stalls>>
  /\ GoTo("fetch") /\ Quiet
  /\ UNCHANGED <<pipeVars, retire_ins_count, total_stalls, fetchVars, predVars>>

-----------------------------------------------------------------------------
(* Fetch: the block that has arrived moves to the instruction queue, and a *)
(* new one is made from the front of the fetch buffer.                     *)

(* Mutant: the block moves on before its lines have come.                  *)
FetchReady_unanswered == Len(iq_buffer) + Len(fetch_block) <= iq_buffer_size

FetchReady ==
  /\ fetch_block = <<>> \/ fetch_per_block <= 0
  /\ Len(iq_buffer) + Len(fetch_block) <= iq_buffer_size

Retired == retire_ins_count + Len(fetch_block)

(* Mutant: a stalled cycle is not counted.                                 *)
FetchStall_uncounted ==
  /\ At("fetch") /\ ~ FetchReady
  /\ GoTo("predict") /\ Quiet
  /\ UNCHANGED <<pipeVars, statVars, fetchVars, predVars>>

FetchStall ==
  /\ At("fetch") /\ ~ FetchReady
  /\ total_stalls' = total_stalls + 1
  /\ GoTo("predict") /\ Quiet
  /\ UNCHANGED <<pipeVars, retire_ins_count, ifetch_stalls, decode_stalls>>
  /\ UNCHANGED <<fetchVars, predVars>>

(* Mutant: the last block is not counted.                                  *)
RetireLimitReached_uncounted ==
  /\ At("fetch") /\ FetchReady
  /\ Retired >= RetireLimit
  /\ fetch_per_block' = 0
  /\ GoTo("done") /\ Quiet
  /\ UNCHANGED <<pipeVars, statVars, prev_fetch_cb, predVars>>

(* The run ends here, with the block still in place.                       *)
RetireLimitReached ==
  /\ At("fetch") /\ FetchReady
  /\ Retired >= RetireLimit
  /\ fetch_per_block' = 0
  /\ retire_ins_count' = Retired
  /\ GoTo("done") /\ Quiet
  /\ UNCHANGED <<pipeVars, total_stalls, ifetch_stalls, decode_stalls>>
  /\ UNCHANGED <<prev_fetch_cb, predVars>>

FetchAdvance ==
  /\ At("fetch") /\ FetchReady
  /\ Retired < RetireLimit
  /\ fetch_per_block' = 0
  /\ retire_ins_count' = Retired
  /\ iq_buffer' = iq_buffer \o fetch_block
  /\ fetch_block' = <<>>
  /\ GoTo("fetching") /\ Quiet
  /\ UNCHANGED <<temp_ins, prefetch_block, fetch_buffer>>
  /\ UNCHANGED <<total_stalls, ifetch_stalls, decode_stalls, prev_fetch_cb, predVars>>

(* Mutant: the used-up block is never popped.                              *)
PopEmptyBlock_stuck ==
  /\ At("fetching")
  /\ fetch_buffer # <<>> /\ Head(fetch_buffer) = <<>>
  /\ GoTo("fetching") /\ Quiet
  /\ UNCHANGED <<pipeVars, statVars, fetchVars, predVars>>

(* A block that fetch has used up is removed only when the next is needed. *)
PopEmptyBlock ==
  /\ At("fetching")
  /\ fetch_buffer # <<>> /\ Head(fetch_buffer) = <<>>
  /\ fetch_buffer' = Tail(fetch_buffer)
  /\ GoTo("fetching") /\ Quiet
  /\ UNCHANGED <<temp_ins, prefetch_block, fetch_block, iq_buffer>>
  /\ UNCHANGED <<statVars, fetchVars, predVars>>

FetchStarved ==
  /\ At("fetching")
  /\ fetch_buffer = <<>>
  /\ GoTo("predict") /\ Quiet
  /\ UNCHANGED <<pipeVars, statVars, fetchVars, predVars>>

(* Mutant: a signed difference.                                            *)
Beyond_signed(ia, start, width) == ia > start + width

(* ia - start > width, in uint64_t.                                        *)
Beyond(ia, start, width) == ia < start \/ ia - start > width

EndsFetchBlock(ins, block) ==
  \/ ins.kind = "taken"
  \/ Beyond(ins.ia, Head(block).ia, fe_pipe_width)
  \/ Len(block) >= pd_pipe_width

(* One instruction joins the fetch block; a line other than the last one   *)
(* requested is requested.                                                 *)
FetchIns ==
  LET ins     == Head(Head(fetch_buffer))
      ins_cla == line_of(ins.ia)
      block   == Append(fetch_block, ins)
  IN  /\ At("fetching")
      /\ fetch_buffer # <<>> /\ Head(fetch_buffer) # <<>>
      /\ fetch_buffer' = <<Tail(Head(fetch_buffer))>> \o Tail(fetch_buffer)
      /\ fetch_block' = block
      /\ IF ins_cla # prev_fetch_cb
         THEN /\ sub_send_request("f", ins_cla)
              /\ fetch_per_block' = fetch_per_block + 1
              /\ prev_fetch_cb' = ins_cla
         ELSE UNCHANGED <<super_in_request_buffer, fetchVars>>
      /\ GoTo(IF EndsFetchBlock(ins, block) THEN "predict" ELSE "fetching")
      /\ UNCHANGED <<super_in_response_buffer, temp_ins, prefetch_block, iq_buffer>>
      /\ UNCHANGED <<statVars, predVars>>

-----------------------------------------------------------------------------
(* Predict: a new block is read from the trace, and its lines prefetched,  *)
(* unless the pipeline still drains after a misprediction.                 *)

Drained == fetch_buffer = <<>> /\ fetch_block = <<>> /\ iq_buffer = <<>>

PredictSkip ==
  /\ At("predict")
  /\ last_misp /\ ~ Drained
  /\ GoTo("end") /\ Quiet
  /\ UNCHANGED <<pipeVars, statVars, fetchVars, predVars>>

(* Mutants: prediction goes on after a misprediction, or fills the fetch   *)
(* buffer one too far.                                                     *)
PredictStart_undrained ==
  /\ At("predict")
  /\ last_misp' = FALSE
  /\ GoTo(IF Len(fetch_buffer) < f_buffer_size THEN "predicting" ELSE "end") /\ Quiet
  /\ UNCHANGED <<pipeVars, statVars, fetchVars>>
  /\ UNCHANGED <<prev_prefetch_cl, trace_over, prefetched>>

PredictStart_overfills ==
  /\ At("predict")
  /\ ~ last_misp \/ Drained
  /\ last_misp' = FALSE
  /\ GoTo(IF Len(fetch_buffer) <= f_buffer_size THEN "predicting" ELSE "end") /\ Quiet
  /\ UNCHANGED <<pipeVars, statVars, fetchVars>>
  /\ UNCHANGED <<prev_prefetch_cl, trace_over, prefetched>>

PredictStart ==
  /\ At("predict")
  /\ ~ last_misp \/ Drained
  /\ last_misp' = FALSE
  /\ GoTo(IF Len(fetch_buffer) < f_buffer_size THEN "predicting" ELSE "end") /\ Quiet
  /\ UNCHANGED <<pipeVars, statVars, fetchVars>>
  /\ UNCHANGED <<prev_prefetch_cl, trace_over, prefetched>>

(* Mutant: the line after the wanted one is requested.                     *)
SendPrefetch_next(line) ==
  /\ sub_send_request("pf", line + 1)
  /\ prefetched' = prefetched \cup {line + 1}

SendPrefetch(line) ==
  /\ sub_send_request("pf", line)
  /\ prefetched' = prefetched \cup {line}

(* Mutant: a block enters the fetch buffer at its front.                   *)
PushBlock_at_front(block) ==
  /\ fetch_buffer' = IF block = <<>> THEN fetch_buffer ELSE <<block>> \o fetch_buffer
  /\ prefetch_block' = <<>>

PushBlock(block) ==
  /\ fetch_buffer' = IF block = <<>> THEN fetch_buffer ELSE Append(fetch_buffer, block)
  /\ prefetch_block' = <<>>

KeepBlock(block) == prefetch_block' = block /\ UNCHANGED fetch_buffer

(* The end of the loop's body: the block is pushed once it is wide enough. *)
BlockOrNext(ins, block) ==
  IF Beyond(ins.ia, Head(block).ia, pf_pipe_width)
  THEN PushBlock(block) /\ GoTo("end")
  ELSE KeepBlock(block) /\ GoTo("predicting")

(* Trace::next_ins gives no instruction unless another one follows it.     *)
TraceOver ==
  /\ At("predicting")
  /\ IF temp_ins = NULL THEN UNCHANGED temp_ins
     ELSE /\ NULL \in parse_ins(temp_ins.n + 1)
          /\ temp_ins' = NULL
  /\ trace_over' = TRUE
  /\ PushBlock(prefetch_block)
  /\ GoTo("end") /\ Quiet
  /\ UNCHANGED <<fetch_block, iq_buffer, statVars, fetchVars>>
  /\ UNCHANGED <<prev_prefetch_cl, last_misp, prefetched>>

(* The next instruction; its line is prefetched unless it is the last one  *)
(* prefetched.  A control instruction is predicted before the loop goes on. *)
PredictIns(next) ==
  LET ins_cla == line_of(temp_ins.ia)
      block   == Append(prefetch_block, temp_ins)
  IN  /\ At("predicting")
      /\ temp_ins # NULL /\ next # NULL
      /\ temp_ins' = next
      /\ IF Prefetch /\ ins_cla # prev_prefetch_cl
         THEN SendPrefetch(ins_cla) /\ prev_prefetch_cl' = ins_cla
         ELSE UNCHANGED <<super_in_request_buffer, prev_prefetch_cl, prefetched>>
      /\ IF temp_ins.kind = "none"
         THEN BlockOrNext(temp_ins, block)
         ELSE KeepBlock(block) /\ GoTo("control")
      /\ UNCHANGED <<super_in_response_buffer, fetch_block, iq_buffer>>
      /\ UNCHANGED <<statVars, fetchVars, last_misp, trace_over>>

Current == prefetch_block[Len(prefetch_block)]

(* Mutant: the target's line is noted as prefetched and not requested.     *)
PredictedTaken_unsent ==
  /\ At("control")
  /\ Current.kind = "taken"
  /\ prev_prefetch_cl' = line_of(temp_ins.ia)
  /\ PushBlock(prefetch_block)
  /\ GoTo("end") /\ Quiet
  /\ UNCHANGED <<prefetched, temp_ins, fetch_block, iq_buffer>>
  /\ UNCHANGED <<statVars, fetchVars, last_misp, trace_over>>

(* A taken control instruction that is predicted: its target (ins->ta, the *)
(* address of the line read ahead) is prefetched and the block ends.       *)
PredictedTaken ==
  LET target == line_of(temp_ins.ia)
  IN  /\ At("control")
      /\ Current.kind = "taken"
      /\ IF Prefetch /\ PrefetchType = "BR_PREDICTOR" /\ target # prev_prefetch_cl
         THEN SendPrefetch(target)
         ELSE UNCHANGED <<super_in_request_buffer, prefetched>>
      /\ prev_prefetch_cl' = target
      /\ PushBlock(prefetch_block)
      /\ GoTo("end")
      /\ UNCHANGED <<super_in_response_buffer, temp_ins, fetch_block, iq_buffer>>
      /\ UNCHANGED <<statVars, fetchVars, last_misp, trace_over>>

PredictedNotTaken ==
  /\ At("control")
  /\ Current.kind = "not_taken"
  /\ BlockOrNext(Current, prefetch_block) /\ Quiet
  /\ UNCHANGED <<temp_ins, fetch_block, iq_buffer, statVars, fetchVars, predVars>>

Mispredicted ==
  /\ At("control")
  /\ Current.kind \in Fallible
  /\ last_misp' = TRUE
  /\ PushBlock(prefetch_block)
  /\ GoTo("end") /\ Quiet
  /\ UNCHANGED <<temp_ins, fetch_block, iq_buffer, statVars, fetchVars>>
  /\ UNCHANGED <<prev_prefetch_cl, trace_over, prefetched>>

-----------------------------------------------------------------------------
(* The end of the CPU's step and of the cycle; trace_over is a local of    *)
(* the step.                                                               *)
NextStep ==
  /\ stage = "end"
  /\ ~ (trace_over /\ Drained)
  /\ NextCycle
  /\ stage' = "decode"
  /\ trace_over' = FALSE
  /\ UNCHANGED <<pipeVars, total_decoded_ins, statVars, fetchVars>>
  /\ UNCHANGED <<prev_prefetch_cl, last_misp, prefetched>>

(* The driver has failed: Simulate::run leaves its loop.                   *)
RunOver ==
  /\ At("end")
  /\ trace_over /\ Drained
  /\ GoTo("done") /\ Quiet
  /\ UNCHANGED <<pipeVars, statVars, fetchVars, predVars>>

Terminating == At("done") /\ UNCHANGED simVars

-----------------------------------------------------------------------------
DecodeStage  == Decode \/ ReceiveFetch \/ ResponsesDone
FetchPart    == FetchStall \/ RetireLimitReached \/ FetchAdvance
                  \/ PopEmptyBlock \/ FetchStarved \/ FetchIns
PredictStage ==
  \/ PredictSkip \/ PredictStart \/ TraceOver
  \/ /\ temp_ins # NULL
     /\ \E next \in parse_ins(temp_ins.n + 1) : PredictIns(next)
  \/ PredictedTaken \/ PredictedNotTaken \/ Mispredicted

CpuStep == DecodeStage \/ FetchPart \/ PredictStage \/ NextStep \/ RunOver

Work    == (CacheStep /\ UNCHANGED cpuVars) \/ CpuStep
SimNext == Work \/ Terminating

(* One thread runs the loop and nothing blocks it, so it keeps running.    *)
SimSpec == SimInit /\ [][SimNext]_simVars /\ WF_simVars(Work)

-----------------------------------------------------------------------------
(* Properties.                                                             *)

Stages == {"decode", "response", "fetch", "fetching", "predict",
           "predicting", "control", "end", "done"}

PipelineTypeOK ==
  /\ temp_ins \in Ins \cup {NULL}
  /\ prefetch_block \in Seq(Ins) /\ fetch_buffer \in Seq(Seq(Ins))
  /\ fetch_block \in Seq(Ins) /\ iq_buffer \in Seq(Ins)

CpuTypeOK ==
  /\ stage \in Stages
  /\ fetch_per_block \in Nat
  /\ prev_fetch_cb \in Nat /\ prev_prefetch_cl \in Nat
  /\ last_misp \in BOOLEAN /\ trace_over \in BOOLEAN
  /\ total_decoded_ins \in Nat
  /\ retire_ins_count \in Nat
  /\ total_stalls \in Nat /\ ifetch_stalls \in Nat /\ decode_stalls \in Nat
  /\ prefetched \subseteq Lines

(* Every variable of the simulator has the type its declaration gives it.  *)
SimTypeOK == TypeOK /\ PipelineTypeOK /\ CpuTypeOK

(* The CPU's count of unanswered fetches and the cache's queues never      *)
(* drift apart, though the CPU resets its count to 0 whenever it moves on: *)
(* it is the number of requests and responses in the cache, and they all   *)
(* are for lines of the block being fetched.  So no response is taken for  *)
(* another block's, and no block moves on before its lines have come.      *)
FetchAccounting ==
  /\ fetch_per_block = Len(PendingFetches)
  /\ \A n \in DOMAIN PendingFetches :
       \E m \in DOMAIN fetch_block : line_of(fetch_block[m].ia) = PendingFetches[n]

(* The instructions read from the trace and not yet decoded, oldest first. *)
Window == iq_buffer \o fetch_block \o SeqExt!FlattenSeq(fetch_buffer) \o prefetch_block

RunAhead ==
  INSTANCE FrontEnd WITH Instructions <- Ins,
                         Width        <- d_pipe_width,
                         Uninit       <- UninitValues,
                         next         <- temp_ins,
                         queue        <- Window,
                         decoded      <- total_decoded_ins,
                         draining     <- last_misp

(* The pipeline is one queue in trace order, which drains after each       *)
(* misprediction: however blocks are cut, moved and emptied, no            *)
(* instruction is lost, repeated or overtaken, and only what decode takes  *)
(* leaves it, up to d_pipe_width at a time.                                *)
FrontEndInOrder == RunAhead!FrontEndSpec

(* Instructions are counted as retired where they enter the instruction    *)
(* queue, and as decoded (from whatever the count started at) where they   *)
(* leave it: the two differ by what is in between, and at the retire limit *)
(* by the block that has been counted and is not moved any more.           *)
CountsAgree ==
  \E uninit \in UninitValues :
    uninit + retire_ins_count =
      total_decoded_ins + Len(iq_buffer) + IF stage = "done" THEN Len(fetch_block) ELSE 0

(* The queues stay within the configured depths; a fetch buffer entry that *)
(* fetch has emptied still counts until it is popped.                      *)
BuffersWithinLimits ==
  /\ Len(iq_buffer) <= iq_buffer_size
  /\ Len(fetch_buffer) <= f_buffer_size
  /\ pd_pipe_width > 0 => Len(fetch_block) <= pd_pipe_width
  /\ Len(super_in_request_buffer["pf"]) <= InRequestBufferSize

(* Three counters, each incremented in a part of the step of its own and   *)
(* under a condition of its own, count cycles of which one kind includes   *)
(* the next: those that fetch cannot begin a block in, of these those that *)
(* wait for the cache, and of these those that leave decode nothing.       *)
(* Cycles in which fetch or decode only starves are in none of them.       *)
StallsNest ==
  stage # "fetch" =>
    /\ decode_stalls <= ifetch_stalls
    /\ ifetch_stalls <= total_stalls
    /\ total_stalls <= steps + 1

(* With run-ahead prefetching (BR_PREDICTOR) a line is prefetched before   *)
(* it is fetched, taken and mispredicted branches included.                *)
PrefetchLeadsFetch ==
  Prefetch /\ PrefetchType = "BR_PREDICTOR" =>
    \A n \in DOMAIN PendingFetches : PendingFetches[n] \in prefetched

(* A fetch block that has arrived fits an instruction queue that has been  *)
(* drained; if it did not, nothing would ever move again ("size of each    *)
(* buffer entry is variable but up to <pd_pipe_width> instructions").      *)
FetchBlockFits ==
  stage = "fetch" /\ fetch_per_block = 0 /\ iq_buffer = <<>> =>
    Len(fetch_block) <= iq_buffer_size

(* No two instructions of a block lie further apart than the width of the  *)
(* stage that made it, the one that ended it excepted, in whatever order   *)
(* the trace visits addresses: a step backwards wraps round and ends it.   *)
WithinWidth(block, width) ==
  \A m, n \in 1 .. Len(block) - 1 : block[m].ia <= block[n].ia + width

BlocksWithinWidth ==
  /\ \A n \in DOMAIN fetch_buffer : WithinWidth(fetch_buffer[n], pf_pipe_width)
  /\ WithinWidth(prefetch_block, pf_pipe_width)
  /\ WithinWidth(fetch_block, fe_pipe_width)

(* "Total number of cycles in which the fetch stage is stalled or starved":*)
(* a cycle in which fetch finds nothing to fetch is counted.               *)
StarvationCounted ==
  [][ At("fetching") /\ fetch_buffer = <<>> /\ fetch_block = <<>> =>
        total_stalls' = total_stalls + 1 ]_simVars

(* The simulation of a finite trace comes to its end.                      *)
Termination == <>(stage = "done")
=============================================================================
