----------------------------- MODULE InOrderCpu -----------------------------
(***************************************************************************)
(* The simulator with l1i_standalone = false: Simulate::run, which         *)
(* alternates a step of the memory hierarchy (CacheHierarchy) and a step   *)
(* of the in-order CPU, Cpu::step, over a trace.  back_end is false, since *)
(* with a back end nothing would ever leave fe_pipe.                       *)
(*                                                                         *)
(* stage names the part of the CPU's step that runs next; it is meaningful *)
(* while the hierarchy waits for its client (pc = "client").               *)
(***************************************************************************)
EXTENDS CacheHierarchy, TraceReader

CONSTANTS
  FePipeDepth,   (* cpu_config.fe_pipe_depth                               *)
  FePipeWidth    (* cpu_config.fe_pipe_width, in instructions              *)

ASSUME InOrderAssumption ==
  /\ Addresses \subseteq DataAddrs
  /\ FePipeDepth \in Nat \ {0} /\ FePipeWidth \in Nat \ {0}

VARIABLES
  temp_ins,           (* Trace: the line read ahead, NULL past the end     *)
  stage,
  fe_pipe,            (* the blocks on their way to retirement, first the  *)
                      (* one that retires next                             *)
  fetch_block,        (* the block whose line has been asked for           *)
  retire_ins_count

cpuVars == <<temp_ins, stage, fe_pipe, fetch_block, retire_ins_count>>
inOrderVars == <<hierVars, cpuVars>>

InOrderInit ==
  /\ HierInit
  /\ temp_ins \in parse_ins(1)
  /\ stage = "retire"
  /\ fe_pipe = [n \in 1 .. FePipeDepth |-> <<>>]
  /\ fetch_block = <<>>
  /\ retire_ins_count = 0

At(s) == pc = "client" /\ stage = s

-----------------------------------------------------------------------------
Retire ==
  /\ At("retire")
  /\ fe_pipe' = Tail(fe_pipe)
  /\ retire_ins_count' = retire_ins_count + Len(Head(fe_pipe))
  /\ stage' = "fetch"
  /\ UNCHANGED <<hierVars, temp_ins, fetch_block>>

(* In the first cycle there is nothing to wait for.                        *)
FetchFirst ==
  /\ At("fetch") /\ steps = 0
  /\ fe_pipe' = Append(fe_pipe, <<>>)
  /\ stage' = "reading"
  /\ UNCHANGED <<hierVars, temp_ins, fetch_block, retire_ins_count>>

FetchWait ==
  /\ At("fetch") /\ steps # 0
  /\ ~ AnswerDue(super_in_response_buffer)
  /\ fe_pipe' = Append(fe_pipe, <<>>)
  /\ stage' = "end"
  /\ UNCHANGED <<hierVars, temp_ins, fetch_block, retire_ins_count>>

(* Mutant: the block moves into the pipe and stays where it was.           *)
FetchAnswer_keeps(k) ==
  /\ At("fetch") /\ steps # 0
  /\ get_response(k)
  /\ fe_pipe' = Append(fe_pipe, fetch_block)
  /\ stage' = "reading"
  /\ UNCHANGED <<temp_ins, fetch_block, retire_ins_count>>

(* The answer is for the block, or is dropped.                             *)
FetchAnswer(k) ==
  /\ At("fetch") /\ steps # 0
  /\ get_response(k)
  /\ IF cache_out_request_buffer[super_in_response_buffer[k]] = Head(fetch_block).ia
     THEN /\ fe_pipe' = Append(fe_pipe, fetch_block)
          /\ fetch_block' = <<>>
          /\ stage' = "reading"
     ELSE /\ fe_pipe' = Append(fe_pipe, <<>>)
          /\ stage' = "end"
          /\ UNCHANGED fetch_block
  /\ UNCHANGED <<temp_ins, retire_ins_count>>

(* Mutant: a block may take one instruction more than its width.           *)
ReadIns_overfills(next) ==
  /\ At("reading")
  /\ temp_ins # NULL /\ next # NULL
  /\ temp_ins' = next
  /\ fetch_block' = Append(fetch_block, temp_ins)
  /\ stage' = IF Len(fetch_block) = FePipeWidth \/ temp_ins.kind # "none"
              THEN "send" ELSE "reading"
  /\ UNCHANGED <<hierVars, fe_pipe, retire_ins_count>>

(* One instruction joins the block.                                        *)
ReadIns(next) ==
  /\ At("reading")
  /\ temp_ins # NULL /\ next # NULL
  /\ temp_ins' = next
  /\ fetch_block' = Append(fetch_block, temp_ins)
  /\ stage' = IF Len(fetch_block') = FePipeWidth \/ temp_ins.kind # "none"
              THEN "send" ELSE "reading"
  /\ UNCHANGED <<hierVars, fe_pipe, retire_ins_count>>

(* Trace::next_ins has nothing to give; the CPU reads the instruction's    *)
(* address before it tests for that.                                       *)
TraceEnd ==
  /\ At("reading")
  /\ \/ temp_ins = NULL
     \/ temp_ins # NULL /\ NULL \in parse_ins(temp_ins.n + 1)
  /\ temp_ins' = NULL
  /\ stage' = "crashed"
  /\ UNCHANGED <<hierVars, fe_pipe, fetch_block, retire_ins_count>>

(* Mutant: the line of the block's last instruction is asked for.          *)
SendFetch_last ==
  /\ At("send")
  /\ IF CacheFull THEN UNCHANGED hierVars
     ELSE \E r \in Requests : send_request(r, fetch_block[Len(fetch_block)].ia)
  /\ stage' = "end"
  /\ UNCHANGED <<temp_ins, fe_pipe, fetch_block, retire_ins_count>>

(* The block's line is asked for, by the address of its first instruction; *)
(* if the cache refuses, it is not asked for again.                        *)
SendFetch ==
  /\ At("send")
  /\ IF CacheFull THEN UNCHANGED hierVars
     ELSE \E r \in Requests : send_request(r, Head(fetch_block).ia)
  /\ stage' = "end"
  /\ UNCHANGED <<temp_ins, fe_pipe, fetch_block, retire_ins_count>>

NextStep ==
  /\ At("end")
  /\ EndCycle
  /\ stage' = "retire"
  /\ UNCHANGED <<temp_ins, fe_pipe, fetch_block, retire_ins_count>>

Crashed == stage = "crashed" /\ UNCHANGED inOrderVars

-----------------------------------------------------------------------------
FetchPart ==
  \/ FetchFirst \/ FetchWait \/ SendFetch
  \/ \E k \in DOMAIN super_in_response_buffer : FetchAnswer(k)

ReadPart ==
  \/ TraceEnd
  \/ /\ temp_ins # NULL
     /\ \E next \in parse_ins(temp_ins.n + 1) : ReadIns(next)

CpuStep == Retire \/ FetchPart \/ ReadPart

Work == (HierStep /\ UNCHANGED cpuVars) \/ CpuStep \/ NextStep

InOrderNext == Work \/ Crashed

InOrderSpec == InOrderInit /\ [][InOrderNext]_inOrderVars /\ WF_inOrderVars(Work)

-----------------------------------------------------------------------------
(* Properties.                                                             *)

(* The requests that an answer may still come of: queued in the cache,     *)
(* somewhere in memory, or answered by the cache.                          *)
Moving == Entries(super_in_request_buffer) \cup InMemory \cup Answered

(* Between two steps of the CPU exactly one request is out, and it is the  *)
(* one for the block that waits.  It is where an answer comes from, unless *)
(* memory's answer to it has read as FAIL: nothing else ever makes the CPU *)
(* wait for ever, which it would if the request were refused, forgotten or *)
(* answered for another address, since it asks once.                       *)
FetchOutstanding ==
  steps > 0 /\ pc # "client" =>
    \E r \in Requests :
      /\ cache_out_request_buffer = [q \in {r} |-> Head(fetch_block).ia]
      /\ InCache = {r} /\ lost \subseteq {r}
      /\ Moving = {r} \ lost

Pipe ==
  INSTANCE FrontEnd WITH Instructions <- Ins,
                         Width        <- FePipeWidth,
                         Uninit       <- {0},
                         next         <- temp_ins,
                         queue        <- SeqExt!FlattenSeq(fe_pipe) \o fetch_block,
                         decoded      <- retire_ins_count,
                         draining     <- FALSE

(* The pipe and the block implement one queue from the trace to            *)
(* retirement, as the run-ahead CPU's buffers do, though blocks are pushed *)
(* on four branches of the step and popped on one.                         *)
InOrderPipe == Pipe!FrontEndSpec

(* Every block pays the cache's latency, fill or hit: in each round trip   *)
(* no more than fe_pipe_width instructions enter the pipe, and they retire *)
(* no sooner than fe_pipe_depth cycles later.                              *)
FetchPaced ==
  LET fetched(cycle) == FePipeWidth * (cycle \div (HitLatency + 1))
  IN  /\ retire_ins_count + Len(SeqExt!FlattenSeq(fe_pipe)) <= fetched(steps)
      /\ steps >= FePipeDepth => retire_ins_count <= fetched(steps - FePipeDepth)

(* The CPU never has two misses of one line under way, so no set lists a   *)
(* line twice: neither fill nor read has to deal with duplicates here.     *)
LinesListedOnce ==
  \A idx \in SetIndices :
    LET set == tag_store[idx]
    IN  /\ Len(set.replacement_order) = Cardinality(set.ways)
        /\ Entries(set.replacement_order) = set.ways

(* The whole trace is read, unless an answer of memory is lost.            *)
TraceConsumed == <>(temp_ins = NULL \/ lost # {})
=============================================================================
