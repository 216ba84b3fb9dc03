------------------------------ MODULE SimReport ------------------------------
(***************************************************************************)
(* The run-ahead simulator with the parts that RunaheadSim leaves open:    *)
(* the branch predictor (BrPredictor) gives the answers, and the cache     *)
(* counts requests and misses, so that all that print_results() reports of *)
(* a run is here together.                                                 *)
(*                                                                         *)
(* Each action is one of RunaheadSim together with the call of predict()   *)
(* or the counting that the code does in it.  The type of a control        *)
(* instruction, of which RunaheadSim knows only whether it is taken, is    *)
(* chosen when the predictor looks at it, which nothing else does.         *)
(***************************************************************************)
EXTENDS RunaheadSim

CONSTANTS PredTypes, ExactReferencesPerMiss, BtbSetBits, BtbTagMask,
          CallStackSize, UninitCallStack, I, J, K, S, InitVal, IntBits

VARIABLES
  total_requests, total_misses,   (* Cache_L1i_Standalone, by requester    *)
  fetches_sent,                   (* history: fetch requests of the CPU    *)
  br_pred_type, branch_predictor, btb, call_stack, total_exact_references,
  total, predict_res, references, failures, last_taken   (* BrPredictor    *)

cacheStats    == <<total_requests, total_misses>>
predictorVars == <<br_pred_type, branch_predictor, btb, call_stack, total_exact_references,
                   total, predict_res, references, failures, last_taken>>
reportVars    == <<simVars, cacheStats, fetches_sent, predictorVars>>

TypesOf(kind) ==
  IF kind = "taken" THEN {"JUMP", "CALL", "RET", "BRANCH"} ELSE {"BRANCH"}

Predictor ==
  INSTANCE BrPredictor WITH
    Instructions <- UNION {[control_type : TypesOf(kind), taken : {kind = "taken"},
                            ia : Addresses, ta : Addresses] : kind \in Kinds \ {"none"}}

ReportInit ==
  /\ SimInit
  /\ Predictor!PredictorInit
  /\ total_requests = [obj \in ReqObj |-> 0]
  /\ total_misses = [obj \in ReqObj |-> 0]
  /\ fetches_sent = 0

-----------------------------------------------------------------------------
(* The cache's step: a request is counted when it leaves its queue.        *)

CountHit(obj) ==
  /\ total_requests' = [total_requests EXCEPT ![obj] = @ + 1]
  /\ UNCHANGED total_misses

CountMiss(obj) ==
  /\ total_requests' = [total_requests EXCEPT ![obj] = @ + 1]
  /\ total_misses' = [total_misses EXCEPT ![obj] = @ + 1]

(* Mutant: a miss that L2 refuses is counted each time it is tried.        *)
NotServed_counted ==
  \/ (FillStep \/ PrefetchEnd) /\ UNCHANGED cacheStats
  \/ /\ FetchEnd
     /\ IF HitBwLeft /\ FetchRefused THEN CountMiss("f") ELSE UNCHANGED cacheStats

NotServed == (FillStep \/ FetchEnd \/ PrefetchEnd) /\ UNCHANGED cacheStats

(* A fetch of a line that is on its way is a miss, a prefetch of one is    *)
(* not; a false miss is a miss.                                            *)
Served(line) ==
  \/ FetchHit(line) /\ CountHit("f")
  \/ (FetchMerge(line) \/ FetchMiss(line)) /\ CountMiss("f")
  \/ (PrefetchMerge(line) \/ PrefetchHit(line)) /\ CountHit("pf")
  \/ PrefetchMiss(line) /\ CountMiss("pf")

CacheCounts ==
  /\ NotServed \/ \E line \in Lines : Served(line)
  /\ UNCHANGED <<cpuVars, fetches_sent, predictorVars>>

-----------------------------------------------------------------------------
(* The CPU's step.                                                         *)

(* br_predictor->predict(ins), whose result decides what the CPU does.     *)
Control ==
  /\ \E type \in TypesOf(Current.kind) :
       Predictor!predict([control_type |-> type, taken |-> Current.kind = "taken",
                          ia |-> Current.ia, ta |-> temp_ins.ia])
  /\ IF predict_res' = "SUCCESS" THEN PredictedTaken \/ PredictedNotTaken
                                 ELSE Mispredicted
  /\ UNCHANGED <<cacheStats, fetches_sent>>

ReadPart ==
  /\ temp_ins # NULL
  /\ \E next \in parse_ins(temp_ins.n + 1) : PredictIns(next)

OtherStep ==
  /\ \/ DecodeStage \/ FetchPart
     \/ PredictSkip \/ PredictStart \/ TraceOver \/ ReadPart
     \/ NextStep \/ RunOver
  /\ fetches_sent' = fetches_sent + IF fetch_per_block' > fetch_per_block THEN 1 ELSE 0
  /\ UNCHANGED <<cacheStats, predictorVars>>

ReportWork == CacheCounts \/ (At("control") /\ Control) \/ OtherStep

ReportNext == ReportWork \/ (At("done") /\ UNCHANGED reportVars)

(* One thread, as in SimSpec.                                              *)
ReportSpec == ReportInit /\ [][ReportNext]_reportVars /\ WF_reportVars(ReportWork)

-----------------------------------------------------------------------------
(* Properties.                                                             *)

(* "f Requests" is what the fetch stage has asked for: a request that L2   *)
(* refuses is looked up again each cycle, and still counted once.          *)
FetchRequestsCounted ==
  fetches_sent = total_requests["f"] + Len(super_in_request_buffer["f"])

(* What the cache reports as misses of fetch, the CPU reports as stalls: a *)
(* cycle with a miss, be its line asked for before or not, is one in which *)
(* the fetch block goes on waiting, so no more misses than the cache's     *)
(* ports allow come to one stalled cycle.                                  *)
MissesCostStalls ==
  pc = "cpu" /\ stage \notin {"decode", "response"} =>
    total_misses["f"] <= HitRequestBw * ifetch_stalls

(* A misprediction costs three cycles at least, in which its block is      *)
(* fetched, moved and decoded, before anything can be mispredicted again.  *)
FlushesCostCycles == steps + 3 >= 3 * failures
=============================================================================
