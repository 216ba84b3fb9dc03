---------------------------- MODULE BrPredictor -----------------------------
(***************************************************************************)
(* The branch predictor, class Br_Predictor: predict(), which the CPU      *)
(* calls for each control instruction it reads from the trace, in each of  *)
(* its configurations.  An action is one call; predict_res is its result.  *)
(*                                                                         *)
(* The statistics are the fields of `total'.  The branch target buffer,    *)
(* two unordered_maps in the code, always written together, is the partial *)
(* function btb.  Which instruction is predicted is any one at all.        *)
(***************************************************************************)
EXTENDS TwoLevel, Integers, Sequences

CONSTANTS
  Instructions,             (* the control instructions of the trace       *)
  PredTypes,                (* the configurations: br_pred_type, or        *)
                            (* "DISABLED" where br_predictor is false      *)
  ExactReferencesPerMiss,   (* exact_references_per_miss                   *)
  BtbSetBits,               (* log2(btb_config.sets)                       *)
  BtbTagMask,               (* btb_tag_mask, as the set of its bits        *)
  CallStackSize,            (* call_stack_config.size                      *)
  UninitCallStack           (* what the memory of call_stack may hold      *)

Control == [control_type : {"JUMP", "CALL", "RET", "BRANCH"}, taken : BOOLEAN,
            ia : Nat, ta : Nat]

btb_tag_shift == BtbSetBits + 1

(* btb_tag_mask is pow(2, bits) - 1 with sets - btb_tag_shift for bits:    *)
(* the number of sets stands where the width of an address is meant.  A    *)
(* double has 53 bits, so that beyond them the 1 is lost and the power     *)
(* alone is left (57 bits, for 64 sets); from 64 bits on (128 sets) the    *)
(* conversion to uint64_t is undefined and any mask may come out.          *)
TagBits == 2^BtbSetBits - btb_tag_shift

MaskOfDouble(bits) == IF bits <= 53 THEN 0 .. bits - 1 ELSE {bits}

ASSUME BrPredictorAssumption ==
  /\ Instructions \subseteq Control
  /\ \A ins \in Instructions : ins.control_type # "BRANCH" => ins.taken
  /\ PredTypes \subseteq {"NONE", "TWO_LEVEL", "PERFECT", "EXACT", "DISABLED"}
  /\ ExactReferencesPerMiss \in Nat
  /\ BtbSetBits \in Nat
  /\ BtbTagMask \subseteq 0 .. 63
  /\ TagBits < 64 => BtbTagMask = MaskOfDouble(TagBits)
  /\ CallStackSize \in Nat
  /\ UninitCallStack \subseteq Nat

VARIABLES
  br_pred_type,             (* the configuration of the run                *)
  branch_predictor,         (* the two-level predictor's tables            *)
  btb,                      (* set |-> [tag, target]                       *)
  call_stack,               (* the depth of the call stack, all there is   *)
  total_exact_references,
  total,                    (* the other statistics                        *)
  predict_res,              (* the last call's result                      *)
  references, failures,     (* history: calls of predict, and FAILs        *)
  last_taken                (* history: btb set |-> the last instruction   *)
                            (* that was taken there, returns apart         *)

tableVars   == <<branch_predictor, btb, call_stack>>
historyVars == <<references, failures, last_taken>>
predictorVars == <<br_pred_type, tableVars, total_exact_references, total, predict_res, historyVars>>

Statistics ==
  {"taken_branches", "not_taken_branches", "jumps", "calls", "returns",
   "branch_mispredictions", "branch_dir_mispredictions",
   "branch_target_mispredictions", "jump_mispredictions",
   "call_mispredictions", "return_mispredictions"}

(* The constructor leaves call_stack as it finds it.                       *)
PredictorInit ==
  /\ br_pred_type \in PredTypes
  /\ branch_predictor = NewBpred
  /\ btb = <<>>
  /\ call_stack \in UninitCallStack
  /\ total_exact_references = 0
  /\ total = [stat \in Statistics |-> 0]
  /\ predict_res = "SUCCESS"
  /\ references = 0 /\ failures = 0
  /\ last_taken = <<>>

Count(stats) ==
  total' = [stat \in Statistics |-> total[stat] + IF stat \in stats THEN 1 ELSE 0]

(* The history variables follow the call that has just been made.          *)
Return(res) ==
  /\ UNCHANGED br_pred_type
  /\ predict_res' = res
  /\ references' = references + 1
  /\ failures' = failures + IF res = "FAIL" THEN 1 ELSE 0

-----------------------------------------------------------------------------
(* The branch target buffer.                                               *)

btb_set_idx(ins) == (ins.ia \div 2) % 2^BtbSetBits

AboveIndex(ins, bit) == ((ins.ia \div 2^btb_tag_shift) \div 2^bit) % 2 = 1

(* Mutant: the tag of a short address, without the mask.                   *)
btb_tag_unmasked(ins) == {bit \in 0 .. 15 : AboveIndex(ins, bit)}

(* The bits under the mask that are 1.                                     *)
btb_tag(ins) == {bit \in BtbTagMask : AboveIndex(ins, bit)}

BtbHit(ins) ==
  /\ btb_set_idx(ins) \in DOMAIN btb
  /\ btb[btb_set_idx(ins)] = [tag |-> btb_tag(ins), target |-> ins.ta]

Store(f, key, value) == [k \in DOMAIN f \cup {key} |-> IF k = key THEN value ELSE f[k]]

(* Mutant: a tag that matches keeps the target it has.                     *)
TrainBtb_keeps_target(ins) ==
  btb' = IF btb_set_idx(ins) \in DOMAIN btb /\ btb[btb_set_idx(ins)].tag = btb_tag(ins)
         THEN btb
         ELSE Store(btb, btb_set_idx(ins), [tag |-> btb_tag(ins), target |-> ins.ta])

(* predict_target: a miss, of whatever kind, puts the instruction in.      *)
TrainBtb(ins) ==
  btb' = IF BtbHit(ins) THEN btb
         ELSE Store(btb, btb_set_idx(ins), [tag |-> btb_tag(ins), target |-> ins.ta])

Taken(ins) == last_taken' = Store(last_taken, btb_set_idx(ins), ins)

TargetResult(ins) == IF BtbHit(ins) THEN "SUCCESS" ELSE "FAIL"
TargetStat(ins, stat) == IF BtbHit(ins) THEN {} ELSE {stat}

-----------------------------------------------------------------------------
(* predict() with the two-level predictor, one action per kind.            *)

Kind(ins, type) == br_pred_type = "TWO_LEVEL" /\ ins.control_type = type

PredictJump(ins) ==
  /\ Kind(ins, "JUMP")
  /\ TrainBtb(ins) /\ Taken(ins)
  /\ Count({"jumps"} \cup TargetStat(ins, "jump_mispredictions"))
  /\ Return(TargetResult(ins))
  /\ UNCHANGED <<branch_predictor, call_stack, total_exact_references>>

(* push_call: a full stack forgets the call, and nobody looks at the result. *)
push_call == call_stack' = IF call_stack < CallStackSize THEN call_stack + 1 ELSE call_stack

PredictCall(ins) ==
  /\ Kind(ins, "CALL")
  /\ push_call
  /\ TrainBtb(ins) /\ Taken(ins)
  /\ Count({"calls"} \cup TargetStat(ins, "call_mispredictions"))
  /\ Return(TargetResult(ins))
  /\ UNCHANGED <<branch_predictor, total_exact_references>>

(* predict_ret, with an empty stack and with a call to return to.          *)
PredictRetUnmatched(ins) ==
  /\ Kind(ins, "RET")
  /\ call_stack <= 0
  /\ Count({"returns", "return_mispredictions"})
  /\ Return("FAIL")
  /\ UNCHANGED <<tableVars, total_exact_references, last_taken>>

(* Mutant: the call stays on the stack.                                    *)
PredictRetMatched_peeks(ins) ==
  /\ Kind(ins, "RET")
  /\ call_stack > 0
  /\ Count({"returns"})
  /\ Return("SUCCESS")
  /\ UNCHANGED <<tableVars, total_exact_references, last_taken>>

PredictRetMatched(ins) ==
  /\ Kind(ins, "RET")
  /\ call_stack > 0
  /\ call_stack' = call_stack - 1
  /\ Count({"returns"})
  /\ Return("SUCCESS")
  /\ UNCHANGED <<branch_predictor, btb, total_exact_references, last_taken>>

(* predict_dir: the tables are trained whatever comes out.                 *)
actual_dir(ins) == IF ins.taken THEN 1 ELSE 0
DirRight(ins)   == pred(branch_predictor, ins.ia) = actual_dir(ins)

TrainDir(ins) ==
  branch_predictor' = update(branch_predictor, ins.ia, actual_dir(ins))

DirStat(ins) == IF DirRight(ins) THEN {} ELSE {"branch_dir_mispredictions"}

(* Mutant: branch mispredictions are counted for taken branches only.      *)
PredictNotTaken_uncounted(ins) ==
  /\ Kind(ins, "BRANCH") /\ ~ ins.taken
  /\ TrainDir(ins)
  /\ Count({"not_taken_branches"} \cup DirStat(ins))
  /\ Return("SUCCESS")
  /\ UNCHANGED <<btb, call_stack, total_exact_references, last_taken>>

(* A branch not taken is a SUCCESS even where it was predicted taken.      *)
PredictNotTaken(ins) ==
  /\ Kind(ins, "BRANCH") /\ ~ ins.taken
  /\ TrainDir(ins)
  /\ Count({"not_taken_branches"} \cup DirStat(ins) \cup
             IF DirRight(ins) THEN {} ELSE {"branch_mispredictions"})
  /\ Return("SUCCESS")
  /\ UNCHANGED <<btb, call_stack, total_exact_references, last_taken>>

PredictTaken(ins) ==
  /\ Kind(ins, "BRANCH") /\ ins.taken
  /\ TrainDir(ins)
  /\ TrainBtb(ins) /\ Taken(ins)
  /\ Count({"taken_branches"} \cup DirStat(ins)
             \cup TargetStat(ins, "branch_target_mispredictions") \cup
             IF DirRight(ins) /\ BtbHit(ins) THEN {} ELSE {"branch_mispredictions"})
  /\ Return(IF DirRight(ins) THEN TargetResult(ins) ELSE "FAIL")
  /\ UNCHANGED <<call_stack, total_exact_references>>

-----------------------------------------------------------------------------
(* predict() in the other configurations.  With NONE (and any other number *)
(* that br_pred_type is set to) it ends without a return statement, after  *)
(* the tests for PERFECT and EXACT.  Compiled as the Makefile has it, the  *)
(* last test is taken for granted and NONE is EXACT; unoptimised, what is  *)
(* left in the register reads as SUCCESS.                                  *)

(* Mutant: one reference too many between two misses.                      *)
ExactMiss_late == total_exact_references + 1 > ExactReferencesPerMiss

ExactMiss == total_exact_references + 1 >= ExactReferencesPerMiss

PredictExact(ins) ==
  /\ br_pred_type \in {"EXACT", "NONE"}
  /\ total_exact_references' = IF ExactMiss THEN 0 ELSE total_exact_references + 1
  /\ Return(IF ExactMiss THEN "FAIL" ELSE "SUCCESS")
  /\ UNCHANGED <<tableVars, total, last_taken>>

PredictPerfect(ins) ==
  /\ br_pred_type \in {"PERFECT", "NONE"}
  /\ Return("SUCCESS")
  /\ UNCHANGED <<tableVars, total_exact_references, total, last_taken>>

PredictDisabled(ins) ==
  /\ br_pred_type = "DISABLED"
  /\ Return(IF ins.taken THEN "FAIL" ELSE "SUCCESS")
  /\ UNCHANGED <<tableVars, total_exact_references, total, last_taken>>

predict(ins) ==
  \/ PredictJump(ins) \/ PredictCall(ins)
  \/ PredictRetUnmatched(ins) \/ PredictRetMatched(ins)
  \/ PredictNotTaken(ins) \/ PredictTaken(ins)
  \/ PredictExact(ins) \/ PredictPerfect(ins) \/ PredictDisabled(ins)

PredictorNext == \E ins \in Instructions : predict(ins)

PredictorSpec == PredictorInit /\ [][PredictorNext]_predictorVars

-----------------------------------------------------------------------------
(* Properties.                                                             *)

(* Every variable of the predictor has the type its declaration gives it.  *)
PredictorTypeOK ==
  /\ br_pred_type \in PredTypes
  /\ branch_predictor \in Bpred
  /\ DOMAIN btb \subseteq 0 .. 2^BtbSetBits - 1
  /\ btb \in [DOMAIN btb -> [tag : SUBSET BtbTagMask, target : Nat]]
  /\ call_stack \in Nat
  /\ total_exact_references \in Nat
  /\ total \in [Statistics -> Nat]
  /\ predict_res \in {"SUCCESS", "FAIL"}
  /\ references \in Nat /\ failures \in Nat
  /\ last_taken \in [DOMAIN btb -> Instructions]

Mispredictions ==
  total.jump_mispredictions + total.call_mispredictions
    + total.return_mispredictions + total.branch_mispredictions

(* The statistics add up, though each is counted in a helper of its own: a *)
(* branch mispredicted in both direction and target is counted once, one   *)
(* mispredicted in either is counted, and no FAIL goes uncounted.          *)
MispredictionsAddUp ==
  br_pred_type = "TWO_LEVEL" =>
    /\ total.branch_dir_mispredictions <= total.branch_mispredictions
    /\ total.branch_target_mispredictions <= total.branch_mispredictions
    /\ total.branch_mispredictions <= total.branch_dir_mispredictions
                                        + total.branch_target_mispredictions
    /\ failures <= Mispredictions

(* A return is predicted only against a call that was pushed and that no   *)
(* other return has used, or against one of the entries that the stack     *)
(* seems to hold when it is not initialised, through any overflow; and     *)
(* calls alone never make it deeper than its size.                         *)
ReturnsBacked ==
  \E depth \in UninitCallStack :
    /\ total.returns - total.return_mispredictions + call_stack <= total.calls + depth
    /\ call_stack <= CallStackSize \/ call_stack <= depth

(* Over any run, the references that fail are every n-th one, n being      *)
(* exact_references_per_miss, neither early nor late.                      *)
ExactSpacing ==
  br_pred_type = "EXACT" /\ ExactReferencesPerMiss > 0 =>
    /\ failures = references \div ExactReferencesPerMiss
    /\ total_exact_references = references % ExactReferencesPerMiss

(* A set of the target buffer holds the target of the last jump, call or   *)
(* taken branch that fell into it, whether its direction had been          *)
(* predicted or not: no stale target stays behind.                         *)
BtbHoldsLast ==
  br_pred_type = "TWO_LEVEL" =>
    btb = [idx \in DOMAIN last_taken |->
             [tag |-> btb_tag(last_taken[idx]), target |-> last_taken[idx].ta]]

(* A branch that keeps going one way is predicted that way after K + 2     *)
(* times, from any state of the tables: K outcomes fill its history, two   *)
(* turn the counter.                                                       *)
LearnsSteadyBranch ==
  \A ins \in Instructions, actual \in {0, 1} :
    LET trained[n \in 0 .. K + 2] ==
          IF n = 0 THEN branch_predictor ELSE update(trained[n - 1], ins.ia, actual)
    IN  pred(trained[K + 2], ins.ia) = actual

(* The bits of a register that pred() looks at, the newest last.           *)
Seen(register) == [n \in 1 .. K |-> (register \div 2^(K - n)) % 2]

History ==
  INSTANCE BranchHistory WITH
    Branches   <- {ins.ia : ins \in Instructions},
    RegisterOf <- bhsr,
    TableOf    <- pht,
    history    <- [r \in Registers |-> Seen(branch_predictor.BHT[r])],
    counter    <- [t \in Tables |->
                     [p \in [1 .. K -> {0, 1}] |->
                        branch_predictor.PHT[t][CHOOSE e \in 0 .. 2^K - 1 : Seen(e) = p]]]

(* The tables implement a two-level predictor: though a register is an int *)
(* that is never cleared and overflows, what is seen of it is the last K   *)
(* outcomes, and the counter that is trained is the one that predicted.    *)
ImplementsHistory == History!HistorySpec

(* A set and a tag of the target buffer name one instruction (addr_bits is *)
(* there "to ensure unique tags").                                         *)
BtbTagsUnique ==
  \A idx \in DOMAIN btb, ins \in Instructions :
    btb_set_idx(ins) = idx /\ btb_tag(ins) = btb[idx].tag => ins.ia = last_taken[idx].ia
=============================================================================
