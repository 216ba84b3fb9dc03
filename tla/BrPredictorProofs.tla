------------------------- MODULE BrPredictorProofs --------------------------
(***************************************************************************)
(* Theorems about the branch predictor and their proofs, for any code, any *)
(* configuration and any number of predictions: first what is counted, the *)
(* statistics, the call stack and the EXACT predictor, which does not      *)
(* depend on how the tables answer; then the tables themselves, the target *)
(* buffer's and the two-level predictor's, whose registers are read bit by *)
(* bit to show that they implement BranchHistory and learn.                *)
(***************************************************************************)
EXTENDS BrPredictor, DataLemmas

(* The types of what is counted.                                           *)
CountersTypeOK ==
  /\ total \in [Statistics -> Nat]
  /\ call_stack \in Nat
  /\ total_exact_references \in Nat
  /\ references \in Nat /\ failures \in Nat

(* Counting some statistics adds one to each of them and to no other.      *)
LEMMA Counting ==
  ASSUME total \in [Statistics -> Nat], NEW stats, Count(stats)
  PROVE  /\ total' \in [Statistics -> Nat]
         /\ \A stat \in Statistics :
              total'[stat] = IF stat \in stats THEN total[stat] + 1 ELSE total[stat]
BY DEF Count

LEMMA CountersInit == ASSUME PredictorInit PROVE CountersTypeOK
BY BrPredictorAssumption DEF PredictorInit, CountersTypeOK, BrPredictorAssumption

LEMMA CountersStep ==
  ASSUME CountersTypeOK, [PredictorNext]_predictorVars
  PROVE  CountersTypeOK'
<1> USE DEF CountersTypeOK
<1>1. CASE UNCHANGED predictorVars
  BY <1>1 DEF predictorVars, tableVars, historyVars
<1>2. ASSUME NEW ins \in Instructions, predict(ins) PROVE CountersTypeOK'
  <2>1. CASE PredictJump(ins)
    BY <2>1, Counting DEF PredictJump, Return
  <2>2. CASE PredictCall(ins)
    BY <2>2, Counting, BrPredictorAssumption DEF PredictCall, Return, push_call
  <2>3. CASE PredictRetUnmatched(ins)
    BY <2>3, Counting DEF PredictRetUnmatched, Return, tableVars
  <2>4. CASE PredictRetMatched(ins)
    BY <2>4, Counting DEF PredictRetMatched, Return
  <2>5. CASE PredictNotTaken(ins)
    BY <2>5, Counting DEF PredictNotTaken, Return
  <2>6. CASE PredictTaken(ins)
    BY <2>6, Counting DEF PredictTaken, Return
  <2>7. CASE PredictExact(ins)
    BY <2>7 DEF PredictExact, Return, tableVars
  <2>8. CASE PredictPerfect(ins)
    BY <2>8 DEF PredictPerfect, Return, tableVars
  <2>9. CASE PredictDisabled(ins)
    BY <2>9 DEF PredictDisabled, Return, tableVars
  <2> QED BY <1>2, <2>1, <2>2, <2>3, <2>4, <2>5, <2>6, <2>7, <2>8, <2>9 DEF predict
<1> QED BY <1>1, <1>2 DEF PredictorNext

(* The counters keep their types.                                          *)
THEOREM CountersTypeCorrect == PredictorSpec => []CountersTypeOK
<1>1. PredictorInit => CountersTypeOK BY CountersInit
<1>2. CountersTypeOK /\ [PredictorNext]_predictorVars => CountersTypeOK' BY CountersStep
<1> QED BY <1>1, <1>2, PTL DEF PredictorSpec

-----------------------------------------------------------------------------
(* Statistics.                                                             *)

Counted == CountersTypeOK /\ MispredictionsAddUp

LEMMA CountedStep ==
  ASSUME Counted, [PredictorNext]_predictorVars
  PROVE  MispredictionsAddUp'
<1> USE DEF Counted, CountersTypeOK, MispredictionsAddUp, Mispredictions
<1>1. CASE UNCHANGED predictorVars
  BY <1>1 DEF predictorVars, tableVars, historyVars
<1>2. ASSUME NEW ins \in Instructions, predict(ins) PROVE MispredictionsAddUp'
  <2>1. CASE PredictJump(ins)
    BY <2>1, Counting DEF PredictJump, Return, TargetStat, TargetResult, Statistics
  <2>2. CASE PredictCall(ins)
    BY <2>2, Counting DEF PredictCall, Return, TargetStat, TargetResult, Statistics
  <2>3. CASE PredictRetUnmatched(ins)
    BY <2>3, Counting DEF PredictRetUnmatched, Return, Statistics
  <2>4. CASE PredictRetMatched(ins)
    BY <2>4, Counting DEF PredictRetMatched, Return, Statistics
  <2>5. CASE PredictNotTaken(ins)
    BY <2>5, Counting DEF PredictNotTaken, Return, DirStat, Statistics
  <2>6. CASE PredictTaken(ins)
    BY <2>6, Counting DEF PredictTaken, Return, DirStat, TargetStat, TargetResult, Statistics
  <2>7. CASE PredictExact(ins)
    BY <2>7 DEF PredictExact, Return
  <2>8. CASE PredictPerfect(ins)
    BY <2>8 DEF PredictPerfect, Return
  <2>9. CASE PredictDisabled(ins)
    BY <2>9 DEF PredictDisabled, Return
  <2> QED BY <1>2, <2>1, <2>2, <2>3, <2>4, <2>5, <2>6, <2>7, <2>8, <2>9 DEF predict
<1> QED BY <1>1, <1>2 DEF PredictorNext

(* The predictor's statistics add up, whatever code is predicted and       *)
(* whatever the direction tables and the target buffer answer: a branch    *)
(* mispredicted in direction and target is counted once, and no FAIL of    *)
(* predict() goes uncounted.                                               *)
THEOREM StatisticsAddUp == PredictorSpec => []MispredictionsAddUp
<1>1. PredictorInit => Counted
  <2> SUFFICES ASSUME PredictorInit PROVE Counted OBVIOUS
  <2> QED BY CountersInit DEF PredictorInit, Counted, MispredictionsAddUp, Mispredictions, Statistics
<1>2. Counted /\ [PredictorNext]_predictorVars => Counted'
  BY CountersStep, CountedStep DEF Counted
<1>3. Counted => MispredictionsAddUp BY DEF Counted
<1> QED BY <1>1, <1>2, <1>3, PTL DEF PredictorSpec

-----------------------------------------------------------------------------
(* The call stack.                                                         *)

(* What ReturnsBacked says of one depth to start from.                     *)
BackedFrom(depth) ==
  /\ total.returns - total.return_mispredictions + call_stack <= total.calls + depth
  /\ call_stack <= CallStackSize \/ call_stack <= depth

StackInv == CountersTypeOK /\ ReturnsBacked

LEMMA StackStep ==
  ASSUME CountersTypeOK, [PredictorNext]_predictorVars,
         NEW depth \in Nat, BackedFrom(depth)
  PROVE  BackedFrom(depth)'
<1> USE DEF CountersTypeOK, BackedFrom
<1>1. CASE UNCHANGED predictorVars
  BY <1>1 DEF predictorVars, tableVars, historyVars
<1>2. ASSUME NEW ins \in Instructions, predict(ins) PROVE BackedFrom(depth)'
  <2>1. CASE PredictJump(ins)
    BY <2>1, Counting DEF PredictJump, TargetStat, Statistics
  <2>2. CASE PredictCall(ins)
    BY <2>2, Counting, BrPredictorAssumption DEF PredictCall, push_call, TargetStat, Statistics
  <2>3. CASE PredictRetUnmatched(ins)
    BY <2>3, Counting DEF PredictRetUnmatched, tableVars, Statistics
  <2>4. CASE PredictRetMatched(ins)
    BY <2>4, Counting, BrPredictorAssumption DEF PredictRetMatched, Statistics
  <2>5. CASE PredictNotTaken(ins)
    BY <2>5, Counting DEF PredictNotTaken, DirStat, Statistics
  <2>6. CASE PredictTaken(ins)
    BY <2>6, Counting DEF PredictTaken, DirStat, TargetStat, Statistics
  <2>7. CASE PredictExact(ins)
    BY <2>7 DEF PredictExact, tableVars
  <2>8. CASE PredictPerfect(ins)
    BY <2>8 DEF PredictPerfect, tableVars
  <2>9. CASE PredictDisabled(ins)
    BY <2>9 DEF PredictDisabled, tableVars
  <2> QED BY <1>2, <2>1, <2>2, <2>3, <2>4, <2>5, <2>6, <2>7, <2>8, <2>9 DEF predict
<1> QED BY <1>1, <1>2 DEF PredictorNext

(* Whatever the memory of call_stack holds at the start, each return that  *)
(* is predicted uses up a call that was pushed or one of the entries that  *)
(* were never pushed, of which there are as many as that value says; it is *)
(* exact for any one value, UninitCallStack being any set of them.         *)
THEOREM CallStackSound == PredictorSpec => []ReturnsBacked
<1>1. PredictorInit => StackInv
  <2> SUFFICES ASSUME PredictorInit PROVE StackInv OBVIOUS
  <2>1. CountersTypeOK
    BY CountersInit
  <2>2. total.returns = 0 /\ total.return_mispredictions = 0 /\ total.calls = 0
    BY DEF PredictorInit, Statistics
  <2>3. call_stack \in UninitCallStack /\ call_stack \in Nat
    BY <2>1 DEF PredictorInit, CountersTypeOK
  <2> QED BY <2>1, <2>2, <2>3 DEF StackInv, ReturnsBacked
<1>2. StackInv /\ [PredictorNext]_predictorVars => StackInv'
  <2> SUFFICES ASSUME StackInv, [PredictorNext]_predictorVars PROVE StackInv' OBVIOUS
  <2>1. CountersTypeOK /\ CountersTypeOK'
    BY CountersStep DEF StackInv
  <2>2. PICK depth \in UninitCallStack : BackedFrom(depth)
    BY DEF StackInv, ReturnsBacked, BackedFrom
  <2>3. depth \in Nat
    BY BrPredictorAssumption
  <2>4. BackedFrom(depth)'
    BY <2>1, <2>2, <2>3, StackStep
  <2> QED BY <2>1, <2>4 DEF StackInv, ReturnsBacked, BackedFrom
<1>3. StackInv => ReturnsBacked BY DEF StackInv
<1> QED BY <1>1, <1>2, <1>3, PTL DEF PredictorSpec

-----------------------------------------------------------------------------
(* The EXACT predictor.                                                    *)

(* The quotient and the remainder of the count of references, in the form  *)
(* that a step preserves.                                                  *)
SpacingInv ==
  /\ CountersTypeOK
  /\ br_pred_type = "EXACT" /\ ExactReferencesPerMiss > 0 =>
       /\ references = failures * ExactReferencesPerMiss + total_exact_references
       /\ total_exact_references < ExactReferencesPerMiss

LEMMA SpacingStep ==
  ASSUME SpacingInv, [PredictorNext]_predictorVars
  PROVE  SpacingInv'
<1> USE DEF SpacingInv
<1>0. CountersTypeOK' BY CountersStep
<1>1. CASE UNCHANGED predictorVars
  BY <1>0, <1>1 DEF predictorVars, historyVars
<1>2. ASSUME NEW ins \in Instructions, predict(ins) PROVE SpacingInv'
  <2>1. CASE br_pred_type # "EXACT"
    BY <1>0, <1>2, <2>1 DEF predict, PredictJump, PredictCall, PredictRetUnmatched,
       PredictRetMatched, PredictNotTaken, PredictTaken, PredictExact,
       PredictPerfect, PredictDisabled, Return
  <2>2. CASE br_pred_type = "EXACT" /\ ExactReferencesPerMiss > 0
    <3>1. PredictExact(ins)
      BY <1>2, <2>2 DEF predict, PredictJump, PredictCall, PredictRetUnmatched,
         PredictRetMatched, PredictNotTaken, PredictTaken, PredictPerfect,
         PredictDisabled, Kind
    <3>2. CASE ExactMiss
      <4>1. total_exact_references' = 0 /\ failures' = failures + 1 /\ references' = references + 1
        BY <3>1, <3>2 DEF PredictExact, Return
      <4>2. total_exact_references + 1 = ExactReferencesPerMiss
        BY <2>2, <3>2, BrPredictorAssumption DEF ExactMiss, CountersTypeOK
      <4>3. (failures + 1) * ExactReferencesPerMiss
              = failures * ExactReferencesPerMiss + ExactReferencesPerMiss
        BY BrPredictorAssumption DEF CountersTypeOK
      <4> QED BY <1>0, <2>2, <4>1, <4>2, <4>3, BrPredictorAssumption DEF CountersTypeOK
    <3>3. CASE ~ ExactMiss
      BY <1>0, <2>2, <3>1, <3>3, BrPredictorAssumption
         DEF PredictExact, Return, ExactMiss, CountersTypeOK
    <3> QED BY <3>2, <3>3
  <2>3. CASE br_pred_type = "EXACT" /\ ~ ExactReferencesPerMiss > 0
    BY <1>0, <2>3
  <2> QED BY <2>1, <2>2, <2>3
<1> QED BY <1>1, <1>2 DEF PredictorNext

(* The EXACT predictor fails on every n-th reference and on no other, for  *)
(* every n and however long the run is.                                    *)
THEOREM ExactSpacingCorrect == PredictorSpec => []ExactSpacing
<1>1. PredictorInit => SpacingInv
  <2> SUFFICES ASSUME PredictorInit PROVE SpacingInv OBVIOUS
  <2> QED BY CountersInit, BrPredictorAssumption DEF PredictorInit, SpacingInv
<1>2. SpacingInv /\ [PredictorNext]_predictorVars => SpacingInv'
  BY SpacingStep
<1>3. SpacingInv => ExactSpacing
  <2>1. failures \in Nat => failures * ExactReferencesPerMiss = ExactReferencesPerMiss * failures
    BY BrPredictorAssumption
  <2> QED
    BY <2>1, QuotientUnique, BrPredictorAssumption DEF SpacingInv, ExactSpacing, CountersTypeOK
<1> QED BY <1>1, <1>2, <1>3, PTL DEF PredictorSpec

-----------------------------------------------------------------------------
(* The direction tables.                                                   *)

LEMMA TableSizes ==
  /\ 2^S \in Nat \ {0} /\ 2^K \in Nat \ {0} /\ 2^IntBits \in Nat \ {0}
  /\ BHT_sets \in Nat \ {0} /\ BHT_entries \in Nat \ {0}
  /\ PHT_sets \in Nat \ {0} /\ PHTs_per_set \in Nat \ {0}
  /\ PerSetHistory => BHT_sets = 2^S
  /\ PerSetPattern => PHT_sets = 2^S
<1>1. 2^S \in Nat \ {0} /\ 2^K \in Nat \ {0} /\ 2^IntBits \in Nat \ {0}
      BY TwoLevelAssumption, PowerPositive
<1>2. 2^I \in Nat \ {0} /\ 2^J \in Nat \ {0}
      BY TwoLevelAssumption, PowerPositive
<1>3. PerSetHistory => 2^(I - S) \in Nat \ {0}
  <2>1. PerSetHistory => I - S \in Nat
        BY TwoLevelAssumption DEF PerSetHistory
  <2> QED
      BY <2>1, PowerPositive
<1>4. PerSetPattern => 2^(J - S) \in Nat \ {0}
  <2>1. PerSetPattern => J - S \in Nat
        BY TwoLevelAssumption DEF PerSetPattern
  <2> QED
      BY <2>1, PowerPositive
<1> QED
    BY <1>1, <1>2, <1>3, <1>4 DEF BHT_sets, BHT_entries, PHT_sets, PHTs_per_set

(* Each address has a register, a table and a counter there.               *)
LEMMA IndicesInRange ==
  ASSUME NEW addr \in Nat
  PROVE  bhsr(addr) \in Registers /\ pht(addr) \in Tables
<1>1. set_bits(addr) \in 0 .. 2^S - 1
  <2> DEFINE p == 2^S
             q == 2^10
  <2>1. p \in Nat \ {0} /\ q \in Nat \ {0}
        BY TableSizes, PowerPositive
  <2> HIDE DEF p, q
  <2>2. (addr \div q) % p \in 0 .. p - 1
        BY <2>1
  <2> QED
      BY <2>2 DEF set_bits, p, q
<1>2. addr % BHT_entries \in 0 .. BHT_entries - 1 /\ addr % PHTs_per_set \in 0 .. PHTs_per_set - 1
      BY TableSizes
<1>3. (IF PerSetHistory THEN set_bits(addr) ELSE 0) \in 0 .. BHT_sets - 1
      BY <1>1, TableSizes
<1>4. (IF PerSetPattern THEN set_bits(addr) ELSE 0) \in 0 .. PHT_sets - 1
      BY <1>1, TableSizes
<1> QED
    BY <1>2, <1>3, <1>4 DEF bhsr, pht, Registers, Tables

LEMMA EntryInRange ==
  ASSUME NEW bp \in Bpred, NEW addr \in Nat
  PROVE  /\ entry(bp, addr) \in 0 .. 2^K - 1
         /\ bp.BHT[bhsr(addr)] \in Nat /\ bp.PHT[pht(addr)][entry(bp, addr)] \in 0 .. 3
<1>1. bp.BHT[bhsr(addr)] \in 0 .. 2^IntBits - 1
      BY IndicesInRange DEF Bpred
<1>2. bp.BHT[bhsr(addr)] \in Nat
      BY <1>1
<1>3. entry(bp, addr) \in 0 .. 2^K - 1
  <2> DEFINE p == 2^K
             x == bp.BHT[bhsr(addr)]
  <2>1. p \in Nat \ {0} /\ x \in Nat
        BY <1>2, TableSizes
  <2> HIDE DEF p, x
  <2>2. x % p \in 0 .. p - 1
        BY <2>1
  <2> QED
      BY <2>2 DEF entry, p, x
<1>4. bp.PHT[pht(addr)] \in [0 .. 2^K - 1 -> 0 .. 3]
      BY IndicesInRange DEF Bpred
<1> QED
    BY <1>2, <1>3, <1>4

LEMMA SaturateType ==
  ASSUME NEW counter \in 0 .. 3, NEW actual \in {0, 1}
  PROVE  Saturate(counter, actual) \in 0 .. 3
BY DEF Saturate

(* What update() does to the register and the table it looks at.           *)
LEMMA UpdateType ==
  ASSUME NEW bp \in Bpred, NEW addr \in Nat, NEW actual \in {0, 1}
  PROVE  update(bp, addr, actual) \in Bpred
<1> DEFINE r == bhsr(addr)
           t == pht(addr)
           e == entry(bp, addr)
           shifted == (2 * bp.BHT[r] + actual) % 2^IntBits
           counter == Saturate(bp.PHT[t][e], actual)
<1>1. r \in Registers /\ t \in Tables /\ e \in 0 .. 2^K - 1
      BY IndicesInRange, EntryInRange
<1>2. shifted \in 0 .. 2^IntBits - 1
  <2> DEFINE p == 2^IntBits
             x == bp.BHT[r]
  <2>1. p \in Nat \ {0} /\ x \in Nat
        BY TableSizes, EntryInRange
  <2> HIDE DEF p, x
  <2>2. (2 * x + actual) % p \in 0 .. p - 1
        BY <2>1
  <2> QED
      BY <2>2 DEF p, x
<1>3. counter \in 0 .. 3
      BY EntryInRange, SaturateType
<1>4. bp.BHT \in [Registers -> 0 .. 2^IntBits - 1] /\ bp.PHT \in [Tables -> [0 .. 2^K - 1 -> 0 .. 3]]
      BY DEF Bpred
<1>5. update(bp, addr, actual) =
        [BHT |-> [bp.BHT EXCEPT ![r] = shifted],
         PHT |-> [bp.PHT EXCEPT ![t] = [bp.PHT[t] EXCEPT ![e] = counter]]]
      BY <1>1, <1>4 DEF update
<1> HIDE DEF r, t, e, shifted, counter
<1>6. [bp.BHT EXCEPT ![r] = shifted] \in [Registers -> 0 .. 2^IntBits - 1]
      BY <1>2, <1>4
<1>7. [bp.PHT[t] EXCEPT ![e] = counter] \in [0 .. 2^K - 1 -> 0 .. 3]
      BY <1>1, <1>3, <1>4
<1>8. [bp.PHT EXCEPT ![t] = [bp.PHT[t] EXCEPT ![e] = counter]]
        \in [Tables -> [0 .. 2^K - 1 -> 0 .. 3]]
      BY <1>4, <1>7
<1> QED
    BY <1>5, <1>6, <1>8 DEF Bpred

LEMMA NewBpredType == NewBpred \in Bpred
<1>1. 0 \in 0 .. 2^IntBits - 1
      BY TableSizes
<1> QED
    BY <1>1, TwoLevelAssumption DEF NewBpred, Bpred

-----------------------------------------------------------------------------
(* The branch target buffer, with the history of what was taken beside it. *)

BtbEntry == [tag : SUBSET BtbTagMask, target : Nat]

BtbTypes ==
  /\ DOMAIN btb \subseteq 0 .. 2^BtbSetBits - 1
  /\ btb \in [DOMAIN btb -> BtbEntry]
  /\ last_taken \in [DOMAIN btb -> Instructions]

TablesInv ==
  /\ br_pred_type \in PredTypes
  /\ branch_predictor \in Bpred
  /\ BtbTypes
  /\ BtbHoldsLast

LEMMA InstructionType ==
  ASSUME NEW ins \in Instructions
  PROVE  /\ ins \in Control /\ ins.ia \in Nat /\ ins.ta \in Nat
         /\ actual_dir(ins) \in {0, 1}
BY BrPredictorAssumption DEF Control, actual_dir

LEMMA BtbIndex ==
  ASSUME NEW ins \in Instructions
  PROVE  /\ btb_set_idx(ins) \in 0 .. 2^BtbSetBits - 1
         /\ [tag |-> btb_tag(ins), target |-> ins.ta] \in BtbEntry
<1>1. 2^BtbSetBits \in Nat \ {0}
      BY BrPredictorAssumption, PowerPositive
<1>2. ins.ia \in Nat /\ ins.ta \in Nat
      BY InstructionType
<1>3. \A a \in Nat : \A p \in Nat \ {0} : \A q \in Nat \ {0} : (a \div q) % p \in 0 .. p - 1
      OBVIOUS
<1>4. btb_set_idx(ins) \in 0 .. 2^BtbSetBits - 1
      BY <1>1, <1>2, <1>3 DEF btb_set_idx
<1>5. btb_tag(ins) \in SUBSET BtbTagMask
      BY DEF btb_tag
<1> QED
    BY <1>2, <1>4, <1>5 DEF BtbEntry

(* A taken instruction and what stands for it in the buffer go into the    *)
(* same set, and what a hit leaves there is already right.                 *)
LEMMA TrainedTogether ==
  ASSUME BtbTypes, NEW ins \in Instructions, TrainBtb(ins), Taken(ins)
  PROVE  BtbTypes' /\ (BtbHoldsLast /\ UNCHANGED br_pred_type => BtbHoldsLast')
<1> DEFINE idx == btb_set_idx(ins)
           new == [tag |-> btb_tag(ins), target |-> ins.ta]
           range == 0 .. 2^BtbSetBits - 1
<1>1. idx \in range /\ new \in BtbEntry
      BY BtbIndex
<1>2. \/ BtbHit(ins) /\ btb' = btb
      \/ btb' = [k \in DOMAIN btb \cup {idx} |-> IF k = idx THEN new ELSE btb[k]]
      BY DEF TrainBtb, Store
<1>3. last_taken' = [k \in DOMAIN last_taken \cup {idx} |->
                       IF k = idx THEN ins ELSE last_taken[k]]
      BY DEF Taken, Store
<1>4. BtbHit(ins) => idx \in DOMAIN btb /\ btb[idx] = new
      BY DEF BtbHit
<1>5. DOMAIN last_taken = DOMAIN btb /\ DOMAIN btb \subseteq range
      BY DEF BtbTypes
<1>6. new = [tag |-> btb_tag(ins), target |-> ins.ta]
      OBVIOUS
<1> HIDE DEF idx, new, range
<1>7. /\ DOMAIN btb' = DOMAIN btb \cup {idx}
      /\ \A k \in DOMAIN btb' : btb'[k] = IF k = idx THEN new ELSE btb[k]
  <2>1. CASE BtbHit(ins) /\ btb' = btb
        BY <1>4, <2>1
  <2>2. CASE btb' = [k \in DOMAIN btb \cup {idx} |-> IF k = idx THEN new ELSE btb[k]]
        BY <2>2
  <2> QED
      BY <1>2, <2>1, <2>2
<1>8. /\ DOMAIN last_taken' = DOMAIN btb'
      /\ \A k \in DOMAIN btb' : last_taken'[k] = IF k = idx THEN ins ELSE last_taken[k]
      BY <1>3, <1>5, <1>7
<1>9. btb' = [k \in DOMAIN btb' |-> btb'[k]]
  <2>1. CASE BtbHit(ins) /\ btb' = btb
        BY <2>1 DEF BtbTypes
  <2>2. CASE btb' = [k \in DOMAIN btb \cup {idx} |-> IF k = idx THEN new ELSE btb[k]]
        BY <2>2
  <2> QED
      BY <1>2, <2>1, <2>2
<1>10. last_taken' = [k \in DOMAIN btb' |-> last_taken'[k]]
      BY <1>3, <1>8
<1>11. BtbTypes'
  <2>1. \A k \in DOMAIN btb' : btb'[k] \in BtbEntry
        BY <1>1, <1>7 DEF BtbTypes
  <2>2. \A k \in DOMAIN btb' : last_taken'[k] \in Instructions
        BY <1>7, <1>8 DEF BtbTypes
  <2>3. btb' \in [DOMAIN btb' -> BtbEntry]
        BY <1>9, <2>1
  <2>4. last_taken' \in [DOMAIN btb' -> Instructions]
        BY <1>10, <2>2
  <2>5. DOMAIN btb' \subseteq range
        BY <1>1, <1>5, <1>7
  <2> QED
      BY <2>3, <2>4, <2>5 DEF BtbTypes, range
<1>12. ASSUME BtbHoldsLast, UNCHANGED br_pred_type, br_pred_type = "TWO_LEVEL"
       PROVE  btb' = [k \in DOMAIN last_taken' |->
                        [tag |-> btb_tag(last_taken'[k]), target |-> last_taken'[k].ta]]
  <2>1. btb = [k \in DOMAIN last_taken |->
                 [tag |-> btb_tag(last_taken[k]), target |-> last_taken[k].ta]]
        BY <1>12 DEF BtbHoldsLast
  <2>2. ASSUME NEW k \in DOMAIN btb'
        PROVE  btb'[k] = [tag |-> btb_tag(last_taken'[k]), target |-> last_taken'[k].ta]
    <3>1. CASE k = idx
          BY <1>6, <1>7, <1>8, <3>1
    <3>2. CASE k # idx
      <4>1. k \in DOMAIN last_taken /\ btb'[k] = btb[k] /\ last_taken'[k] = last_taken[k]
            BY <1>5, <1>7, <1>8, <3>2
      <4> QED
          BY <2>1, <4>1
    <3> QED
        BY <3>1, <3>2
  <2> QED
      BY <1>8, <1>9, <2>2
<1> QED
    BY <1>11, <1>12 DEF BtbHoldsLast, btb_tag, AboveIndex, btb_tag_shift

LEMMA TablesStep ==
  ASSUME TablesInv, [PredictorNext]_predictorVars
  PROVE  TablesInv'
<1>1. CASE UNCHANGED predictorVars
  <2>1. UNCHANGED <<br_pred_type, branch_predictor, btb, last_taken>>
        BY <1>1 DEF predictorVars, tableVars, historyVars
  <2> QED
      BY <2>1 DEF TablesInv, BtbTypes, BtbHoldsLast
<1>2. ASSUME NEW ins \in Instructions, predict(ins)
      PROVE  TablesInv'
  <2>1. /\ UNCHANGED br_pred_type
        /\ branch_predictor' = branch_predictor \/ TrainDir(ins)
        /\ (TrainBtb(ins) /\ Taken(ins)) \/ UNCHANGED <<btb, last_taken>>
    <3>1. CASE PredictJump(ins)
          BY <3>1 DEF PredictJump, Return
    <3>2. CASE PredictCall(ins)
          BY <3>2 DEF PredictCall, Return
    <3>3. CASE PredictRetUnmatched(ins)
          BY <3>3 DEF PredictRetUnmatched, Return, tableVars
    <3>4. CASE PredictRetMatched(ins)
          BY <3>4 DEF PredictRetMatched, Return
    <3>5. CASE PredictNotTaken(ins)
          BY <3>5 DEF PredictNotTaken, Return
    <3>6. CASE PredictTaken(ins)
          BY <3>6 DEF PredictTaken, Return
    <3>7. CASE PredictExact(ins)
          BY <3>7 DEF PredictExact, Return, tableVars
    <3>8. CASE PredictPerfect(ins)
          BY <3>8 DEF PredictPerfect, Return, tableVars
    <3>9. CASE PredictDisabled(ins)
          BY <3>9 DEF PredictDisabled, Return, tableVars
    <3> QED
        BY <1>2, <3>1, <3>2, <3>3, <3>4, <3>5, <3>6, <3>7, <3>8, <3>9 DEF predict
  <2>2. branch_predictor' \in Bpred
        BY <2>1, InstructionType, UpdateType DEF TablesInv, TrainDir
  <2>3. BtbTypes' /\ BtbHoldsLast'
    <3>1. CASE TrainBtb(ins) /\ Taken(ins)
          BY <2>1, <3>1, TrainedTogether DEF TablesInv
    <3>2. CASE UNCHANGED <<btb, last_taken>>
          BY <2>1, <3>2 DEF TablesInv, BtbTypes, BtbHoldsLast
    <3> QED
        BY <2>1, <3>1, <3>2
  <2> QED
      BY <2>1, <2>2, <2>3 DEF TablesInv
<1> QED
    BY <1>1, <1>2 DEF PredictorNext

LEMMA TablesInit == PredictorInit => TablesInv
<1> SUFFICES ASSUME PredictorInit PROVE TablesInv
    OBVIOUS
<1>1. /\ br_pred_type \in PredTypes /\ branch_predictor = NewBpred
      /\ btb = <<>> /\ last_taken = <<>>
      BY DEF PredictorInit
<1>2. DOMAIN btb = {} /\ btb = [k \in {} |-> btb[k]] /\ last_taken = [k \in {} |-> last_taken[k]]
      BY <1>1
<1>3. BtbTypes
      BY <1>2 DEF BtbTypes
<1>4. BtbHoldsLast
      BY <1>1 DEF BtbHoldsLast
<1> QED
    BY <1>1, <1>3, <1>4, NewBpredType DEF TablesInv

(* A set of the target buffer holds the target of the last instruction     *)
(* that was taken there, for any code and any masks of the buffer.         *)
THEOREM TargetsNeverStale == PredictorSpec => []BtbHoldsLast
<1>1. TablesInv /\ [PredictorNext]_predictorVars => TablesInv'
      BY TablesStep
<1>2. TablesInv => BtbHoldsLast
      BY DEF TablesInv
<1> QED
    BY TablesInit, <1>1, <1>2, PTL DEF PredictorSpec

LEMMA ResultType ==
  ASSUME predict_res \in {"SUCCESS", "FAIL"}, [PredictorNext]_predictorVars
  PROVE  predict_res' \in {"SUCCESS", "FAIL"}
<1>1. ASSUME NEW ins \in Instructions, predict(ins)
      PROVE  predict_res' \in {"SUCCESS", "FAIL"}
      BY <1>1 DEF predict, PredictJump, PredictCall, PredictRetUnmatched, PredictRetMatched,
         PredictNotTaken, PredictTaken, PredictExact, PredictPerfect, PredictDisabled,
         Return, TargetResult
<1> QED
    BY <1>1 DEF PredictorNext, predictorVars

(* The predictor's variables have the types of their declarations: update  *)
(* leaves the tables as large as they were made, and their counters and    *)
(* registers within their bits.                                            *)
THEOREM PredictorTypeCorrect == PredictorSpec => []PredictorTypeOK
<1> DEFINE Res == predict_res \in {"SUCCESS", "FAIL"}
<1>1. TablesInv /\ Res /\ [PredictorNext]_predictorVars => TablesInv' /\ Res'
      BY TablesStep, ResultType
<1>2. PredictorInit => TablesInv /\ Res
      BY TablesInit DEF PredictorInit
<1>3. TablesInv /\ Res /\ CountersTypeOK => PredictorTypeOK
      BY DEF TablesInv, BtbTypes, BtbEntry, CountersTypeOK, PredictorTypeOK
<1> QED
    BY <1>1, <1>2, <1>3, CountersTypeCorrect, PTL DEF PredictorSpec

-----------------------------------------------------------------------------
(* What is seen of a history register.                                     *)

SeenPatterns == [1 .. K -> {0, 1}]

LEMMA PatternsEqual ==
  ASSUME NEW p \in SeenPatterns, NEW q \in SeenPatterns, \A n \in 1 .. K : p[n] = q[n]
  PROVE  p = q
<1>1. p = [n \in 1 .. K |-> p[n]] /\ q = [n \in 1 .. K |-> q[n]]
      BY DEF SeenPatterns
<1> QED
    BY <1>1, Zenon

LEMMA SeenBits ==
  ASSUME NEW r \in Nat
  PROVE  /\ Seen(r) \in SeenPatterns
         /\ \A n \in 1 .. K : Seen(r)[n] = Bit(r, K - n)
<1>1. \A n \in 1 .. K : Bit(r, K - n) \in {0, 1}
  <2>1. ASSUME NEW n \in 1 .. K
        PROVE  Bit(r, K - n) \in {0, 1}
    <3> DEFINE p == 2^(K - n)
    <3>1. K - n \in Nat
          BY TwoLevelAssumption
    <3>2. p \in Nat \ {0}
          BY <3>1, PowerPositive
    <3> HIDE DEF p
    <3>3. r \div p \in Nat
          BY <3>2
    <3>4. (r \div p) % 2 \in {0, 1}
          BY <3>3
    <3> QED
        BY <3>4 DEF Bit, p
  <2> QED
      BY <2>1
<1>2. Seen(r) = [n \in 1 .. K |-> Bit(r, K - n)]
      BY DEF Seen, Bit
<1> QED
    BY <1>1, <1>2 DEF SeenPatterns

(* The lowest K bits are all that is seen.                                 *)
LEMMA SeenOfEntry ==
  ASSUME NEW r \in Nat
  PROVE  r % 2^K \in 0 .. 2^K - 1 /\ Seen(r % 2^K) = Seen(r)
<1>1. r % 2^K \in 0 .. 2^K - 1
  <2> DEFINE p == 2^K
  <2>1. p \in Nat \ {0}
        BY TableSizes
  <2> HIDE DEF p
  <2>2. r % p \in 0 .. p - 1
        BY <2>1
  <2> QED
      BY <2>2 DEF p
<1> DEFINE e == r % 2^K
<1>2. e \in Nat
      BY <1>1
<1>3. ASSUME NEW n \in 1 .. K
      PROVE  Bit(e, K - n) = Bit(r, K - n)
  <2>1. K \in Nat /\ K - n \in 0 .. K - 1
        BY TwoLevelAssumption
  <2> QED
      BY <2>1, BitsOfRemainder
<1> HIDE DEF e
<1>4. Seen(e) = Seen(r)
  <2>1. \A n \in 1 .. K : Seen(e)[n] = Seen(r)[n]
        BY <1>2, <1>3, SeenBits
  <2> QED
      BY <1>2, <2>1, SeenBits, PatternsEqual
<1> QED
    BY <1>1, <1>4 DEF e

(* Different patterns are seen of different entries, and every pattern of  *)
(* one.                                                                    *)
LEMMA SeenOnce ==
  ASSUME NEW e \in 0 .. 2^K - 1, NEW f \in 0 .. 2^K - 1, Seen(e) = Seen(f)
  PROVE  e = f
<1>1. e \in Nat /\ f \in Nat /\ K \in Nat
      BY TwoLevelAssumption
<1>2. ASSUME NEW m \in 0 .. K - 1
      PROVE  Bit(e, m) = Bit(f, m)
  <2>1. K - m \in 1 .. K /\ K - (K - m) = m
        BY <1>1
  <2>2. Seen(e)[K - m] = Bit(e, m) /\ Seen(f)[K - m] = Bit(f, m)
        BY <1>1, <2>1, SeenBits
  <2> QED
      BY <2>2
<1> QED
    BY <1>1, <1>2, BitsDetermine

Index(p) == CHOOSE e \in 0 .. 2^K - 1 : Seen(e) = p

LEMMA IndexSeen ==
  ASSUME NEW p \in SeenPatterns
  PROVE  Index(p) \in 0 .. 2^K - 1 /\ Seen(Index(p)) = p
<1> DEFINE f == [m \in 0 .. K - 1 |-> p[K - m]]
<1>1. K \in Nat
      BY TwoLevelAssumption
<1>2. f \in [0 .. K - 1 -> {0, 1}]
  <2>1. \A m \in 0 .. K - 1 : K - m \in 1 .. K
        BY <1>1
  <2> QED
      BY <2>1 DEF SeenPatterns
<1>3. PICK e \in 0 .. 2^K - 1 : \A m \in 0 .. K - 1 : Bit(e, m) = f[m]
      BY <1>1, <1>2, BitsExist
<1>4. Seen(e) = p
  <2>1. e \in Nat
        BY <1>3
  <2>2. ASSUME NEW n \in 1 .. K
        PROVE  Seen(e)[n] = p[n]
    <3>1. K - n \in 0 .. K - 1 /\ K - (K - n) = n
          BY <1>1
    <3>2. f[K - n] = p[n]
          BY <3>1
    <3> QED
        BY <1>3, <2>1, <3>1, <3>2, SeenBits
  <2> QED
      BY <2>1, <2>2, SeenBits, PatternsEqual
<1> QED
    BY <1>3, <1>4 DEF Index

(* What is seen after a shift.                                             *)
LEMMA SeenShift ==
  ASSUME NEW r \in Nat, NEW a \in {0, 1}
  PROVE  Seen((2 * r + a) % 2^IntBits) = Tail(Append(Seen(r), a))
<1> DEFINE x == 2 * r + a
           y == x % 2^IntBits
           s == Append(Seen(r), a)
<1>1. K \in Nat /\ IntBits \in Nat /\ K < IntBits
      BY TwoLevelAssumption
<1>2. x \in Nat
      OBVIOUS
<1>3. y \in Nat
  <2> DEFINE p == 2^IntBits
  <2>1. p \in Nat \ {0}
        BY TableSizes
  <2> HIDE DEF p, x
  <2>2. x % p \in Nat
        BY <1>2, <2>1
  <2> QED
      BY <2>2 DEF p
<1>4. Seen(r) \in Seq({0, 1}) /\ Len(Seen(r)) = K
      BY <1>1, SeenBits DEF SeenPatterns
<1>5. /\ s \in Seq({0, 1}) /\ Len(s) = K + 1 /\ s[K + 1] = a
      /\ \A n \in 1 .. K : s[n] = Seen(r)[n]
      BY <1>1, <1>4
<1> HIDE DEF s
<1>6. /\ Tail(s) \in Seq({0, 1}) /\ Len(Tail(s)) = K
      /\ \A n \in 1 .. K : Tail(s)[n] = s[n + 1]
      BY <1>1, <1>5
<1>7. ASSUME NEW n \in 1 .. K
      PROVE  Seen(y)[n] = Tail(s)[n]
  <2>1. K - n \in 0 .. IntBits - 1 /\ K - n \in Nat
        BY <1>1
  <2>2. Bit(y, K - n) = Bit(x, K - n)
        BY <1>1, <1>2, <2>1, BitsOfRemainder
  <2>3. CASE n = K
    <3>1. K - n = 0
          BY <1>1, <2>3
    <3>2. Bit(x, 0) = a
          BY BitsOfShift
    <3> HIDE DEF x, y
    <3> QED
        BY <1>3, <1>5, <1>6, <2>2, <2>3, <3>1, <3>2, SeenBits
  <2>4. CASE n # K
    <3>1. K - (n + 1) \in Nat /\ n + 1 \in 1 .. K /\ K - n = (K - (n + 1)) + 1
          BY <1>1, <2>4
    <3>2. Bit(x, (K - (n + 1)) + 1) = Bit(r, K - (n + 1))
          BY <3>1, BitsOfShift
    <3>3. Seen(r)[n + 1] = Bit(r, K - (n + 1))
          BY <3>1, SeenBits
    <3> HIDE DEF x, y
    <3>4. Seen(y)[n] = Bit(y, K - n)
          BY <1>3, SeenBits
    <3>5. Tail(s)[n] = Seen(r)[n + 1]
          BY <1>5, <1>6, <3>1
    <3> QED
        BY <2>2, <3>1, <3>2, <3>3, <3>4, <3>5
  <2> QED
      BY <2>3, <2>4
<1> HIDE DEF x, y
<1>8. Seen(y) \in SeenPatterns
      BY <1>3, SeenBits
<1>9. Tail(s) \in SeenPatterns
      BY <1>6, LenProperties DEF SeenPatterns
<1>10. Seen(y) = Tail(s)
      BY <1>7, <1>8, <1>9, PatternsEqual
<1> QED
    BY <1>10 DEF x, y, s

-----------------------------------------------------------------------------
(* The tables implement BranchHistory.                                     *)

(* The registers and tables of BranchHistory, as ImplementsHistory maps    *)
(* them.                                                                   *)
HistoryOf(bp) == [r \in Registers |-> Seen(bp.BHT[r])]
CounterOf(bp) == [t \in Tables |-> [p \in SeenPatterns |-> bp.PHT[t][Index(p)]]]

LEMMA HistoryUpdated ==
  ASSUME NEW bp \in Bpred, NEW addr \in Nat, NEW actual \in {0, 1}
  PROVE  HistoryOf(update(bp, addr, actual))
           = [HistoryOf(bp) EXCEPT ![bhsr(addr)] = Tail(Append(@, actual))]
<1> DEFINE i == bhsr(addr)
           new == update(bp, addr, actual)
           shifted == (2 * bp.BHT[i] + actual) % 2^IntBits
<1>1. i \in Registers /\ bp.BHT[i] \in Nat
      BY IndicesInRange, EntryInRange
<1>2. bp.BHT \in [Registers -> 0 .. 2^IntBits - 1]
      BY DEF Bpred
<1>3. new.BHT = [bp.BHT EXCEPT ![i] = shifted]
      BY <1>1, <1>2 DEF update
<1>4. Seen(shifted) = Tail(Append(Seen(bp.BHT[i]), actual))
      BY <1>1, SeenShift
<1> HIDE DEF new, shifted, i
<1>5. \A r \in Registers : new.BHT[r] = IF r = i THEN shifted ELSE bp.BHT[r]
      BY <1>2, <1>3
<1>6. HistoryOf(new) = [r \in Registers |-> IF r = i THEN Seen(shifted) ELSE Seen(bp.BHT[r])]
      BY <1>5, Zenon DEF HistoryOf
<1>7. HistoryOf(bp)[i] = Seen(bp.BHT[i])
      BY <1>1 DEF HistoryOf
<1>8. HistoryOf(new) = [HistoryOf(bp) EXCEPT ![i] = Tail(Append(HistoryOf(bp)[i], actual))]
      BY <1>1, <1>4, <1>6, <1>7 DEF HistoryOf
<1> QED
    BY <1>8 DEF new, i

LEMMA CounterUpdated ==
  ASSUME NEW bp \in Bpred, NEW addr \in Nat, NEW actual \in {0, 1}
  PROVE  LET seen == HistoryOf(bp)[bhsr(addr)]
             count == CounterOf(bp)[pht(addr)][seen]
         IN  /\ count = bp.PHT[pht(addr)][entry(bp, addr)]
             /\ CounterOf(update(bp, addr, actual))
                  = [CounterOf(bp) EXCEPT ![pht(addr)][seen] = Saturate(count, actual)]
<1> DEFINE i == bhsr(addr)
           j == pht(addr)
           e == entry(bp, addr)
           seen == HistoryOf(bp)[i]
           new == update(bp, addr, actual)
           c == Saturate(bp.PHT[j][e], actual)
           range == 0 .. 2^K - 1
<1>1. /\ i \in Registers /\ j \in Tables /\ e \in range
      /\ bp.BHT[i] \in Nat
      BY IndicesInRange, EntryInRange
<1>2. bp.PHT \in [Tables -> [range -> 0 .. 3]]
      BY DEF Bpred
<1>3. seen = Seen(bp.BHT[i])
      BY <1>1 DEF HistoryOf
<1>4. Seen(e) = seen
      BY <1>1, <1>3, SeenOfEntry DEF entry
<1>5. seen \in SeenPatterns
      BY <1>1, <1>3, SeenBits
<1>6. \A p \in SeenPatterns : Index(p) \in range /\ Seen(Index(p)) = p
      BY IndexSeen
<1>7. new.PHT = [bp.PHT EXCEPT ![j] = [bp.PHT[j] EXCEPT ![e] = c]]
      BY <1>1, <1>2 DEF update
<1> HIDE DEF i, j, e, seen, new, c, range
<1>8. Index(seen) = e
      BY <1>1, <1>4, <1>5, <1>6, SeenOnce DEF range
<1>9. \A p \in SeenPatterns : Index(p) = e <=> p = seen
      BY <1>4, <1>6, <1>8
<1>10. CounterOf(bp)[j][seen] = bp.PHT[j][e]
      BY <1>1, <1>5, <1>8 DEF CounterOf
<1>11. \A t \in Tables : \A p \in SeenPatterns :
         new.PHT[t][Index(p)] = IF t = j /\ p = seen THEN c ELSE bp.PHT[t][Index(p)]
  <2>1. ASSUME NEW t \in Tables, NEW p \in SeenPatterns
        PROVE  new.PHT[t][Index(p)] = IF t = j /\ p = seen THEN c ELSE bp.PHT[t][Index(p)]
    <3>1. bp.PHT[j] \in [range -> 0 .. 3] /\ Index(p) \in range
          BY <1>1, <1>2, <1>6
    <3>2. CASE t = j
      <4>1. new.PHT[t] = [bp.PHT[j] EXCEPT ![e] = c]
            BY <1>1, <1>2, <1>7, <3>2
      <4> QED
          BY <1>9, <3>1, <3>2, <4>1
    <3>3. CASE t # j
          BY <1>2, <1>7, <3>3
    <3> QED
        BY <3>2, <3>3
  <2> QED
      BY <2>1
<1>12. CounterOf(new) = [CounterOf(bp) EXCEPT ![j] = [CounterOf(bp)[j] EXCEPT ![seen] = c]]
  <2> DEFINE old == CounterOf(bp)
             upd == [old EXCEPT ![j] = [old[j] EXCEPT ![seen] = c]]
  <2>1. /\ old = [t \in Tables |-> [p \in SeenPatterns |-> bp.PHT[t][Index(p)]]]
        /\ CounterOf(new) = [t \in Tables |-> [p \in SeenPatterns |-> new.PHT[t][Index(p)]]]
        BY DEF CounterOf
  <2>2. ASSUME NEW t \in Tables
        PROVE  CounterOf(new)[t] = upd[t]
    <3>1. /\ CounterOf(new)[t] = [p \in SeenPatterns |-> new.PHT[t][Index(p)]]
          /\ old[t] = [p \in SeenPatterns |-> bp.PHT[t][Index(p)]]
          BY <2>1
    <3> HIDE DEF old
    <3>2. CASE t = j
      <4>1. upd[t] = [old[j] EXCEPT ![seen] = c]
            BY <1>1, <2>1, <3>2
      <4>2. CounterOf(new)[t] = [p \in SeenPatterns |-> IF p = seen THEN c ELSE bp.PHT[t][Index(p)]]
            BY <1>11, <3>1, <3>2
      <4> HIDE DEF upd
      <4> QED
          BY <1>5, <3>1, <3>2, <4>1, <4>2
    <3>3. CASE t # j
      <4>1. upd[t] = old[t]
            BY <1>1, <2>1, <3>3
      <4>2. CounterOf(new)[t] = [p \in SeenPatterns |-> bp.PHT[t][Index(p)]]
            BY <1>11, <3>1, <3>3
      <4> QED
          BY <3>1, <4>1, <4>2
    <3> QED
        BY <3>2, <3>3
  <2>3. DOMAIN upd = Tables /\ upd = [t \in Tables |-> upd[t]]
        BY <2>1
  <2> HIDE DEF old, upd
  <2>4. CounterOf(new) = [t \in Tables |-> CounterOf(new)[t]]
        BY <2>1
  <2>5. CounterOf(new) = upd
        BY <2>2, <2>3, <2>4, Zenon
  <2> QED
      BY <2>5 DEF upd, old
<1>13. [CounterOf(bp) EXCEPT ![j][seen] = c] = [CounterOf(bp) EXCEPT ![j] = [CounterOf(bp)[j] EXCEPT ![seen] = c]]
      BY <1>1 DEF CounterOf
<1> QED
    BY <1>10, <1>12, <1>13 DEF i, j, e, seen, new, c

LEMMA HistoryStarts == PredictorInit => History!HistoryInit
<1> SUFFICES ASSUME PredictorInit PROVE History!HistoryInit
    OBVIOUS
<1>1. branch_predictor = NewBpred
      BY DEF PredictorInit
<1>2. Seen(0) = [n \in 1 .. K |-> 0]
  <2>1. ASSUME NEW n \in 1 .. K
        PROVE  (0 \div 2^(K - n)) % 2 = 0
    <3> DEFINE p == 2^(K - n)
    <3>1. K - n \in Nat
          BY TwoLevelAssumption
    <3>2. p \in Nat \ {0}
          BY <3>1, PowerPositive
    <3> HIDE DEF p
    <3>3. 0 \div p = 0
          BY <3>2
    <3>4. (0 \div p) % 2 = 0
          BY <3>3
    <3> QED
        BY <3>4 DEF p
  <2> QED
      BY <2>1 DEF Seen
<1>3. HistoryOf(NewBpred) = [r \in Registers |-> [n \in 1 .. K |-> 0]]
  <2>1. \A r \in Registers : NewBpred.BHT[r] = 0
        BY DEF NewBpred
  <2> QED
      BY <1>2, <2>1 DEF HistoryOf
<1>4. CounterOf(NewBpred) = [t \in Tables |-> [p \in SeenPatterns |-> InitVal]]
  <2>1. \A t \in Tables : \A p \in SeenPatterns : NewBpred.PHT[t][Index(p)] = InitVal
    <3>1. \A p \in SeenPatterns : Index(p) \in 0 .. 2^K - 1
          BY IndexSeen
    <3> QED
        BY <3>1 DEF NewBpred
  <2> QED
      BY <2>1 DEF CounterOf
<1>5. HistoryOf(branch_predictor) = [r \in Registers |-> [n \in 1 .. K |-> 0]]
      BY <1>1, <1>3, Zenon
<1>6. CounterOf(branch_predictor) = [t \in Tables |-> [p \in SeenPatterns |-> InitVal]]
      BY <1>1, <1>4, Zenon
<1> QED
    BY <1>5, <1>6, Zenon DEF History!HistoryInit, History!Patterns, HistoryOf, CounterOf, SeenPatterns, Index

LEMMA SaturateMoves ==
  ASSUME NEW count \in 0 .. 3, NEW actual \in {0, 1}
  PROVE  Saturate(count, actual) \in History!Towards(count, actual)
BY DEF Saturate, History!Towards

(* Training the tables is an outcome of BranchHistory.                     *)
LEMMA TrainingIsOutcome ==
  ASSUME branch_predictor \in Bpred, NEW ins \in Instructions, TrainDir(ins)
  PROVE  History!Outcome(ins.ia, actual_dir(ins))
<1> DEFINE bp == branch_predictor
           a == actual_dir(ins)
           i == bhsr(ins.ia)
           j == pht(ins.ia)
           seen == HistoryOf(bp)[i]
           count == CounterOf(bp)[j][seen]
           c == Saturate(count, a)
<1>1. ins.ia \in Nat /\ a \in {0, 1}
      BY InstructionType
<1>2. branch_predictor' = update(bp, ins.ia, a)
      BY DEF TrainDir
<1>3. HistoryOf(branch_predictor') = [HistoryOf(bp) EXCEPT ![i] = Tail(Append(@, a))]
      BY <1>1, <1>2, HistoryUpdated
<1>4. /\ count \in 0 .. 3
      /\ CounterOf(branch_predictor') = [CounterOf(bp) EXCEPT ![j][seen] = c]
      BY <1>1, <1>2, CounterUpdated, EntryInRange
<1>5. c \in History!Towards(count, a)
      BY <1>1, <1>4, SaturateMoves
<1> QED
    BY <1>3, <1>4, <1>5, Zenon DEF History!Outcome, HistoryOf, CounterOf, SeenPatterns, Index

LEMMA HistorySteps ==
  ASSUME TablesInv, [PredictorNext]_predictorVars
  PROVE  History!HistoryNext \/ UNCHANGED branch_predictor
<1>1. CASE UNCHANGED predictorVars
      BY <1>1 DEF predictorVars, tableVars
<1>2. ASSUME NEW ins \in Instructions, predict(ins)
      PROVE  History!HistoryNext \/ UNCHANGED branch_predictor
  <2>1. TrainDir(ins) \/ UNCHANGED branch_predictor
        BY <1>2 DEF predict, PredictJump, PredictCall, PredictRetUnmatched, PredictRetMatched,
           PredictNotTaken, PredictTaken, PredictExact, PredictPerfect, PredictDisabled, tableVars
  <2>2. ASSUME TrainDir(ins)
        PROVE  History!HistoryNext
    <3>1. History!Outcome(ins.ia, actual_dir(ins)) /\ actual_dir(ins) \in {0, 1}
          BY <2>2, TrainingIsOutcome, InstructionType DEF TablesInv
    <3> QED
        BY <3>1 DEF History!HistoryNext
  <2> QED
      BY <2>1, <2>2
<1> QED
    BY <1>1, <1>2 DEF PredictorNext

(* The tables are a two-level predictor, for any sizes of them and any     *)
(* configuration of which sets they come in: what is seen of a register is *)
(* the last K outcomes of the branches that share it, though the int that  *)
(* holds it is never cleared and overflows, and update moves the counter   *)
(* that pred looked at and no other.                                       *)
THEOREM HistoryImplemented == PredictorSpec => ImplementsHistory
<1>1. TablesInv /\ [PredictorNext]_predictorVars
        => [History!HistoryNext]_<<[r \in Registers |-> Seen(branch_predictor.BHT[r])],
             [t \in Tables |->
                [p \in [1 .. K -> {0, 1}] |->
                   branch_predictor.PHT[t][CHOOSE e \in 0 .. 2^K - 1 : Seen(e) = p]]]>>
      BY HistorySteps
<1>2. TablesInv /\ [PredictorNext]_predictorVars => TablesInv'
      BY TablesStep
<1> QED
    BY TablesInit, HistoryStarts, <1>1, <1>2, PTL DEF PredictorSpec, ImplementsHistory, History!HistorySpec

-----------------------------------------------------------------------------
(* A branch that keeps going one way.                                      *)

(* The tables bp and what n more outcomes make of them, one by one.        *)
Trainings(bp, addr, actual, n) ==
  {f \in [0 .. n -> Bpred] : f[0] = bp /\ \A j \in 1 .. n : f[j] = update(f[j - 1], addr, actual)}

LEMMA TrainingsExist ==
  ASSUME NEW bp \in Bpred, NEW addr \in Nat, NEW actual \in {0, 1}, NEW n \in Nat
  PROVE  Trainings(bp, addr, actual, n) # {}
<1> DEFINE A == {k \in Nat : Trainings(bp, addr, actual, k) # {}}
<1>1. 0 \in A
  <2> DEFINE f == [j \in 0 .. 0 |-> bp]
  <2>1. f \in [0 .. 0 -> Bpred] /\ f[0] = bp /\ 1 .. 0 = {}
        OBVIOUS
  <2> HIDE DEF f
  <2>2. f \in Trainings(bp, addr, actual, 0)
        BY <2>1 DEF Trainings
  <2> QED
      BY <2>2
<1>2. ASSUME NEW k \in Nat, k \in A
      PROVE  k + 1 \in A
  <2>1. PICK f \in Trainings(bp, addr, actual, k) : TRUE
        BY <1>2
  <2> DEFINE last == update(f[k], addr, actual)
             g == [j \in 0 .. k + 1 |-> IF j <= k THEN f[j] ELSE last]
  <2>2. /\ f \in [0 .. k -> Bpred] /\ f[0] = bp
        /\ \A j \in 1 .. k : f[j] = update(f[j - 1], addr, actual)
        BY <2>1 DEF Trainings
  <2>3. f[k] \in Bpred
        BY <2>2
  <2>4. last \in Bpred
        BY <2>3, UpdateType
  <2> HIDE DEF last
  <2>5. g \in [0 .. k + 1 -> Bpred] /\ g[0] = bp
        BY <2>2, <2>4
  <2>6. ASSUME NEW j \in 1 .. k + 1
        PROVE  g[j] = update(g[j - 1], addr, actual)
    <3>1. CASE j <= k
      <4>1. j \in 1 .. k /\ g[j] = f[j] /\ g[j - 1] = f[j - 1]
            BY <3>1
      <4> QED
          BY <2>2, <4>1, Zenon
    <3>2. CASE j = k + 1
      <4>1. g[j] = last /\ g[j - 1] = f[k]
            BY <3>2
      <4> QED
          BY <4>1, Zenon DEF last
    <3> HIDE DEF g
    <3> QED
        BY <3>1, <3>2
  <2> HIDE DEF g
  <2>7. g \in Trainings(bp, addr, actual, k + 1)
        BY <2>5, <2>6 DEF Trainings
  <2> QED
      BY <2>7
<1> HIDE DEF A
<1>3. n \in A
      BY <1>1, <1>2, NatSetInduction
<1> QED
    BY <1>3 DEF A

(* What one training does to the register and the counter it looks at.     *)
LEMMA TrainedOnce ==
  ASSUME NEW bp \in Bpred, NEW addr \in Nat, NEW actual \in {0, 1}
  PROVE  LET new == update(bp, addr, actual)
         IN  /\ new.BHT[bhsr(addr)] = (2 * bp.BHT[bhsr(addr)] + actual) % 2^IntBits
             /\ new.PHT[pht(addr)][entry(bp, addr)]
                  = Saturate(bp.PHT[pht(addr)][entry(bp, addr)], actual)
<1> DEFINE i == bhsr(addr)
           j == pht(addr)
           e == entry(bp, addr)
           new == update(bp, addr, actual)
           shifted == (2 * bp.BHT[i] + actual) % 2^IntBits
           c == Saturate(bp.PHT[j][e], actual)
           range == 0 .. 2^K - 1
           big == 0 .. 2^IntBits - 1
<1>1. i \in Registers /\ j \in Tables /\ e \in range
      BY IndicesInRange, EntryInRange
<1>2. bp.PHT \in [Tables -> [range -> 0 .. 3]] /\ bp.BHT \in [Registers -> big]
      BY DEF Bpred
<1>3. /\ new.PHT = [bp.PHT EXCEPT ![j] = [bp.PHT[j] EXCEPT ![e] = c]]
      /\ new.BHT = [bp.BHT EXCEPT ![i] = shifted]
      BY <1>1, <1>2 DEF update
<1> HIDE DEF i, j, e, new, shifted, c, range, big
<1>4. new.BHT[i] = shifted /\ new.PHT[j][e] = c
      BY <1>1, <1>2, <1>3
<1> QED
    BY <1>4 DEF i, j, e, new, shifted, c

(* The bits of the register that show the outcomes of the trainings: the   *)
(* lowest, as many as there have been.                                     *)
LEMMA HistoryFills ==
  ASSUME NEW bp \in Bpred, NEW addr \in Nat, NEW actual \in {0, 1}, NEW n \in Nat,
         NEW f \in Trainings(bp, addr, actual, n), NEW k \in 0 .. n
  PROVE  \A m \in 0 .. K - 1 : m < k => Bit(f[k].BHT[bhsr(addr)], m) = actual
<1> DEFINE Register(j) == f[j].BHT[bhsr(addr)]
           Shown(j) == \A m \in 0 .. K - 1 : m < j => Bit(Register(j), m) = actual
           A == {j \in Nat : j <= n => Shown(j)}
<1>0. /\ f \in [0 .. n -> Bpred]
      /\ \A j \in 1 .. n : f[j] = update(f[j - 1], addr, actual)
      BY DEF Trainings
<1>1. 0 \in A
      BY TwoLevelAssumption
<1>2. ASSUME NEW j \in Nat, j \in A
      PROVE  j + 1 \in A
  <2> SUFFICES ASSUME j + 1 <= n PROVE Shown(j + 1)
      OBVIOUS
  <2> DEFINE r == Register(j)
             x == 2 * r + actual
  <2>1. j \in 0 .. n /\ j + 1 \in 1 .. n /\ (j + 1) - 1 = j
        OBVIOUS
  <2>2. f[j] \in Bpred /\ f[j + 1] = update(f[j], addr, actual)
        BY <1>0, <2>1
  <2>3. r \in Nat
        BY <2>2, EntryInRange
  <2>4. Register(j + 1) = x % 2^IntBits
        BY <2>2, TrainedOnce
  <2>5. \A m \in 0 .. K - 1 : m < j => Bit(r, m) = actual
        BY <1>2, <2>1
  <2> HIDE DEF Register, r
  <2>6. ASSUME NEW m \in 0 .. K - 1, m < j + 1
        PROVE  Bit(Register(j + 1), m) = actual
    <3>1. m \in 0 .. IntBits - 1 /\ IntBits \in Nat /\ m \in Nat
          BY TwoLevelAssumption
    <3>2. x \in Nat
          BY <2>3
    <3>3. CASE m = 0
      <4>1. Bit(x, 0) = actual
            BY <2>3, BitsOfShift
      <4> HIDE DEF x
      <4> QED
          BY <2>4, <3>1, <3>2, <3>3, <4>1, BitsOfRemainder
    <3>4. CASE m # 0
      <4>1. m - 1 \in 0 .. K - 1 /\ m - 1 \in Nat /\ m - 1 < j /\ (m - 1) + 1 = m
            BY <2>6, <3>4, TwoLevelAssumption
      <4>2. Bit(x, (m - 1) + 1) = Bit(r, m - 1)
            BY <2>3, <4>1, BitsOfShift
      <4>3. Bit(r, m - 1) = actual
            BY <2>5, <4>1
      <4> HIDE DEF x
      <4>4. Bit(x % 2^IntBits, m) = Bit(x, m)
            BY <3>1, <3>2, BitsOfRemainder
      <4> QED
          BY <2>4, <4>1, <4>2, <4>3, <4>4
    <3> QED
        BY <3>3, <3>4
  <2> QED
      BY <2>6
<1> HIDE DEF A
<1>3. k \in A
      BY <1>1, <1>2, NatSetInduction
<1> QED
    BY <1>3 DEF A

(* From then on the same counter is looked at.                             *)
LEMMA SameEntry ==
  ASSUME NEW bp \in Bpred, NEW cp \in Bpred, NEW addr \in Nat,
         \A m \in 0 .. K - 1 : Bit(bp.BHT[bhsr(addr)], m) = Bit(cp.BHT[bhsr(addr)], m)
  PROVE  entry(bp, addr) = entry(cp, addr)
<1> DEFINE x == bp.BHT[bhsr(addr)]
           y == cp.BHT[bhsr(addr)]
           e == x % 2^K
           d == y % 2^K
<1>1. x \in Nat /\ y \in Nat /\ K \in Nat
      BY EntryInRange, TwoLevelAssumption
<1> HIDE DEF x, y
<1>2. e \in 0 .. 2^K - 1 /\ d \in 0 .. 2^K - 1
      BY <1>1, SeenOfEntry
<1>3. ASSUME NEW m \in 0 .. K - 1
      PROVE  Bit(e, m) = Bit(d, m)
  <2>1. Bit(e, m) = Bit(x, m) /\ Bit(d, m) = Bit(y, m)
        BY <1>1, BitsOfRemainder
  <2> QED
      BY <2>1 DEF x, y
<1> HIDE DEF e, d
<1>4. e = d
      BY <1>1, <1>2, <1>3, BitsDetermine
<1> QED
    BY <1>4 DEF entry, e, d, x, y

LEMMA Learned ==
  ASSUME NEW bp \in Bpred, NEW addr \in Nat, NEW actual \in {0, 1},
         NEW f \in Trainings(bp, addr, actual, K + 2)
  PROVE  pred(f[K + 2], addr) = actual
<1> DEFINE j == pht(addr)
           e == entry(f[K], addr)
           count(k) == f[k].PHT[j][e]
<1>0. K \in Nat /\ K + 1 \in Nat /\ K + 2 \in Nat
      BY TwoLevelAssumption
<1>1. /\ f \in [0 .. K + 2 -> Bpred]
      /\ \A k \in 1 .. K + 2 : f[k] = update(f[k - 1], addr, actual)
      BY DEF Trainings
<1>2. /\ f[K] \in Bpred /\ f[K + 1] \in Bpred /\ f[K + 2] \in Bpred
      /\ f[K + 1] = update(f[K], addr, actual) /\ f[K + 2] = update(f[K + 1], addr, actual)
  <2>1. /\ K \in 0 .. K + 2 /\ K + 1 \in 1 .. K + 2 /\ K + 2 \in 1 .. K + 2
        /\ (K + 1) - 1 = K /\ (K + 2) - 1 = K + 1
        BY <1>0
  <2>2. K + 1 \in 0 .. K + 2 /\ K + 2 \in 0 .. K + 2
        BY <1>0
  <2> QED
      BY <1>1, <2>1, <2>2
<1>3. \A k \in {K, K + 1, K + 2} : \A m \in 0 .. K - 1 : Bit(f[k].BHT[bhsr(addr)], m) = actual
  <2>1. \A k \in {K, K + 1, K + 2} : k \in 0 .. K + 2 /\ \A m \in 0 .. K - 1 : m < k
        BY <1>0
  <2> QED
      BY <1>0, <2>1, HistoryFills
<1>4. entry(f[K + 1], addr) = e /\ entry(f[K + 2], addr) = e
      BY <1>2, <1>3, SameEntry
<1>5. count(K) \in 0 .. 3
      BY <1>2, EntryInRange
<1>6. count(K + 1) = Saturate(count(K), actual) /\ count(K + 2) = Saturate(count(K + 1), actual)
      BY <1>2, <1>4, TrainedOnce
<1>7. pred(f[K + 2], addr) = count(K + 2) \div 2
      BY <1>4 DEF pred
<1> HIDE DEF count
<1> QED
    BY <1>5, <1>6, <1>7 DEF Saturate

(* However a branch was predicted before, one that keeps going one way is  *)
(* predicted that way from the (K + 3)rd time on, for any length of the    *)
(* history and whatever the tables hold when it starts: nothing that is    *)
(* left in them, and no overflow of a register, keeps it from being        *)
(* learned.                                                                *)
THEOREM SteadyBranchLearned == PredictorSpec => []LearnsSteadyBranch
<1>1. ASSUME branch_predictor \in Bpred
      PROVE  LearnsSteadyBranch
  <2> SUFFICES ASSUME NEW ins \in Instructions, NEW actual \in {0, 1}
               PROVE  LET trained[n \in 0 .. K + 2] ==
                            IF n = 0 THEN branch_predictor
                                     ELSE update(trained[n - 1], ins.ia, actual)
                      IN  pred(trained[K + 2], ins.ia) = actual
      BY DEF LearnsSteadyBranch
  <2> DEFINE addr == ins.ia
             bp == branch_predictor
             Unfolds(g) == g = [n \in 0 .. K + 2 |->
                                  IF n = 0 THEN bp ELSE update(g[n - 1], addr, actual)]
             trained == CHOOSE g : Unfolds(g)
  <2>0. addr \in Nat /\ K + 2 \in Nat
        BY InstructionType, TwoLevelAssumption
  <2>1. PICK f \in Trainings(bp, addr, actual, K + 2) : TRUE
        BY <1>1, <2>0, TrainingsExist
  <2>2. /\ f \in [0 .. K + 2 -> Bpred] /\ f[0] = bp
        /\ \A j \in 1 .. K + 2 : f[j] = update(f[j - 1], addr, actual)
        BY <2>1 DEF Trainings
  <2>3. Unfolds(f)
    <3>1. ASSUME NEW n \in 0 .. K + 2
          PROVE  f[n] = IF n = 0 THEN bp ELSE update(f[n - 1], addr, actual)
      <4>1. n # 0 => n \in 1 .. K + 2
            BY <2>0
      <4> HIDE DEF bp, addr
      <4> QED
          BY <2>2, <4>1, Zenon
    <3>2. f = [n \in 0 .. K + 2 |-> f[n]]
          BY <2>2
    <3> HIDE DEF bp, addr
    <3> QED
        BY <3>1, <3>2, Zenon
  <2>4. Unfolds(trained)
    <3> HIDE DEF Unfolds
    <3> QED
        BY <2>3
  <2>5. /\ trained[0] = bp /\ DOMAIN trained = 0 .. K + 2
        /\ \A j \in 1 .. K + 2 : trained[j] = update(trained[j - 1], addr, actual)
    <3> HIDE DEF trained, bp, addr
    <3>1. 0 \in 0 .. K + 2 /\ \A j \in 1 .. K + 2 : j \in 0 .. K + 2 /\ j # 0
          BY <2>0
    <3>2. \A n \in 0 .. K + 2 :
            trained[n] = IF n = 0 THEN bp ELSE update(trained[n - 1], addr, actual)
          BY <2>4, Zenon
    <3>3. DOMAIN trained = 0 .. K + 2
          BY <2>4, Zenon
    <3> QED
        BY <3>1, <3>2, <3>3, Zenon
  <2>6. trained \in Trainings(bp, addr, actual, K + 2)
    <3> DEFINE A == {n \in Nat : n <= K + 2 => trained[n] \in Bpred}
    <3> HIDE DEF trained
    <3>1. 0 \in A
          BY <1>1, <2>5
    <3>2. ASSUME NEW n \in Nat, n \in A
          PROVE  n + 1 \in A
      <4> SUFFICES ASSUME n + 1 <= K + 2 PROVE trained[n + 1] \in Bpred
          OBVIOUS
      <4>1. n + 1 \in 1 .. K + 2 /\ (n + 1) - 1 = n /\ n <= K + 2
            BY <2>0
      <4>2. trained[n + 1] = update(trained[n], addr, actual) /\ trained[n] \in Bpred
            BY <2>5, <3>2, <4>1
      <4> QED
          BY <2>0, <4>2, UpdateType
    <3> HIDE DEF A
    <3>3. Nat \subseteq A
          BY <3>1, <3>2, NatSetInduction
    <3>4. ASSUME NEW n \in 0 .. K + 2
          PROVE  trained[n] \in Bpred
          BY <2>0, <3>3 DEF A
    <3>5. trained = [n \in 0 .. K + 2 |-> trained[n]]
          BY <2>4
    <3>6. trained \in [0 .. K + 2 -> Bpred]
          BY <3>4, <3>5
    <3> QED
        BY <2>5, <3>6 DEF Trainings
  <2>7. pred(trained[K + 2], addr) = actual
    <3> HIDE DEF trained
    <3> QED
        BY <1>1, <2>0, <2>6, Learned
  <2> QED
      BY <2>7
<1>2. TablesInv => LearnsSteadyBranch
      BY <1>1 DEF TablesInv
<1>3. TablesInv /\ [PredictorNext]_predictorVars => TablesInv'
      BY TablesStep
<1> QED
    BY TablesInit, <1>2, <1>3, PTL DEF PredictorSpec
=============================================================================
