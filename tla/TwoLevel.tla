------------------------------ MODULE TwoLevel ------------------------------
(***************************************************************************)
(* The two-level direction predictor, class bpred (2level.hpp, 2level.cpp), *)
(* as operators on a value bp: BHT maps a branch history register to its   *)
(* contents, PHT maps a pattern history table to its 2-bit counters.       *)
(*                                                                         *)
(* The masks are runs of ones, so & becomes a remainder, and >> a quotient. *)
(* The counters `predictions' and `incorrect' are left out: nothing reads  *)
(* them.                                                                   *)
(***************************************************************************)
EXTENDS Naturals

CONSTANTS
  I, J, K, S,   (* two_level_config.i, .j, .k, .s                           *)
  InitVal,      (* two_level_config.init_val                                *)
  IntBits       (* the width of an int: a history register is one           *)

ASSUME TwoLevelAssumption ==
  /\ I \in Nat /\ J \in Nat /\ K \in Nat /\ S \in Nat
  /\ InitVal \in 0 .. 3
  /\ IntBits \in Nat /\ K < IntBits

(* An Sa predictor has its history registers in sets, an as predictor its  *)
(* pattern tables; the set comes from the address bits from bit 10 up.     *)
PerSetHistory == J < S /\ I >= S
PerSetPattern == J >= S

set_bits(addr) == (addr \div 2^10) % 2^S

BHT_sets     == IF PerSetHistory THEN 2^S ELSE 1
BHT_entries  == IF PerSetHistory THEN 2^(I - S) ELSE 2^I
PHT_sets     == IF PerSetPattern THEN 2^S ELSE 1
PHTs_per_set == IF PerSetPattern THEN 2^(J - S) ELSE 2^J

Registers == (0 .. BHT_sets - 1) \X (0 .. BHT_entries - 1)
Tables    == (0 .. PHT_sets - 1) \X (0 .. PHTs_per_set - 1)

bhsr(addr) == <<IF PerSetHistory THEN set_bits(addr) ELSE 0, addr % BHT_entries>>
pht(addr)  == <<IF PerSetPattern THEN set_bits(addr) ELSE 0, addr % PHTs_per_set>>

Bpred == [BHT : [Registers -> 0 .. 2^IntBits - 1],
          PHT : [Tables -> [0 .. 2^K - 1 -> 0 .. 3]]]

NewBpred == [BHT |-> [r \in Registers |-> 0],
             PHT |-> [t \in Tables |-> [e \in 0 .. 2^K - 1 |-> InitVal]]]

(* BHT[...] & kmask: of all it has shifted in, a register shows k bits.    *)
entry(bp, addr) == bp.BHT[bhsr(addr)] % 2^K

(* 1 for taken, 0 for not taken. *)
pred(bp, addr) == bp.PHT[pht(addr)][entry(bp, addr)] \div 2

(* Mutant: the counter wraps round within its two bits.                    *)
Saturate_wraps(counter, actual) == (counter + 4 + 2 * actual - 1) % 4

Saturate(counter, actual) ==
  IF actual = 0 THEN (IF counter > 0 THEN counter - 1 ELSE counter)
                ELSE (IF counter < 3 THEN counter + 1 ELSE counter)

(* Mutant: the outcome is shifted in before the counter is looked up.      *)
update_shift_first(bp, addr, actual) ==
  LET shifted == [bp EXCEPT !.BHT[bhsr(addr)] = (2 * @ + actual) % 2^IntBits]
  IN  [shifted EXCEPT !.PHT[pht(addr)][entry(shifted, addr)] = Saturate(@, actual)]

(* The counter that made the prediction moves towards the outcome, then    *)
(* the outcome is shifted into the history, out of which an int's top bit  *)
(* falls.                                                                  *)
update(bp, addr, actual) ==
  [BHT |-> [bp.BHT EXCEPT ![bhsr(addr)] = (2 * @ + actual) % 2^IntBits],
   PHT |-> [bp.PHT EXCEPT ![pht(addr)][entry(bp, addr)] = Saturate(@, actual)]]
=============================================================================
