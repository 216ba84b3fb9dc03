--------------------------- MODULE BranchHistory ----------------------------
(***************************************************************************)
(* What a two-level predictor is ("i: 2^i number of BHSRs", "j: 2^j number *)
(* of PHTs", "k number of bits in each BHSR", README.md): a register holds *)
(* exactly the last K outcomes of the branches that share it, and each     *)
(* table keeps, for each such pattern, a 2-bit counter which the outcomes  *)
(* that follow the pattern move up and down.                               *)
(***************************************************************************)
EXTENDS Integers, Sequences

CONSTANTS
  Branches,       (* the addresses of branches                             *)
  Registers, Tables,
  RegisterOf(_),  (* the register of a branch                              *)
  TableOf(_),     (* the table of a branch                                 *)
  K, InitVal

VARIABLES
  history,        (* register |-> its last K outcomes, the newest last     *)
  counter         (* table |-> pattern |-> 0 .. 3                          *)

Patterns == [1 .. K -> {0, 1}]

HistoryInit ==
  /\ history = [r \in Registers |-> [n \in 1 .. K |-> 0]]
  /\ counter = [t \in Tables |-> [p \in Patterns |-> InitVal]]

(* A counter goes one towards the outcome, and stays within its two bits.  *)
Towards(count, outcome) ==
  {c \in 0 .. 3 : c = count + 2 * outcome - 1 \/ (c = count /\ c = 3 * outcome)}

Outcome(branch, outcome) ==
  LET seen == history[RegisterOf(branch)]
  IN  /\ \E c \in Towards(counter[TableOf(branch)][seen], outcome) :
           counter' = [counter EXCEPT ![TableOf(branch)][seen] = c]
      /\ history' = [history EXCEPT ![RegisterOf(branch)] = Tail(Append(@, outcome))]

HistoryNext == \E branch \in Branches, outcome \in {0, 1} : Outcome(branch, outcome)

HistorySpec == HistoryInit /\ [][HistoryNext]_<<history, counter>>
=============================================================================
