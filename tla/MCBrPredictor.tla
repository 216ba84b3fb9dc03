--------------------------- MODULE MCBrPredictor ----------------------------
(***************************************************************************)
(* Instances of the branch predictor for model checking: which control     *)
(* instructions it sees, in any order, and for how many calls.             *)
(***************************************************************************)
EXTENDS BrPredictor

CONSTANT MaxPredictions   (* calls of predict() that are explored *)

Instr(type, taken, ia, ta) ==
  [control_type |-> type, taken |-> taken, ia |-> ia, ta |-> ta]

(* Of four sets with one tag bit, set 0 is shared by the jumps at 0 and 16 *)
(* (with one tag), the call at 8 and the branch at 24 (with the other).    *)
(* The jump at 0 is an indirect one.  The branches at 24 and 1048 share a  *)
(* history register, but their pattern tables are in different sets; the   *)
(* branch at 25 has a register and a table of its own.                     *)
MixedCode ==
  {Instr("JUMP", TRUE, 0, 32), Instr("JUMP", TRUE, 0, 40), Instr("JUMP", TRUE, 16, 32),
   Instr("CALL", TRUE, 8, 40), Instr("RET", TRUE, 2, 9),
   Instr("BRANCH", TRUE, 24, 40), Instr("BRANCH", FALSE, 24, 0),
   Instr("BRANCH", FALSE, 25, 0), Instr("BRANCH", FALSE, 1048, 0)}

MCPredictorSpec ==
  PredictorInit /\ [][PredictorNext /\ references' <= MaxPredictions]_predictorVars
=============================================================================
