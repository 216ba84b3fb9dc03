---------------------------- MODULE MCInOrderCpu ----------------------------
(***************************************************************************)
(* A bound for model-checking the in-order CPU: the trace is finite, but   *)
(* once an answer of memory is lost the CPU waits for ever.                *)
(***************************************************************************)
EXTENDS InOrderCpu

CONSTANT MaxSteps   (* the last cycle that is explored *)

(* Exploration ends here, the program does not.                            *)
AtBound == steps >= MaxSteps /\ UNCHANGED inOrderVars

BoundedWork == steps < MaxSteps /\ Work

MCInOrderSpec ==
  /\ InOrderInit
  /\ [][BoundedWork \/ Crashed \/ AtBound]_inOrderVars
  /\ WF_inOrderVars(BoundedWork)
=============================================================================
