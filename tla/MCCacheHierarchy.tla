-------------------------- MODULE MCCacheHierarchy --------------------------
(***************************************************************************)
(* Bounds for model-checking the memory hierarchy under any client.        *)
(***************************************************************************)
EXTENDS CacheHierarchy, TLC

CONSTANT MaxSteps   (* the last cycle that is explored *)

(* Requests are only compared.                                             *)
RequestSymmetry == Permutations(Requests)

(* Exploration ends here, the program does not.                            *)
AtBound == pc = "client" /\ steps = MaxSteps /\ UNCHANGED hierVars

MCHierSpec == HierInit /\ [][(HierNext /\ steps' <= MaxSteps) \/ AtBound]_hierVars
=============================================================================
