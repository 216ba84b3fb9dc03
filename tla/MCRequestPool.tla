--------------------------- MODULE MCRequestPool ----------------------------
(***************************************************************************)
(* Bounds for model-checking the requests of the cache.  Dropped requests  *)
(* are lost for good, so the heap needs a bound too; with the heap at its  *)
(* bound the client may have to wait, for ever in the last cycle.          *)
(***************************************************************************)
EXTENDS RequestPool

CONSTANTS
  MaxSteps,      (* the last cycle that is explored                        *)
  MaxRequests    (* requests allocated                                     *)

Bounded == steps <= MaxSteps /\ Len(heap) <= MaxRequests

(* Exploration ends here, the program does not.                            *)
AtBound == pc = "cpu" /\ steps = MaxSteps /\ UNCHANGED requestVars

MCPoolNext == (PoolNext /\ Bounded') \/ AtBound

MCPoolSpec == PoolInit /\ [][MCPoolNext]_requestVars
=============================================================================
