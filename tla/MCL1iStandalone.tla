-------------------------- MODULE MCL1iStandalone ---------------------------
(***************************************************************************)
(* Bounds for model-checking the L1 instruction cache under a client that  *)
(* may send any request at any time.  The cycle counter and the number of  *)
(* unanswered fetch requests are unbounded in L1iStandalone; the prefetch  *)
(* queue is bounded by the cache itself.                                   *)
(***************************************************************************)
EXTENDS L1iStandalone

CONSTANTS
  MaxSteps,    (* the last cycle that is explored                          *)
  MaxFetches   (* unanswered fetch requests at a time                      *)

Bounded == steps <= MaxSteps /\ Len(PendingFetches) <= MaxFetches

MCNext == L1iNext /\ Bounded'

MCSpec == L1iInit /\ [][MCNext]_l1iVars
=============================================================================
