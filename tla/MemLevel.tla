------------------------------ MODULE MemLevel ------------------------------
(***************************************************************************)
(* What a level of the memory hierarchy, a Mem_Interface, promises the     *)
(* level above it: a request that it accepts is answered at most once, it  *)
(* is never forgotten, and its answer takes at least so many cycles.       *)
(* Answers may come in any order.                                          *)
(***************************************************************************)
EXTENDS Naturals

CONSTANTS Requests, Latency

VARIABLES
  now,        (* the cycle                                                 *)
  accepted,   (* what the level above waits for |-> the cycle it was sent  *)
  pending     (* what the level has yet to answer                          *)

levelVars == <<now, accepted, pending>>

LevelInit == accepted = <<>> /\ pending = {}

Accept(r) ==
  /\ r \notin pending
  /\ pending' = pending \cup {r}
  /\ accepted' = [q \in DOMAIN accepted \cup {r} |-> IF q = r THEN now ELSE accepted[q]]
  /\ UNCHANGED now

Answer(r) ==
  /\ r \in pending
  /\ accepted[r] + Latency <= now
  /\ pending' = pending \ {r}
  /\ accepted' = [q \in DOMAIN accepted \ {r} |-> accepted[q]]
  /\ UNCHANGED now

Tick == now' = now + 1 /\ UNCHANGED <<accepted, pending>>

LevelNext == Tick \/ \E r \in Requests : Accept(r) \/ Answer(r)

LevelSpec == LevelInit /\ [][LevelNext]_levelVars
=============================================================================
