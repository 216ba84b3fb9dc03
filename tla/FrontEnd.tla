------------------------------ MODULE FrontEnd ------------------------------
(***************************************************************************)
(* What a front end that runs ahead of decode promises: it is one queue    *)
(* between the trace and the decoder.  Instructions enter it one by one in *)
(* the order of the trace and leave it in that order, some of the oldest   *)
(* at a time.  After a misprediction, which only a control instruction can *)
(* be and only as the youngest in the queue, nothing enters until the      *)
(* queue has run dry.                                                      *)
(***************************************************************************)
EXTENDS Naturals, Sequences

CONSTANTS Instructions, Width, Uninit, NULL

VARIABLES
  next,       (* the instruction to be read next, NULL at the end          *)
  queue,      (* the instructions read and not yet decoded                 *)
  decoded,    (* how many have been decoded, from some value on            *)
  draining    (* mispredicted, and not yet resumed                         *)

frontEndVars == <<next, queue, decoded, draining>>

FrontEndInit ==
  /\ next \in {ins \in Instructions : ins.n = 1} \cup {NULL}
  /\ queue = <<>>
  /\ decoded \in Uninit
  /\ draining \in BOOLEAN

Read ==
  /\ ~ draining /\ next # NULL
  /\ queue' = Append(queue, next)
  /\ next' \in Instructions /\ next'.n = next.n + 1
  /\ UNCHANGED <<decoded, draining>>

EndOfTrace ==
  /\ ~ draining
  /\ next' = NULL
  /\ UNCHANGED <<queue, decoded, draining>>

Mispredict ==
  /\ queue # <<>> /\ queue[Len(queue)].kind # "none"
  /\ draining' = TRUE
  /\ UNCHANGED <<next, queue, decoded>>

Resume ==
  /\ queue = <<>>
  /\ draining' = FALSE
  /\ UNCHANGED <<next, queue, decoded>>

Decode(k) ==
  /\ queue' = SubSeq(queue, k + 1, Len(queue))
  /\ decoded' = decoded + k
  /\ UNCHANGED <<next, draining>>

FrontEndNext ==
  \/ Read \/ EndOfTrace \/ Mispredict \/ Resume
  \/ \E k \in 1 .. Width : k <= Len(queue) /\ Decode(k)

FrontEndSpec == FrontEndInit /\ [][FrontEndNext]_frontEndVars
=============================================================================
