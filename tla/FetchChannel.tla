---------------------------- MODULE FetchChannel ----------------------------
(***************************************************************************)
(* What the L1 instruction cache promises for fetch requests (calls        *)
(* sub_send_request and sub_get_response with "f"): a first-in first-out   *)
(* channel.  The client sends and receives on its turns only, and the      *)
(* server's work in between leaves what is pending as it was.              *)
(***************************************************************************)
EXTENDS Sequences

CONSTANT Items   (* what a request asks for *)

VARIABLES
  pending,       (* requests sent and not yet answered, oldest first *)
  turn           (* whose turn it is *)

ChannelInit == pending = <<>> /\ turn = "server"

Send(item) ==
  /\ turn = "client"
  /\ pending' = Append(pending, item)
  /\ UNCHANGED turn

(* The answer to the oldest request. *)
Receive ==
  /\ turn = "client"
  /\ pending # <<>>
  /\ pending' = Tail(pending)
  /\ UNCHANGED turn

Yield ==
  /\ turn' \in {"client", "server"}
  /\ UNCHANGED pending

ChannelNext == (\E item \in Items : Send(item)) \/ Receive \/ Yield

ChannelSpec == ChannelInit /\ [][ChannelNext]_<<pending, turn>>
=============================================================================
