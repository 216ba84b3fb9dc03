----------------------------- MODULE TraceReader -----------------------------
(***************************************************************************)
(* The trace that a CPU reads (Trace.cpp).  It is chosen as it is read:    *)
(* after a line there may be the end, or any line at any address, since    *)
(* nothing in the code asks that an instruction follow the one before it   *)
(* in memory.                                                              *)
(***************************************************************************)
EXTENDS Naturals

CONSTANTS
  Addresses,       (* the instruction addresses of the trace               *)
  TraceLen,        (* bound on the number of lines of the trace            *)
  NULL             (* no instruction: the end of the trace                 *)

(* What the CPUs tell apart of control_type and br_dir: every taken        *)
(* control instruction (J, A, E, T) ends a block, only N may not.          *)
Kinds == {"none", "not_taken", "taken"}
Ins   == [n : Nat, ia : Addresses, kind : Kinds]

ASSUME TraceAssumption ==
  /\ Addresses \subseteq Nat /\ TraceLen \in Nat
  /\ NULL \notin Ins

(* Trace::parse_ins: line n of the trace, or the end of the file.          *)
parse_ins(n) ==
  {NULL} \cup IF n <= TraceLen THEN [n : {n}, ia : Addresses, kind : Kinds] ELSE {}
=============================================================================
