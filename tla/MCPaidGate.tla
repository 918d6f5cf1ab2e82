----------------------------- MODULE MCPaidGate -----------------------------
(***************************************************************************)
(* Three requests at two services: two may compete for one payment in      *)
(* different processes while the third, after a restart, offers the same   *)
(* or another one.                                                         *)
(***************************************************************************)
EXTENDS PaidGate, TLC

Symmetry == Permutations(Process) \cup Permutations(Handler) \cup Permutations(Payment)
=============================================================================
