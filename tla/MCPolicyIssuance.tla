-------------------------- MODULE MCPolicyIssuance --------------------------
(***************************************************************************)
(* Two requests are enough for every interaction of the model: one at      *)
(* work, and one whose row, schedule or late write competes with it.       *)
(***************************************************************************)
EXTENDS PolicyIssuance, TLC

Symmetry == Permutations(Request)
=============================================================================
