---------------------------- MODULE MCPaidCheck ----------------------------
(***************************************************************************)
(* Two checks of two services each, of one policy or of two, by one        *)
(* account or by two.                                                      *)
(***************************************************************************)
EXTENDS PaidCheck, TLC

Symmetry == Permutations(Request) \cup Permutations(Account) \cup Permutations(Policy)
=============================================================================
