--------------------------- MODULE MCDemoAccounts ---------------------------
(***************************************************************************)
(* Two accounts, since a call for one may go on while writes of the other  *)
(* are uncertain, and two requests that may ask for a deposit or a bridge. *)
(***************************************************************************)
EXTENDS DemoAccounts, TLC

Symmetry == Permutations(Account) \cup Permutations(Request)
=============================================================================
