--------------------------- MODULE ExclusiveWork ---------------------------
(***************************************************************************)
(* What withIssuanceLock promises its callers: the work of two calls never *)
(* overlaps, whichever processes they run in and however they end.         *)
(*                                                                         *)
(* The lock of src/issuance-lock.js is shown to implement this module      *)
(* (IssuanceLock!Promise), and PolicyIssuance, which runs under the lock,  *)
(* relies on nothing else of it.                                           *)
(***************************************************************************)
CONSTANT Call               \* the calls that may ask for the lock

VARIABLE inside             \* the calls whose work is running

Init == inside = {}

\* A call's work starts only when no other work is running.
Enter(c) == inside = {} /\ inside' = {c}

\* The work returns or throws, or its process dies.
Leave(c) == inside = {c} /\ inside' = {}

Next == \E c \in Call : Enter(c) \/ Leave(c)

Spec == Init /\ [][Next]_inside
=============================================================================
