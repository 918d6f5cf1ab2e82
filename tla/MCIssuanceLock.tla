--------------------------- MODULE MCIssuanceLock ---------------------------
(***************************************************************************)
(* Two processes; the first makes one call, the second two at once.  Two   *)
(* calls recovering the marker of a dead third process, the hard case, is  *)
(* c2 and c3 after a crash of p1.                                          *)
(***************************************************************************)
EXTENDS IssuanceLock, TLC

CONSTANTS p1, p2, c1, c2, c3

MCHome == (c1 :> p1) @@ (c2 :> p2) @@ (c3 :> p2)
=============================================================================
