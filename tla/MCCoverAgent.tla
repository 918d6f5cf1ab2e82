---------------------------- MODULE MCCoverAgent ----------------------------
(***************************************************************************)
(* All three cycles of a mandate.  The months are of different lengths, as *)
(* calendar months are, so that a policy bought late in a short period     *)
(* reaches into a longer one.                                              *)
(***************************************************************************)
EXTENDS CoverAgent

MCMonth == [i \in 0..3 |-> <<0, 1, 3, 5>>[i + 1]]
=============================================================================
