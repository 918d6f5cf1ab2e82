------------------------------- MODULE MCHost -------------------------------
(***************************************************************************)
(* Two visitors and three covers; caps of one to three, so that each of    *)
(* them is reached; two browsers and three versions; one full provisioning *)
(* with its oracles, dying once; two requests and one restart; two         *)
(* positions of the sliders and one event recorded meanwhile; two          *)
(* operations of a browser; two policies and five events between the       *)
(* questions of a chat.                                                    *)
(***************************************************************************)
EXTENDS Host

MCTtl == [x \in Resources |-> IF x = "policies" THEN 1 ELSE IF x = "places" THEN 3 ELSE 2]

MCInputs == {[budget |-> 1, days |-> 7], [budget |-> 4, days |-> 30]}
=============================================================================
