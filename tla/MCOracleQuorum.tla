--------------------------- MODULE MCOracleQuorum ---------------------------
(***************************************************************************)
(* Three oracles, one policy of the pool and one of an earlier pool, and a *)
(* schedule of an older program.  The terms of the first policy take three *)
(* chunks; in the second order of the messages they lie too far apart.     *)
(***************************************************************************)
EXTENDS OracleQuorum

MCAdapter == [o \in Oracle |-> o]
MCPolicy == {"policy", "former"}
MCPoolOf == [p \in Policy |-> IF p = "policy" THEN "pool" ELSE "former pool"]
MCIssued == [p \in Policy |-> 1]
MCLapses == [p \in Policy |-> 3]
MCLegacy == {[memo |-> "note", pays |-> "policy", expiry |-> 3]}

Quake == [time |-> 2, magnitude |-> 6, km |-> 100, elevation |-> -70]
Early == [Quake EXCEPT !.time = 0]
Unmeasured == [Quake EXCEPT !.elevation = Unknown]
MCRow == [o \in Oracle |-> CASE o = "usgs" -> {Quake}
                             [] o = "emsc" -> {Unmeasured}
                             [] o = "geofon" -> {Quake, Early}]

Chunk(p, n, of) == [origin |-> p, number |-> n, total |-> of]
MCTopic ==
    {<<Chunk("policy", 2, 3), Chunk("policy", 1, 3), Chunk("former", 1, 1), Chunk("policy", 3, 3)>>,
     <<Chunk("policy", 1, 3), Chunk("former", 1, 1), Chunk("policy", 2, 3), Chunk("policy", 3, 3)>>}
=============================================================================
