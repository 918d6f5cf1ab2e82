----------------------------- MODULE SharedReads -----------------------------
(***************************************************************************)
(* Reads many browsers share: the state of a policy's schedule             *)
(* (src/ledger.js), the market of the pool (settlement/liquidity.js), a    *)
(* cross-asset quote (settlement/crossAsset.js), the places of a search    *)
(* (src/places.js).  Each keeps an answer for a while and lets everybody   *)
(* who asks meanwhile wait for one request; the browser's store            *)
(* (ui/src/lib/store.ts) asks one at a time and keeps what it shows when   *)
(* an answer fails.  The reads share no state: resource says which one a   *)
(* behaviour follows.                                                      *)
(***************************************************************************)
EXTENDS Integers, FiniteSets

CONSTANTS
    Readers,       \* browsers
    Resources,     \* the reads above
    Ttl,           \* how long each keeps an answer
    MaxVersion,    \* the states the source passes through, one after another
    Horizon        \* the last instant

\* The one whose failure is an answer of its own, 'unavailable'.
Policies == "policies"

ReadsAssumption ==
    Policies \in Resources /\ Ttl \in [Resources -> Nat] /\ MaxVersion \in Nat \ {0} /\ Horizon \in Nat

VARIABLES
    time, resource,
    version,       \* what the source holds now
    cache,         \* the answers kept: none or one
    flights,       \* requests outside: what each has seen (0: nothing yet) and who waits
    shown,         \* what each browser shows; 0: nothing, or that it is unavailable
    told,          \* the newest version any browser was given
    floor          \* that, when the browser asked last

readVars == <<time, resource, version, cache, flights, shown, told, floor>>

Idle(r) == \A f \in flights : r \notin f.for

Init ==
    /\ time = 0 /\ resource \in Resources /\ version = 1
    /\ cache = {} /\ flights = {}
    /\ shown = [r \in Readers |-> 0] /\ told = 0 /\ floor = [r \in Readers |-> 0]

Tick == time < Horizon /\ time' = time + 1 /\ UNCHANGED <<resource, version, cache, flights, shown, told, floor>>

Change ==
    /\ version < MaxVersion /\ version' = version + 1
    /\ UNCHANGED <<time, resource, cache, flights, shown, told, floor>>

-----------------------------------------------------------------------------
Start(r) == flights' = flights \cup {[seen |-> 0, for |-> {r}]}

\* A mutant: everybody who finds no fresh answer asks for one.
AskAlone(r) == Start(r)

\* One request outside at a time: who comes meanwhile waits for its answer.
AskOrJoin(r) ==
    IF flights = {} THEN Start(r)
    ELSE flights' = {[f EXCEPT !.for = @ \cup {r}] : f \in flights}

Fresh == {c \in cache : time - c.at < Ttl[resource]}

\* The browser shows what it is given.
Give(rs, seen) ==
    /\ shown' = [r \in Readers |-> IF r \in rs THEN seen ELSE shown[r]]
    /\ told' = IF seen > told THEN seen ELSE told

Ask(r) ==
    /\ Idle(r)
    /\ floor' = [floor EXCEPT ![r] = told]
    /\ IF Fresh # {}
       THEN \E c \in Fresh : Give({r}, c.seen) /\ UNCHANGED flights
       ELSE AskOrJoin(r) /\ UNCHANGED <<shown, told>>
    /\ UNCHANGED <<time, resource, version, cache>>

\* The source answers what it holds ...
Read(f) ==
    /\ f.seen = 0
    /\ flights' = (flights \ {f}) \cup {[f EXCEPT !.seen = version]}
    /\ UNCHANGED <<time, resource, version, cache, shown, told, floor>>

\* ... and the answer arrives, later, is kept, and goes to everybody who waits.
Land(f) ==
    /\ f.seen # 0
    /\ cache' = {[seen |-> f.seen, at |-> time]}
    /\ flights' = flights \ {f}
    /\ Give(f.for, f.seen)
    /\ UNCHANGED <<time, resource, version, floor>>

\* It fails or takes too long: nothing is kept, and an answer after that is dropped.
Fail(f) ==
    /\ flights' = flights \ {f}
    /\ IF resource = Policies THEN Give(f.for, 0) ELSE UNCHANGED <<shown, told>>
    /\ UNCHANGED <<time, resource, version, cache, floor>>

\* The server starts again: what it kept and everybody who waited is gone.
Restart ==
    /\ cache' = {} /\ flights' = {}
    /\ UNCHANGED <<time, resource, version, shown, told, floor>>

Next ==
    \/ Tick
    \/ Change
    \/ \E r \in Readers : Ask(r)
    \/ \E f \in flights : Read(f) \/ Land(f) \/ Fail(f)
    \/ Restart

-----------------------------------------------------------------------------
TypeOK ==
    /\ time \in 0..Horizon /\ resource \in Resources /\ version \in 1..MaxVersion
    /\ cache \subseteq [seen : 1..MaxVersion, at : 0..Horizon] /\ Cardinality(cache) <= 1
    /\ flights \subseteq [seen : 0..MaxVersion, for : SUBSET Readers]
    /\ {shown, floor} \subseteq [Readers -> 0..MaxVersion] /\ told \in 0..MaxVersion

\* Nobody is given a version older than one that anybody, itself included, had been given
\* when it asked: neither by an answer kept too long nor by two requests landing in the
\* wrong order.
GivenNotOlder == \A r \in Readers : shown'[r] # shown[r] /\ shown'[r] # 0 => shown'[r] >= floor'[r]
NoOlderAnswer == [][GivenNotOlder]_readVars
-----------------------------------------------------------------------------
(***************************************************************************)
(* The inductive invariant.  Requests for one read never overlap, so their *)
(* answers are kept in the order the source held them: what is kept is the *)
(* newest that anybody was given, and what is on its way no older.         *)
(***************************************************************************)
OneFlight == \A f, g \in flights : f = g

InOrder ==
    /\ told <= version /\ \A r \in Readers : floor[r] <= told
    /\ \A c \in cache : c.seen = told
    /\ \A f \in flights : f.seen = 0 \/ (told <= f.seen /\ f.seen <= version)

ReadsInv == TypeOK /\ OneFlight /\ InOrder
=============================================================================
