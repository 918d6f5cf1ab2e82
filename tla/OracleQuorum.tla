---------------------------- MODULE OracleQuorum ----------------------------
(***************************************************************************)
(* How a payout is released: the agent schedules the transfer when it      *)
(* sells a policy, and the ledger executes it at the signature of the      *)
(* Threshold-th oracle.  An oracle service (src/oracle/service.js) signs   *)
(* only after it has read the policy's terms from their topic, compared    *)
(* the schedule with them (src/oracle/verify-policy.js) and found a        *)
(* qualifying event in a catalogue of its own (src/oracle/attest.js,       *)
(* src/oracle/sources.js).                                                 *)
(*                                                                         *)
(* Requests for an answer come at any time, for any schedule and any       *)
(* pointer; the services work at the same time, fail and restart; the      *)
(* catalogues list and revise events independently; the mirror node shows  *)
(* a prefix of the topic.  What a request pays is in PaidGate; here the    *)
(* payment of an answer may fail.  A refused request changes nothing and   *)
(* is no step.                                                             *)
(***************************************************************************)
EXTENDS TermsMessage

CONSTANTS
    Oracle, Agent,      \* the holders of keys of the pool
    Threshold,          \* oracles that must sign (2 of 3)
    Adapter,            \* Adapter[o]: the catalogue an oracle reads
    Policy, NoPolicy,
    Pool, PoolOf,       \* the registry's pool, and the pool a policy's terms name
    Issued, Lapses,     \* the coverage of each policy, from Issued until before Lapses
    Legacy,             \* schedules of older programs
    Row,                \* Row[o]: the rows an oracle's catalogue may list
    Topic,              \* orders in which the messages may have reached consensus
    MaxTime,            \* bound of the clock
    MaxTries            \* requests to a catalogue before it counts as unavailable (3)

ASSUME ConstantsAssumption ==
    /\ IsFiniteSet(Oracle) /\ Agent \notin Oracle
    /\ Threshold \in Nat /\ MaxTime \in Nat /\ MaxTries \in Nat \ {0}
    /\ Lapses \in [Policy -> Nat]
    /\ \A s \in Legacy : s.expiry \in Nat

VARIABLES
    clock,
    topic,          \* the messages of the policies' topic
    catalogue,      \* catalogue[o]: the rows an oracle's catalogue lists
    signatures,     \* signatures[s]: who signed a schedule; nobody: not created
    executed,       \* schedules the ledger executed
    request,        \* request[o]: what a service is doing
    attested,       \* the matches found: pairs of an oracle and a policy
    refused         \* schedules for which a valid, new signature was refused

vars == <<clock, topic, catalogue, signatures, executed, request, attested, refused>>
ledger == <<signatures, executed>>
world == <<clock, topic, catalogue>>

Time == 0..MaxTime
Signer == Oracle \cup {Agent}

\* What schedulePayout writes: the terms' fingerprint, transfer and end.
Payout(p) == [memo |-> p, pays |-> p, expiry |-> Lapses[p]]
Schedule == {Payout(p) : p \in Policy} \cup Legacy

Idle == [at |-> "idle"]
Looking(s, p, until) == [at |-> "look", schedule |-> s, policy |-> p, until |-> until, tries |-> 0]
Request == {Idle} \cup
    [at: {"look", "sign"}, schedule: Schedule, policy: Policy, until: Time, tries: 0..MaxTries]

TypeOK ==
    /\ clock \in Time
    /\ catalogue \in [Oracle -> SUBSET UNION {Row[o] : o \in Oracle}]
    /\ signatures \in [Schedule -> SUBSET Signer]
    /\ executed \subseteq Schedule
    /\ request \in [Oracle -> Request]
    /\ attested \subseteq Oracle \X Policy
    /\ refused \subseteq Schedule

Init ==
    /\ clock = 0
    /\ topic \in Topic
    /\ catalogue = [o \in Oracle |-> {}]
    /\ signatures = [s \in Schedule |-> IF s \in Legacy THEN {Agent} ELSE {}]
    /\ executed = {}
    /\ request = [o \in Oracle |-> Idle]
    /\ attested = {}
    /\ refused = {}

-----------------------------------------------------------------------------
(***************************************************************************)
(* The world: time, the sale of a policy, the catalogues.                  *)
(***************************************************************************)
Tick ==
    /\ clock < MaxTime
    /\ clock' = clock + 1
    /\ UNCHANGED <<topic, catalogue, ledger, request, attested, refused>>

\* The client pays and signs as the agent, so the schedule is born with its signature.
SchedulePayout(p) ==
    /\ clock \in Issued[p]..(Lapses[p] - 1)
    /\ signatures[Payout(p)] = {}
    /\ signatures' = [signatures EXCEPT ![Payout(p)] = {Agent}]
    /\ UNCHANGED <<world, executed, request, attested, refused>>

List(o, row) ==
    /\ row.time <= clock
    /\ row \notin catalogue[o]
    /\ catalogue' = [catalogue EXCEPT ![o] = @ \cup {row}]
    /\ UNCHANGED <<clock, topic, ledger, request, attested, refused>>

\* A catalogue withdraws a row, to list the event anew or not at all.
Revise(o, row) ==
    /\ row \in catalogue[o]
    /\ catalogue' = [catalogue EXCEPT ![o] = @ \ {row}]
    /\ UNCHANGED <<clock, topic, ledger, request, attested, refused>>

-----------------------------------------------------------------------------
(***************************************************************************)
(* Verification.                                                           *)
(***************************************************************************)
\* The policy whose terms a text holds; NoPolicy when it holds none.
TermsOf(text) ==
    IF text = Unreadable THEN NoPolicy ELSE topic[text[1]].origin

\* Terms of the current form, inside their coverage.
ValidTerms(p) == p \in Policy /\ clock >= Issued[p] /\ clock < Lapses[p]

\* The window an oracle looks at has begun before it ends.
ValidWindow(p) == Issued[p] < clock

\* Mutant: the fingerprint of the terms is not compared.
MatchesTransfer(s, p) ==
    /\ ValidTerms(p)
    /\ PoolOf[p] = Pool
    /\ s \notin executed
    /\ s.expiry = Lapses[p]
    /\ Agent \in signatures[s]
    /\ s.pays = p

\* The schedule may do only the transfer in the terms.
MatchesTerms(s, p) ==
    /\ ValidTerms(p)
    /\ PoolOf[p] = Pool
    /\ s \notin executed
    /\ s.memo = p
    /\ s.expiry = Lapses[p]
    /\ Agent \in signatures[s]
    /\ s.pays = p

\* The mirror node has indexed a prefix of the topic that holds the pointer.
VerifiedPolicy(s, p, pointer) ==
    /\ signatures[s] # {}
    /\ MatchesTerms(s, p)
    /\ \E n \in pointer..Len(topic) : p = TermsOf(ReadTerms(SubSeq(topic, 1, n), pointer))

\* The window asked for ends at this look: what happens later is not covered by it.
Verify(o, s, pointer) ==
    /\ request[o] = Idle
    /\ \E p \in Policy :
        /\ ValidWindow(p)
        /\ VerifiedPolicy(s, p, pointer)
        /\ request' = [request EXCEPT ![o] = Looking(s, p, clock)]
    /\ UNCHANGED <<world, ledger, attested, refused>>

-----------------------------------------------------------------------------
(***************************************************************************)
(* The catalogue.                                                          *)
(***************************************************************************)
Unknown == -1000

\* The sign of a depth is a convention; a depth nobody gave is read as 0.
Depth(row) ==
    CASE row.elevation = Unknown -> 0
      [] row.elevation # Unknown /\ row.elevation < 0 -> -row.elevation
      [] OTHER -> row.elevation
Event(row) ==
    [time |-> row.time, magnitude |-> row.magnitude, km |-> row.km, depth |-> Depth(row)]

\* Each adapter yields the same form; GEOFON's drops a magnitude that is no number.
Usgs(rows) == {Event(r) : r \in rows}
Emsc(rows) == {Event(r) : r \in rows}
Geofon(rows) == {Event(r) : r \in {r \in rows : r.magnitude # Unknown}}
Events(o) ==
    CASE Adapter[o] = "usgs" -> Usgs(catalogue[o])
      [] Adapter[o] = "emsc" -> Emsc(catalogue[o])
      [] Adapter[o] = "geofon" -> Geofon(catalogue[o])

\* The trigger rule, the same for every catalogue.
Judge(e, p, until) ==
    /\ e.time \in Issued[p]..until
    /\ e.magnitude # Unknown
    /\ e.magnitude >= 6
    /\ e.km <= 100
    /\ e.depth <= 70

Triggered(o) == \E e \in Events(o) : Judge(e, request[o].policy, request[o].until)

\* Mutant: the retries are never counted out.
RetryUnbounded(o) ==
    /\ request[o].at = "look"
    /\ request' = [request EXCEPT ![o].tries = @ + 1]
    /\ UNCHANGED <<world, ledger, attested, refused>>

\* Mutant: a retry has retries of its own.
RetryNested(o) ==
    /\ request[o].at = "look"
    /\ request' = [request EXCEPT ![o].tries = (@ + 1) % MaxTries]
    /\ UNCHANGED <<world, ledger, attested, refused>>

\* Distinct catalogues that agree; one that is unavailable casts no vote.
QuorumReached(p) == Cardinality({o \in Oracle : <<o, p>> \in attested}) >= Threshold

\* One bounded loop, parsing included.
RetryCatalogue(o) ==
    /\ request[o].at = "look"
    /\ request[o].tries + 1 < MaxTries
    /\ request' = [request EXCEPT ![o].tries = @ + 1]
    /\ UNCHANGED <<world, ledger, attested, refused>>

\* The last try failed, the error was final or the time is up: no vote.
Unavailable(o) ==
    /\ request[o].at = "look"
    /\ request' = [request EXCEPT ![o] = Idle]
    /\ UNCHANGED <<world, ledger, attested, refused>>

Attest(o) ==
    /\ request[o].at = "look"
    /\ IF Triggered(o)
       THEN /\ attested' = attested \cup {<<o, request[o].policy>>}
            /\ \/ request' = [request EXCEPT ![o].at = "sign"]
               \/ request' = [request EXCEPT ![o] = Idle]       \* not paid after all
       ELSE request' = [request EXCEPT ![o] = Idle] /\ UNCHANGED attested
    /\ UNCHANGED <<world, ledger, refused>>

-----------------------------------------------------------------------------
(***************************************************************************)
(* The signature.  The pool's key is the agent's and Threshold of the      *)
(* oracles'; the transfer executes with the signature that completes it.   *)
(***************************************************************************)
Complete(signers) ==
    Agent \in signers /\ Cardinality(signers \cap Oracle) >= Threshold

Signable(s) == s \notin executed /\ clock < s.expiry

AddSignature(s, o) ==
    /\ signatures' = [signatures EXCEPT ![s] = @ \cup {o}]
    /\ executed' = executed \cup (IF Complete(signatures[s] \cup {o}) THEN {s} ELSE {})

\* A signature after the execution is the system working; any other refusal is reported.
\* The ledger answers a second signature of the same key with an error and no change.
SignSchedule(o) ==
    LET s == request[o].schedule IN
    /\ request[o].at = "sign"
    /\ request' = [request EXCEPT ![o] = Idle]
    /\ IF Signable(s)
       THEN AddSignature(s, o) /\ UNCHANGED refused
       ELSE /\ refused' = IF s \in executed THEN refused ELSE refused \cup {s}
            /\ UNCHANGED ledger
    /\ UNCHANGED <<world, attested>>

\* The service stops or loses the ledger before its signature is sent.
Crash(o) ==
    /\ request[o] # Idle
    /\ request' = [request EXCEPT ![o] = Idle]
    /\ UNCHANGED <<world, ledger, attested, refused>>

Serve(o) == RetryCatalogue(o) \/ Unavailable(o) \/ Attest(o) \/ SignSchedule(o)

Next ==
    \/ Tick
    \/ \E p \in Policy : SchedulePayout(p)
    \/ \E o \in Oracle : Serve(o) \/ Crash(o)
    \/ \E o \in Oracle : \E row \in Row[o] : List(o, row) \/ Revise(o, row)
    \/ \E o \in Oracle, s \in Schedule, i \in DOMAIN topic : Verify(o, s, i)

\* A service that is answering goes on: each of its waits has a timeout.
Spec == Init /\ [][Next]_vars /\ \A o \in Oracle : WF_vars(Serve(o))

-----------------------------------------------------------------------------
(***************************************************************************)
(* What the quorum promises.                                               *)
(***************************************************************************)
\* A transfer executes only when the agent committed it and Threshold different
\* oracles each found, in a catalogue of their own, an event that meets the terms
\* it was committed for: no retry, restart, race or pointer yields a vote more.
PaidOnEvidence ==
    \A s \in executed :
        /\ s.pays = s.memo
        /\ Agent \in signatures[s]
        /\ QuorumReached(s.memo)

\* A refusal that a service reports as an error never belongs to a payout that was
\* made: the oracles that sign too late read as late, whatever the order.
NoFalseAlarm == refused \cap executed = {}

\* What the two-of-three quorum promises (src/oracle/service.js:62-90): a payout executes
\* on the evidence of as many oracles, and an oracle that comes too late is not told that
\* it failed.
PayoutsAreJustified == PaidOnEvidence /\ NoFalseAlarm

\* Every request ends: the retries of a catalogue are bounded.
RequestsEnd == \A o \in Oracle : request[o] # Idle ~> request[o] = Idle

Orders(messages) ==
    LET Places == DOMAIN messages
    IN  {[i \in Places |-> messages[f[i]]] :
            f \in {g \in [Places -> Places] : \A i, j \in Places : i # j => g[i] # g[j]}}

\* The topics of which every order, up to every place the mirror may have indexed and
\* from every first chunk, is read right: the message's own chunks in order when all
\* of them lie within the pages that are read, on either side, and else unreadable.
ReadRight ==
    {messages \in Topic :
        \A t \in Orders(messages) : \A n \in DOMAIN t : \A first \in 1..n :
            LET siblings == {i \in 1..n : t[i].origin = t[first].origin}
                near == \A i \in siblings : Distance(i, first) <= PageSize * MaxPages
                whole == Cardinality(siblings) = t[first].total
                read == ReadTerms(SubSeq(t, 1, n), first)
            IN  t[first].number = 1 =>
                    IF near /\ whole
                    THEN [k \in DOMAIN read |-> t[read[k]]]
                            = [k \in 1..t[first].total |-> [t[first] EXCEPT !.number = k]]
                    ELSE read = Unreadable}

\* src/oracle/verify-policy.js:58-78 - the terms an oracle judges by are one message, whole:
\* whatever order the messages of its topic reached consensus in, they are read right,
\* and what has reached consensus stays.
ReadsTheWhole == topic \in ReadRight /\ [][topic' = topic]_topic
=============================================================================
