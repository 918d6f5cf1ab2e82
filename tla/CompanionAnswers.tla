-------------------------- MODULE CompanionAnswers --------------------------
(***************************************************************************)
(* What the two read-only chats say: Quorum's on every page                *)
(* (src/companion/quorum.js, ui/src/app/QuorumCompanion.tsx) and Aivy's    *)
(* beside a renewal plan (src/cover-agent/companion.js).  A question takes *)
(* a snapshot of the asker's own records, then a topic is chosen - by a    *)
(* button, the model or its fallback, which is to say any - and trusted    *)
(* code words the answer from the records; the ledger moves meanwhile, and *)
(* so may the visitor.  RequestBudgets has the limits of the chats.        *)
(***************************************************************************)
EXTENDS Integers, FiniteSets

CONSTANTS
    Serials,       \* policies, numbered from 1
    MaxMoves,      \* bound: what happens in the world
    MaxAsked       \* bound: questions

AnswersAssumption == Serials \subseteq Nat \ {0} /\ {MaxMoves, MaxAsked} \subseteq Nat

Elsewhere == 0
Story == -1                        \* the replay of a recorded payout
Pages == Serials \cup {Elsewhere, Story}
NoAnswer == [for |-> Elsewhere, of |-> 0, own |-> FALSE, says |-> "nothing", count |-> 0, before |-> 0]

VARIABLES
    companion,     \* which of the two a behaviour follows
    listed,        \* the policy book
    signed,        \* signatures of each schedule: the agent's, an oracle's, and 3: executed
    ended,         \* the windows that are over
    bought,        \* covers complete in the asker's account
    plan,          \* its renewal plan
    issued,        \* policies of the plan's complete attempts
    receipts,      \* payments on record
    moves, turns,
    look,          \* the page open
    questions,     \* asked and not answered
    said           \* the last answer shown

chatVars == <<companion, listed, signed, ended, bought, plan, issued, receipts, moves, turns,
              look, questions, said>>
world == <<companion, listed, signed, ended, bought, plan, issued, receipts, moves>>

Init ==
    /\ companion \in {"aivy", "quorum"}
    /\ listed = {} /\ signed = [s \in Serials |-> 0] /\ ended = {} /\ bought = {}
    /\ plan = "none" /\ issued = {} /\ receipts = 0 /\ moves = 0 /\ turns = 0
    /\ look = Elsewhere /\ questions = {} /\ said = NoAnswer

-----------------------------------------------------------------------------
(* The world *)

Issue(s) ==
    /\ s \notin listed /\ 1..(s - 1) \subseteq listed
    /\ listed' = listed \cup {s} /\ signed' = [signed EXCEPT ![s] = 1]
    /\ UNCHANGED <<ended, bought, plan, issued, receipts>>

Sign(s) ==
    /\ s \in listed \ ended /\ signed[s] < 3
    /\ signed' = [signed EXCEPT ![s] = @ + 1]
    /\ UNCHANGED <<listed, ended, bought, plan, issued, receipts>>

End(s) ==
    /\ s \in listed \ ended /\ ended' = ended \cup {s}
    /\ UNCHANGED <<listed, signed, bought, plan, issued, receipts>>

\* The asker's own purchase is complete in its account.
Bought(s) ==
    /\ companion = "quorum" /\ s \in listed \ bought /\ bought' = bought \cup {s}
    /\ UNCHANGED <<listed, signed, ended, plan, issued, receipts>>

\* The plan's status; "review" is final, and so is "over": completed or expired.
Becomes == {<<"none", "scheduled">>, <<"scheduled", "running">>, <<"scheduled", "halted">>,
            <<"halted", "scheduled">>, <<"running", "halted">>, <<"running", "review">>,
            <<"scheduled", "over">>, <<"halted", "over">>}

PlanMoves(to) ==
    /\ companion = "aivy" /\ <<plan, to>> \in Becomes /\ plan' = to
    /\ UNCHANGED <<listed, signed, ended, bought, issued, receipts>>

AttemptCompletes(s) ==
    /\ plan = "running" /\ s \in listed \ issued
    /\ issued' = issued \cup {s} /\ plan' \in {"scheduled", "over"}
    /\ UNCHANGED <<listed, signed, ended, bought, receipts>>

\* recordPayment: one line more; a line that was cut is skipped by its readers.
Record ==
    /\ companion = "quorum" /\ receipts' = 1
    /\ UNCHANGED <<listed, signed, ended, bought, plan, issued>>

World ==
    /\ moves < MaxMoves /\ moves' = moves + 1 /\ UNCHANGED <<companion, turns, look, questions, said>>
    /\ \/ \E s \in Serials : Issue(s) \/ Sign(s) \/ End(s) \/ Bought(s) \/ AttemptCompletes(s)
       \/ \E to \in {"scheduled", "running", "halted", "review", "over"} : PlanMoves(to)
       \/ Record

-----------------------------------------------------------------------------
(* The records read *)

\* readPolicies: unreadable, or the state of the schedule as the mirror has it, which may be
\* late, or as it was kept some seconds ago.
StateOf(n, over) ==
    IF n = 3 THEN "paid" ELSE IF over THEN "expired"
    ELSE IF n = 0 THEN "unsigned" ELSE IF n = 1 THEN "active" ELSE "confirming"

PolicyRead(s) ==
    {"unread"} \cup {StateOf(n, s \in over) : n \in 0..signed[s], over \in {{}, ended}}

Latest(S) == IF S = {} THEN 0 ELSE CHOOSE s \in S : \A t \in S : t <= s

\* What a question may see of the asker: the plan with its latest policy, read, or the
\* account's covers.  A browser without a session has none.
Snapshots ==
    IF companion = "quorum" THEN
        {[covers |-> S, plan |-> "none", state |-> "unread"] : S \in {{}, bought}}
    ELSE {[covers |-> {}, plan |-> "none", state |-> "unread"]}
         \cup {[covers |-> issued, plan |-> plan, state |-> x] :
                 x \in IF issued = {} THEN {"unread"} ELSE PolicyRead(Latest(issued))}

NotTaken == [covers |-> {}, plan |-> "not taken", state |-> "unread"]

Topics == {"status", "payout", "evidence", "renewal", "account", "pool", "x402", "explain"}

PolicyTopics == {"status", "payout", "evidence"}

\* answerFor: Aivy's, from the snapshot alone.
AivySays(q, topic) ==
    LET t == q.took
        claim ==
            IF topic \notin PolicyTopics \cup {"renewal"} THEN "nothing"
            ELSE IF t.plan = "none" THEN "no plan"
            ELSE IF topic = "renewal" THEN IF t.plan = "over" THEN "over" ELSE "nothing"
            ELSE IF t.covers = {} THEN IF t.plan \in {"running", "review"} THEN "unfinished" ELSE "none yet"
            ELSE IF topic = "evidence" THEN "nothing"
            ELSE IF topic = "payout" /\ t.state \notin {"unread", "paid"} THEN "not executed"
            ELSE t.state
    IN  {[for |-> q.for, of |-> Latest(t.covers), own |-> t.covers # {}, says |-> claim,
          count |-> Cardinality(t.covers), before |-> q.before]}

\* The policy Quorum's answer is about: the page's, or the asker's own latest; it does not
\* assume that the latest public one is.
Subject(q) == IF q.for \in Serials THEN q.for ELSE Latest(q.took.covers)

\* render: Quorum's, which reads the policy after the topic is chosen.
QuorumSays(q, topic) ==
    LET s == Subject(q)
        about(of, own, claims) ==
            {[for |-> q.for, of |-> of, own |-> own, says |-> claim, count |-> 0, before |-> 0] : claim \in claims}
    IN  IF topic \in PolicyTopics THEN
            IF q.for = Story THEN about(0, FALSE, {"recorded"})
            ELSE IF s = 0 THEN about(0, FALSE, {"open a policy"})
            ELSE IF s \notin listed THEN about(0, FALSE, {"no record"})
            ELSE about(s, s \in q.took.covers, IF topic = "evidence" THEN {"nothing"} ELSE PolicyRead(s))
        ELSE about(0, FALSE, IF topic = "x402" THEN {IF receipts = 0 THEN "no payment" ELSE "payment"}
                             ELSE IF topic \in {"pool", "account"} THEN {"nothing", "unread"} ELSE {"nothing"})

-----------------------------------------------------------------------------
(* The conversation *)

\* Another page, or another policy's: its conversation begins anew and what was asked on
\* the page before is aborted; the server may have answered by then.
Visit(p) ==
    /\ companion = "quorum" /\ p # look /\ look' = p
    /\ questions' = {[q EXCEPT !.current = FALSE] : q \in questions}
    /\ said' = NoAnswer /\ UNCHANGED <<world, turns>>

\* One question at a time from a page.
Ask ==
    /\ turns < MaxAsked /\ turns' = turns + 1 /\ \A q \in questions : ~q.current
    /\ questions' = questions \cup
           {[for |-> look, before |-> Cardinality(issued), took |-> NotTaken, current |-> TRUE]}
    /\ UNCHANGED <<world, look, said>>

Take(q) ==
    /\ q.took = NotTaken
    /\ \E t \in Snapshots : questions' = (questions \ {q}) \cup {[q EXCEPT !.took = t]}
    /\ UNCHANGED <<world, turns, look, said>>

\* A mutant: whatever comes is put under the last question, if there is one.
ShownWhenever(q) == \E other \in questions : other.current

\* An answer to a question of a page that was left is dropped.
Shown(q) == q.current

Answer(q) ==
    /\ q.took # NotTaken /\ questions' = questions \ {q}
    /\ \E topic \in Topics :
           \E a \in IF companion = "aivy" THEN AivySays(q, topic) ELSE QuorumSays(q, topic) :
               said' = IF Shown(q) THEN a ELSE said
    /\ UNCHANGED <<world, turns, look>>

\* A read throws, a limit is reached, or 25 s pass: the browser says that nothing changed.
Fail(q) == questions' = questions \ {q} /\ UNCHANGED <<world, turns, look, said>>

Next ==
    \/ World
    \/ \E p \in Pages : Visit(p)
    \/ Ask
    \/ \E q \in questions : Take(q) \/ Answer(q) \/ Fail(q)

-----------------------------------------------------------------------------
TypeOK ==
    /\ listed \subseteq Serials /\ bought \cup issued \cup ended \subseteq listed
    /\ signed \in [Serials -> 0..3] /\ receipts \in 0..1 /\ moves \in 0..MaxMoves /\ turns \in 0..MaxAsked
    /\ plan \in {"none", "scheduled", "running", "halted", "review", "over"}
    /\ look \in Pages /\ \A q \in questions : q.for \in Pages /\ q.took.covers \subseteq listed

\* What is shown was asked on this page and is of its policy or of the asker's own, and
\* what it says has happened has: paid, signed, ended, issued, recorded, over; what it says
\* had not been issued had not been when it was asked.
AnswersAreTrue ==
    /\ said.for = look \/ said = NoAnswer
    /\ look # Elsewhere => said.of \in {0, look}
    /\ said.own => said.of \in bought \cup issued
    /\ said.of # 0 /\ look = Elsewhere => said.own
    /\ said.says = "paid" => signed[said.of] = 3
    /\ said.says \in {"active", "confirming"} => signed[said.of] > 0
    /\ said.says = "expired" => said.of \in ended
    /\ said.says = "none yet" => said.before = 0
    /\ said.says = "over" => plan = "over"
    /\ said.says = "payment" => receipts > 0
    /\ said.count <= Cardinality(issued) /\ (said.says \in {"over", "none yet"} => said.before <= said.count)
-----------------------------------------------------------------------------
(***************************************************************************)
(* The inductive invariant.  A snapshot is older than the answer worded    *)
(* from it; that the answer is still so when it is shown rests on what the *)
(* world only adds to: signatures, covers, ends, and a plan that is over.  *)
(***************************************************************************)
\* A policy of S has the highest serial number (so there is a latest one).
HasLatest(S) == S = {} \/ \E s \in S : \A t \in S : t <= s

Covers == IF companion = "quorum" THEN bought ELSE issued

\* What the state read of policy s says has happened.
StateIsSo(state, s) ==
    /\ state = "paid" => signed[s] = 3
    /\ state \in {"active", "confirming"} => signed[s] > 0
    /\ state = "expired" => s \in ended

SnapshotIsSo(q) ==
    LET t == q.took IN
    /\ t.covers \subseteq Covers /\ HasLatest(t.covers)
    /\ t.covers # {} => StateIsSo(t.state, Latest(t.covers))
    /\ t.plan = "over" => plan = "over"
    /\ companion = "aivy" /\ t # NotTaken /\ t.plan # "none" => q.before <= Cardinality(t.covers)

Snapshot ==
    [covers : SUBSET Serials,
     plan : {"not taken", "none", "scheduled", "running", "halted", "review", "over"},
     state : {"unread", "unsigned", "active", "confirming", "expired", "paid"}]
Question == [for : Pages, before : Nat, took : Snapshot, current : BOOLEAN]

QuestionsAreSound ==
    /\ questions \subseteq Question
    /\ \A q \in questions :
        /\ q.before <= Cardinality(issued) /\ SnapshotIsSo(q)
        /\ q.current => q.for = look

AnswersInv ==
    /\ TypeOK /\ IsFiniteSet(issued) /\ HasLatest(bought) /\ HasLatest(issued)
    /\ companion = "aivy" => look = Elsewhere
    /\ {said.count, said.before} \subseteq Nat
    /\ said.says \in {"paid", "active", "confirming"} => said.of \in listed
    /\ QuestionsAreSound /\ AnswersAreTrue
=============================================================================
