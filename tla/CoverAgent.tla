----------------------------- MODULE CoverAgent -----------------------------
(***************************************************************************)
(* The monthly cover agent: coverAgentService of                           *)
(* src/cover-agent/service.js, its journal (store.js), its calendar        *)
(* (rules.js), and the purchase adapter it spends through                  *)
(* (src/demo/purchase.js), with the rows that adapter keeps in the policy  *)
(* book and in the demo account's action journal.                          *)
(*                                                                         *)
(* One mandate: the mandates of two owners are separate rows of the        *)
(* journal, and what other owners' purchases do to this one is to make it  *)
(* wait or to keep a lock busy, which may happen here at any time.         *)
(*                                                                         *)
(* A transaction of the journal (store.change) runs under its own lock and *)
(* is one step.  Every other await is a point where the handlers of other  *)
(* requests run, or where the process dies.                                *)
(***************************************************************************)
EXTENDS Naturals, Sequences, FiniteSets

CONSTANTS
    MaxCycles,      \* MAX_CYCLES
    Month,          \* Month[i]: time from the anchor to the start of period i
    NoCover,
    Horizon         \* bound: the last time the clock shows

ASSUME CalendarAssumption ==
    /\ MaxCycles \in Nat \ {0}
    /\ Month \in [0..MaxCycles -> Nat]
    /\ Month[0] = 0
    /\ \A i, j \in 0..MaxCycles : i < j => Month[i] < Month[j]
    /\ Horizon \in Nat

ASSUME NoCoverAssumption == NoCover \notin [from : Nat, to : Nat]

Cycle == 0..(MaxCycles - 1)

VARIABLES
    now,            \* the clock
    up,             \* the server runs and its cover agents are initialized
    stopping,       \* close() was called
    mandate,        \* the saved mandate
    attempt,        \* the mandate's attempt for each cycle
    until,          \* when the policy receipt of a complete attempt lapses
    queue,          \* cycles waiting for the worker
    worker,         \* the worker's purchase
    stranded,       \* history: a report was lost since the server started
    resuming,       \* some resume() has passed its check and not yet saved
    row,            \* the book's row of each cycle's request
    cover,          \* since when and until when the row's policy is in force
    action          \* the demo account's action of each cycle's request

vars == <<now, up, stopping, mandate, attempt, until, queue, worker, stranded, resuming, row, cover, action>>
journal == <<mandate, attempt, until>>
process == <<up, stopping, queue, stranded, resuming>>
adapter == <<row, cover, action>>

Status == {"none", "queued", "running", "complete", "declined", "needs_review"}

(***************************************************************************)
(* Points at which a purchase waits:                                       *)
(*   check     the attempt is running, the mandate not yet looked at       *)
(*   issue     waiting for the issuance lock                               *)
(*   quote     the request is new: pricing, beforeWrite                    *)
(*   capacity  reconcile and the capacity check                            *)
(*   admit     about to call beforeLedgerWrite                             *)
(*   reserve   the action is journaled, the reservation is not             *)
(*   ledger    reserved: the writes of PolicyIssuance                      *)
(*   finish    the policy is recorded: waiting for the lock once more      *)
(*   report    back in work() with a result                                *)
(***************************************************************************)
Point == {"idle", "check", "issue", "quote", "capacity", "admit", "reserve",
          "ledger", "finish", "report"}

\* A policy, a refusal, an answer pending_recovery, or an exception.
Result == {"none", "ok", "declined", "pending", "error"}

Resting == [at |-> "idle", cycle |-> 0, result |-> "none"]

Goto(from, to) == worker.at = from /\ worker' = [worker EXCEPT !.at = to]

Answer(result) == worker' = [worker EXCEPT !.at = "report", !.result = result]

-----------------------------------------------------------------------------
(* The calendar and the derived status *)

MonthAt(i) == mandate.anchor + Month[i]

periodAt == Cardinality({i \in 1..MaxCycles : now >= MonthAt(i)})

daysFor(c) == Month[c + 1] - Month[c]

AtWork == \E c \in Cycle : attempt[c] \in {"queued", "running"}
UnderReview == \E c \in Cycle : attempt[c] = "needs_review"
Done == {c \in Cycle : attempt[c] = "complete"}
Completed == Cardinality(Done) = MaxCycles
Expired == now >= MonthAt(MaxCycles)

\* nextDue(m) <= now().  After the last cycle nextDue is null, and null > now()
\* is false.
Due ==
    \/ MaxCycles - 1 \in Done
    \/ \A c \in Done : until[c] <= now /\ MonthAt(c + 1) <= now

\* guard() does not deny on the mandate's account; the quote may still deny.
Allowed(c) == mandate.enabled /\ periodAt = c

\* beforeLedgerWrite answers without waiting, so issuePolicy resumes and calls
\* reserve() before another handler's event is dispatched.
Yielding == worker.at # "reserve"

-----------------------------------------------------------------------------
Init ==
    /\ now = 0
    /\ up = TRUE
    /\ stopping = FALSE
    /\ mandate = [saved |-> FALSE, anchor |-> 0, enabled |-> FALSE]
    /\ attempt = [c \in Cycle |-> "none"]
    /\ until = [c \in Cycle |-> 0]
    /\ queue = <<>>
    /\ worker = Resting
    /\ stranded = FALSE
    /\ resuming = FALSE
    /\ row = [c \in Cycle |-> "none"]
    /\ cover = [c \in Cycle |-> NoCover]
    /\ action = [c \in Cycle |-> "none"]

-----------------------------------------------------------------------------
(* Variants of the steps, each with a bug the properties must find *)

\* A new month is enough, whatever is still in force.
EnqueueEarly ==
    /\ up /\ Yielding /\ ~stopping
    /\ mandate.saved /\ mandate.enabled
    /\ ~AtWork /\ ~UnderReview /\ ~Completed /\ ~Expired
    /\ periodAt < MaxCycles
    /\ attempt[periodAt] \in {"none", "declined"}
    /\ attempt' = [attempt EXCEPT ![periodAt] = "queued"]
    /\ queue' = Append(queue, periodAt)
    /\ UNCHANGED <<now, up, stopping, stranded, resuming, mandate, until, worker, adapter>>

\* The mandate is not looked at again before the writes.
AdmitUnguarded ==
    /\ worker.at = "admit"
    /\ IF action[worker.cycle] = "none"
       THEN /\ action' = [action EXCEPT ![worker.cycle] = "pending"]
            /\ Goto("admit", "reserve")
       ELSE /\ Answer("pending")
            /\ UNCHANGED action
    /\ UNCHANGED <<now, process, journal, row, cover>>

\* The reservation does not say when the policy lapses.
ReserveUndated ==
    /\ Goto("reserve", "ledger")
    /\ row' = [row EXCEPT ![worker.cycle] = "reserved"]
    /\ UNCHANGED <<now, process, journal, cover, action>>

\* The start of the server completes the attempts and not the account's actions.
InitializeUnreconciled ==
    /\ ~up
    /\ attempt' = [c \in Cycle |->
                     IF attempt[c] \notin {"queued", "running"} THEN attempt[c]
                     ELSE IF row[c] = "policy" THEN "complete" ELSE "needs_review"]
    /\ until' = [c \in Cycle |->
                   IF attempt[c] \in {"queued", "running"} /\ row[c] = "policy"
                   THEN cover[c].to ELSE until[c]]
    /\ mandate' = IF UnderReview' THEN [mandate EXCEPT !.enabled = FALSE] ELSE mandate
    /\ up' = TRUE
    /\ UNCHANGED <<now, stopping, queue, stranded, resuming, worker, adapter>>

\* The start of the server resolves what was running and forgets what was queued.
InitializeRunning ==
    /\ ~up
    /\ \A c \in Cycle : attempt[c] = "running" /\ row[c] = "policy" => action[c] = "complete"
    /\ attempt' = [c \in Cycle |->
                     IF attempt[c] # "running" THEN attempt[c]
                     ELSE IF row[c] = "policy" THEN "complete" ELSE "needs_review"]
    /\ until' = [c \in Cycle |->
                   IF attempt[c] = "running" /\ row[c] = "policy" THEN cover[c].to ELSE until[c]]
    /\ mandate' = IF UnderReview' THEN [mandate EXCEPT !.enabled = FALSE] ELSE mandate
    /\ up' = TRUE
    /\ UNCHANGED <<now, stopping, queue, stranded, resuming, worker, adapter>>

-----------------------------------------------------------------------------
(* Requests of the owner, and the scheduler's tick *)

\* activate: the mandate is saved once; its rules are never replaced.
Activate ==
    /\ up /\ Yielding /\ ~mandate.saved
    /\ mandate' = [saved |-> TRUE, anchor |-> now, enabled |-> TRUE]
    /\ UNCHANGED <<now, process, attempt, until, worker, adapter>>

\* enqueue, from activate, resume, run or tick: claim the current cycle.
Enqueue ==
    /\ up /\ Yielding /\ ~stopping
    /\ mandate.saved /\ mandate.enabled
    /\ ~AtWork /\ ~UnderReview /\ ~Completed /\ ~Expired
    /\ periodAt < MaxCycles
    /\ Due
    /\ attempt[periodAt] \in {"none", "declined"}
    /\ attempt' = [attempt EXCEPT ![periodAt] = "queued"]
    /\ queue' = Append(queue, periodAt)
    /\ UNCHANGED <<now, up, stopping, stranded, resuming, mandate, until, worker, adapter>>

Pause ==
    /\ up /\ Yielding /\ mandate.saved
    /\ mandate' = [mandate EXCEPT !.enabled = FALSE]
    /\ UNCHANGED <<now, process, attempt, until, worker, adapter>>

\* resume reads the status before it waits for the journal's lock ...
ResumeCheck ==
    /\ up /\ Yielding /\ mandate.saved
    /\ AtWork \/ ~(UnderReview \/ Completed \/ Expired)
    /\ resuming' = TRUE
    /\ UNCHANGED <<now, up, stopping, stranded, queue, journal, worker, adapter>>

\* ... and does not read it again.
ResumeCommit ==
    /\ up /\ Yielding /\ resuming
    /\ mandate' = [mandate EXCEPT !.enabled = TRUE]
    /\ resuming' \in BOOLEAN
    /\ UNCHANGED <<now, up, stopping, stranded, queue, attempt, until, worker, adapter>>

-----------------------------------------------------------------------------
(* The worker: work() and the purchase adapter it calls *)

\* The next job of the queue: its attempt is running.
Begin ==
    /\ worker.at = "idle" /\ queue # <<>>
    /\ attempt' = [attempt EXCEPT ![Head(queue)] = "running"]
    /\ queue' = Tail(queue)
    /\ worker' = [Resting EXCEPT !.at = "check", !.cycle = Head(queue)]
    /\ UNCHANGED <<now, up, stopping, stranded, resuming, mandate, until, adapter>>

\* The journal cannot be written: the catch of work() takes over.
BeginFails ==
    /\ worker.at = "idle" /\ queue # <<>>
    /\ queue' = Tail(queue)
    /\ worker' = [at |-> "report", cycle |-> Head(queue), result |-> "error"]
    /\ UNCHANGED <<now, up, stopping, stranded, resuming, journal, adapter>>

\* Paused, or the period has ended, since the attempt was queued.
CheckFails ==
    /\ worker.at = "check"
    /\ ~Allowed(worker.cycle)
    /\ Answer("declined")
    /\ UNCHANGED <<now, process, journal, adapter>>

CheckPasses ==
    /\ Allowed(worker.cycle)
    /\ Goto("check", "issue")
    /\ UNCHANGED <<now, process, journal, adapter>>

\* The issuance lock is held.  A request the book knows is answered from it:
\* its policy, or pending_recovery.
Issue ==
    /\ CASE row[worker.cycle] = "none"     -> Goto("issue", "quote")
         [] row[worker.cycle] = "policy"   -> Goto("issue", "finish")
         [] row[worker.cycle] = "reserved" -> worker.at = "issue" /\ Answer("pending")
    /\ UNCHANGED <<now, process, journal, adapter>>

\* Priced, and beforeWrite does not deny.
QuotePasses ==
    /\ Allowed(worker.cycle)
    /\ Goto("quote", "capacity")
    /\ UNCHANGED <<now, process, journal, adapter>>

CapacityPasses ==
    /\ Goto("capacity", "admit")
    /\ UNCHANGED <<now, process, journal, adapter>>

\* No price, restricted by guard(), not enough balance, budget or capacity.
Decline ==
    /\ worker.at \in {"quote", "capacity", "admit"}
    /\ Answer("declined")
    /\ UNCHANGED <<now, process, journal, adapter>>

\* beforeLedgerWrite looks at the mandate once more and journals an action,
\* unless it finds an earlier one of this request.
Admit ==
    /\ worker.at = "admit"
    /\ Allowed(worker.cycle)
    /\ IF action[worker.cycle] = "none"
       THEN /\ action' = [action EXCEPT ![worker.cycle] = "pending"]
            /\ Goto("admit", "reserve")
       ELSE /\ Answer("pending")
            /\ UNCHANGED action
    /\ UNCHANGED <<now, process, journal, row, cover>>

\* The reservation is saved; the policy will lapse daysFor(cycle) from now.
Reserve ==
    /\ Goto("reserve", "ledger")
    /\ row' = [row EXCEPT ![worker.cycle] = "reserved"]
    /\ cover' = [cover EXCEPT ![worker.cycle] =
                   [from |-> now, to |-> now + daysFor(worker.cycle)]]
    /\ UNCHANGED <<now, process, journal, action>>

\* The policy is recorded.
Record ==
    /\ Goto("ledger", "finish")
    /\ row' = [row EXCEPT ![worker.cycle] = "policy"]
    /\ UNCHANGED <<now, process, journal, cover, action>>

\* The account's action is complete.
Finish ==
    /\ worker.at = "finish"
    /\ action' = [action EXCEPT ![worker.cycle] = "complete"]
    /\ Answer("ok")
    /\ UNCHANGED <<now, process, journal, row, cover>>

\* A busy lock, an unreadable file, a failed query or ledger write.  A
\* reservation stays in the book.
Fail ==
    /\ worker.at \in {"check", "issue", "quote", "capacity", "admit", "reserve",
                      "ledger", "finish"}
    /\ Answer("error")
    /\ UNCHANGED <<now, process, journal, adapter>>

\* complete() saves a purchase ...
ReportPolicy ==
    /\ worker.at = "report" /\ worker.result = "ok"
    /\ attempt' = [attempt EXCEPT ![worker.cycle] = "complete"]
    /\ until' = [until EXCEPT ![worker.cycle] = cover[worker.cycle].to]
    /\ worker' = Resting
    /\ UNCHANGED <<now, process, mandate, adapter>>

\* ... or the refusal or the uncertainty, which pauses the mandate.
ReportTrouble ==
    /\ worker.at = "report" /\ worker.result # "ok"
    /\ attempt' = [attempt EXCEPT ![worker.cycle] =
                     IF worker.result = "declined" THEN "declined" ELSE "needs_review"]
    /\ mandate' = [mandate EXCEPT !.enabled = FALSE]
    /\ worker' = Resting
    /\ UNCHANGED <<now, process, until, adapter>>

\* The journal cannot be written: the catch of work() tries once more, and if
\* that fails too the attempt stays running.
ReportFails ==
    /\ worker.at = "report"
    /\ IF worker.result = "error"
       THEN worker' = Resting /\ stranded' = TRUE
       ELSE Answer("error") /\ UNCHANGED stranded
    /\ UNCHANGED <<now, up, stopping, queue, resuming, journal, adapter>>

-----------------------------------------------------------------------------
(* The process and the clock *)

Exit ==
    /\ up' = FALSE
    /\ stopping' = FALSE
    /\ queue' = <<>>
    /\ worker' = Resting
    /\ stranded' = FALSE
    /\ resuming' = FALSE

Crash == up /\ Exit /\ UNCHANGED <<now, journal, adapter>>

\* close(): nothing more is admitted, what is queued is worked off.
Close ==
    /\ up /\ Yielding /\ ~stopping
    /\ stopping' = TRUE
    /\ UNCHANGED <<now, up, queue, stranded, resuming, journal, worker, adapter>>

Closed ==
    /\ up /\ stopping /\ queue = <<>> /\ worker = Resting
    /\ Exit
    /\ UNCHANGED <<now, journal, adapter>>

Interrupted == {c \in Cycle : attempt[c] \in {"queued", "running"}}

\* initialize(): what the book knows as a policy is finished in the account's
\* journal, one attempt after the other ...
Reconcile(c) ==
    /\ ~up /\ c \in Interrupted /\ row[c] = "policy"
    /\ action[c] # "complete"
    /\ action' = [action EXCEPT ![c] = "complete"]
    /\ UNCHANGED <<now, process, journal, worker, row, cover>>

\* ... then the attempts that were at work are completed or left for review.
Initialize ==
    /\ ~up
    /\ \A c \in Interrupted : row[c] = "policy" => action[c] = "complete"
    /\ attempt' = [c \in Cycle |->
                     IF c \notin Interrupted THEN attempt[c]
                     ELSE IF row[c] = "policy" THEN "complete" ELSE "needs_review"]
    /\ until' = [c \in Cycle |->
                   IF c \in Interrupted /\ row[c] = "policy" THEN cover[c].to ELSE until[c]]
    /\ mandate' = IF \E c \in Interrupted : row[c] # "policy"
                  THEN [mandate EXCEPT !.enabled = FALSE] ELSE mandate
    /\ up' = TRUE
    /\ UNCHANGED <<now, stopping, queue, stranded, resuming, worker, adapter>>

Tick ==
    /\ now < Horizon
    /\ now' = now + 1
    /\ UNCHANGED <<process, journal, worker, adapter>>

Work ==
    \/ Begin \/ BeginFails \/ CheckFails \/ CheckPasses \/ Issue
    \/ QuotePasses \/ CapacityPasses \/ Decline \/ Admit \/ Reserve
    \/ Record \/ Finish \/ Fail \/ ReportPolicy \/ ReportTrouble \/ ReportFails

Restart == (\E c \in Cycle : Reconcile(c)) \/ Initialize

Next ==
    \/ Activate \/ Enqueue \/ Pause \/ ResumeCheck \/ ResumeCommit
    \/ Work
    \/ Crash \/ Close \/ Closed \/ Restart
    \/ Tick

Spec == Init /\ [][Next]_vars

\* The worker's promises settle, ledger calls having time limits, and a
\* process manager starts the server again.
Fairness == WF_vars(Work) /\ WF_vars(Restart)

FairSpec == Spec /\ Fairness

-----------------------------------------------------------------------------
TypeOK ==
    /\ now \in Nat
    /\ up \in BOOLEAN /\ stopping \in BOOLEAN
    /\ stranded \in BOOLEAN /\ resuming \in BOOLEAN
    /\ mandate \in [saved : BOOLEAN, anchor : Nat, enabled : BOOLEAN]
    /\ attempt \in [Cycle -> Status]
    /\ until \in [Cycle -> Nat]
    /\ queue \in Seq(Cycle)
    /\ worker \in [at : Point, cycle : Cycle, result : Result]
    /\ row \in [Cycle -> {"none", "reserved", "policy"}]
    /\ cover \in [Cycle -> [from : Nat, to : Nat] \cup {NoCover}]
    /\ \A c \in Cycle : cover[c] = NoCover <=> row[c] = "none"
    /\ action \in [Cycle -> {"none", "pending", "complete"}]

\* Only an attempt that is running, complete or under review can have left
\* anything in the book or the account's journal: an attempt called declined,
\* which may be tried again, has spent nothing.
DeclinedSpentNothing ==
    \A c \in Cycle : row[c] # "none" \/ action[c] # "none" =>
                       attempt[c] \in {"running", "complete", "needs_review"}

\* Where the mandate's journal says complete, the book has the policy with the
\* same end, and the account's action is finished: three files written under
\* two locks agree, through crashes between them.
CompleteEverywhere ==
    \A c \in Cycle : attempt[c] = "complete" =>
        row[c] = "policy" /\ action[c] = "complete" /\ until[c] = cover[c].to

\* The three files of a purchase - the mandate's journal, the account's, the book - agree
\* on what was bought and what was not (src/cover-agent/service.js:60-80 and 105-115).
JournalsAgree == DeclinedSpentNothing /\ CompleteEverywhere

\* An uncertain purchase is never resubmitted, nor followed by another: while
\* one is under review nothing is reserved (src/cover-agent/service.js:109,
\* "ambiguous attempts never auto-resubmit").
NoSpendingUnderReview ==
    [][UnderReview => UnderReview' /\ \A c \in Cycle : row[c] = "none" => row'[c] = "none"]_vars

\* "Pause stops new admission" (docs/COVER-AGENT.md:53): after pause nothing is
\* reserved, even for a purchase already priced, until resume.
PauseStopsAdmission ==
    [][\A c \in Cycle : row[c] = "none" /\ row'[c] # "none" => mandate.enabled]_vars

\* What stops the spending of a mandate: a purchase under review, until an operator has
\* seen to it, and a pause, until its owner resumes (src/cover-agent/service.js:96-109).
SpendingStops == NoSpendingUnderReview /\ PauseStopsAdmission

\* A claimed attempt is resolved, by the worker or by the next start, unless its
\* report could not be saved in two tries; then it is at work until a restart.
AttemptsResolve == AtWork ~> (~AtWork \/ stranded)

\* The purchases of a mandate are those its plan allows.
Plan == INSTANCE RenewalPlan
PlanSpec == Plan!Spec

-----------------------------------------------------------------------------
(* What a document says and the code does not do *)

\* "Keep the original request and pause for operator review"
\* (docs/COVER-AGENT.md:52): under review, the mandate is paused.
ReviewPauses == UnderReview => ~mandate.enabled

-----------------------------------------------------------------------------
(***************************************************************************)
(* The inductive invariant.  That a declined attempt has spent nothing, or *)
(* that a new purchase follows the last, depends on how one attempt at a   *)
(* time passes from the journal through the queue to the worker            *)
(* (OneAttempt), on what a purchase has left behind at each of its points  *)
(* (Traces), and on what was known when the attempt was claimed (Claimed). *)
(***************************************************************************)
OneAttempt ==
    /\ \A c, d \in Interrupted : c = d
    /\ AtWork => ~UnderReview
    /\ queue # <<>> => \E c \in Cycle : /\ queue = <<c>>
                                        /\ attempt[c] = "queued"
                                        /\ worker = Resting
    /\ worker.at = "idle" => worker = Resting
    /\ worker.at # "idle" => \/ attempt[worker.cycle] = "running"
                             \/ /\ attempt[worker.cycle] = "queued"
                                /\ worker.at = "report" /\ worker.result = "error"
    /\ ~up => queue = <<>> /\ worker = Resting

Traces ==
    /\ \/ worker.at \in {"check", "issue", "quote", "capacity", "admit"}
       \/ worker.at = "report" /\ worker.result = "declined"
       => row[worker.cycle] = "none" /\ action[worker.cycle] = "none"
    /\ worker.at = "reserve" => /\ row[worker.cycle] = "none"
                                /\ mandate.enabled
                                /\ MonthAt(worker.cycle) <= now
    /\ worker.at = "ledger" => row[worker.cycle] = "reserved"
    /\ worker.at = "finish" => row[worker.cycle] = "policy"
    /\ worker.at = "report" /\ worker.result = "ok" =>
         row[worker.cycle] = "policy" /\ action[worker.cycle] = "complete"

Claimed ==
    /\ ~mandate.saved => \A c \in Cycle : attempt[c] = "none"
    /\ mandate.anchor <= now
    /\ \A c \in Cycle : row[c] # "none" => MonthAt(c) <= now
    /\ \A c \in Interrupted, d \in Done : d < c /\ until[d] <= now

AgentInv ==
    /\ TypeOK /\ DeclinedSpentNothing /\ CompleteEverywhere
    /\ OneAttempt /\ Traces /\ Claimed
=============================================================================
