--------------------------- MODULE PolicyIssuance ---------------------------
(***************************************************************************)
(* Issuing a policy: issuePolicy of src/policy/issue.js, the policy book   *)
(* it keeps (src/book.js), the capacity check (src/pool/) and the ledger   *)
(* it writes to.                                                           *)
(*                                                                         *)
(* The work of two calls does not overlap: that is what the issuance lock  *)
(* promises (IssuanceLock implements ExclusiveWork), so there is at most   *)
(* one call at work, `call`.  Everything else moves at any time: the       *)
(* oracles execute schedules, deposits arrive, a transaction whose receipt *)
(* was lost lands late or never, time passes, and the process may die.     *)
(*                                                                         *)
(* One settlement asset is modelled: exposure.js sums each asset apart.    *)
(* The book's clock and the ledger's are one clock.                        *)
(***************************************************************************)
EXTENDS PromiseTotals

CONSTANTS
    Nobody,         \* no call is at work
    Days,           \* policy terms a buyer can ask for
    Premium,        \* what a sale brings the pool (premium less commission)
    Deposit,        \* what one deposit brings the pool
    Capital,        \* what the pool holds at first
    MaxCapital,     \* bound: no deposit beyond this
    Horizon         \* bound: the last time the clock shows

ASSUME IssuanceAssumption ==
    /\ Nobody \notin Request
    /\ Days \subseteq Nat \ {0}
    /\ Premium \in Nat
    /\ Deposit \in Nat
    /\ Capital \in Nat
    /\ MaxCapital \in Nat
    /\ Horizon \in Nat

(***************************************************************************)
(* The ledger writes of one issuance, in order:                            *)
(*   1 fund      create, associate and fund the beneficiary (createBuyer)  *)
(*   2 terms     publish the terms to the consensus service                *)
(*   3 mint      mint the policy NFT                                       *)
(*   4 premium   the sale: buyer to pool and broker, one atomic transfer   *)
(*   5 deliver   move the NFT to the buyer                                 *)
(*   6 freeze    freeze the holder for the NFT                             *)
(*   7 schedule  create the scheduled payout, signed by the agent          *)
(***************************************************************************)
Op == 1..7
PremiumOp == 4
ScheduleOp == 7

Stage == {"idle", "quote", "reconcile", "balance", "compare", "ledger", "record"}

VARIABLES
    now,            \* the clock
    capital,        \* the pool's balance on the ledger
    row,            \* the book's row of each request
    payout,         \* the row's payoutUnits
    lapsesAt,       \* the row's lapsesAt, which is the schedule's expiry
    tx,             \* the ledger's view of each write of each request
    sends,          \* how often each write was submitted
    paid,           \* what became of the scheduled payout
    call            \* the call at work and its local variables

vars == <<now, capital, row, payout, lapsesAt, tx, sends, paid, call>>
bookVars == <<row, payout, lapsesAt>>
ledgerVars == <<capital, tx, sends, paid>>

\* A reservation is "creating" or "needs_review"; a policy is "booked", and
\* "settled" once reconcile has seen its payout.
Row == {"none", "creating", "needs_review", "booked", "settled"}

\* Submitted and unanswered, executed, or rejected or expired.
TxState == {"none", "sent", "landed", "void"}

CallState ==
    [at : Stage, req : Request \cup {Nobody}, days : Days \cup {0}, offer : Amount,
     committed : Nat, seen : Nat, op : Op, sent : BOOLEAN]

Idle == [at |-> "idle", req |-> Nobody, days |-> 0, offer |-> 0,
         committed |-> 0, seen |-> 0, op |-> 1, sent |-> FALSE]

Ended == call' = Idle

-----------------------------------------------------------------------------
(* summarizeExposure of src/pool/exposure.js over the rows of the book *)

Counted ==
    {r \in Request : row[r] \in {"creating", "needs_review", "booked"} /\ now < lapsesAt[r]}

committedUnits == Total(Within(Counted, payout))

\* Schedules the ledger still holds and will execute when the quorum signs.
Live == {r \in Request : /\ tx[r][ScheduleOp] = "landed"
                         /\ paid[r] = "unpaid"
                         /\ now < lapsesAt[r]}

-----------------------------------------------------------------------------
(* Variants of the actions below, each with a plausible mistake.  No action *)
(* uses them: the mutation runs put one in the place of the action it is a  *)
(* variant of, to show that a property would notice the mistake.            *)

\* Call, were a request with a mere reservation started over.
CallAgain(r, d) ==
    /\ call.at = "idle"
    /\ row[r] \notin {"booked", "settled"}
    /\ call' = [Idle EXCEPT !.at = "quote", !.req = r, !.days = d]
    /\ UNCHANGED <<now, bookVars, ledgerVars>>

\* Reconcile, were policies settled that the mirror does not report paid.
ReconcileUnverified(S) ==
    /\ call.at = "reconcile"
    /\ S \subseteq {r \in Request : row[r] = "booked"}
    /\ row' = [r \in Request |-> IF r \in S THEN "settled" ELSE row[r]]
    /\ UNCHANGED <<now, payout, lapsesAt, ledgerVars>>
    /\ call' = [call EXCEPT !.at = "balance", !.committed = committedUnits']

\* Reserve, were the new payout compared with the balance alone.
ReserveAlone ==
    /\ call.at = "compare"
    /\ call.offer <= call.seen
    /\ row' = [row EXCEPT ![call.req] = "creating"]
    /\ payout' = [payout EXCEPT ![call.req] = call.offer]
    /\ lapsesAt' = [lapsesAt EXCEPT ![call.req] = now + call.days]
    /\ call' = [call EXCEPT !.at = "ledger"]
    /\ UNCHANGED <<now, ledgerVars>>

\* Confirm, were there a write after the schedule.
ConfirmPast ==
    /\ call.at = "ledger" /\ call.sent
    /\ tx[call.req][call.op] = "landed"
    /\ call' = [call EXCEPT !.op = @ + 1, !.sent = FALSE]
    /\ UNCHANGED <<now, bookVars, ledgerVars>>

\* Confirm, were the receipt not awaited.
ConfirmUnread ==
    /\ call.at = "ledger" /\ call.sent
    /\ call' = IF call.op = ScheduleOp
               THEN [call EXCEPT !.at = "record"]
               ELSE [call EXCEPT !.op = @ + 1, !.sent = FALSE]
    /\ UNCHANGED <<now, bookVars, ledgerVars>>

-----------------------------------------------------------------------------
Init ==
    /\ now = 0
    /\ capital = Capital
    /\ row = [r \in Request |-> "none"]
    /\ payout = [r \in Request |-> 0]
    /\ lapsesAt = [r \in Request |-> 0]
    /\ tx = [r \in Request |-> [k \in Op |-> "none"]]
    /\ sends = [r \in Request |-> [k \in Op |-> 0]]
    /\ paid = [r \in Request |-> "unpaid"]
    /\ call = Idle

\* issuePolicy(requestId) enters the lock and finds no row.  With a row it
\* answers at once, reused or pending_recovery, and changes nothing.
Call(r, d) ==
    /\ call.at = "idle"
    /\ row[r] = "none"
    /\ call' = [Idle EXCEPT !.at = "quote", !.req = r, !.days = d]
    /\ UNCHANGED <<now, bookVars, ledgerVars>>

\* The price is known and beforeWrite has not denied.
Quote(u) ==
    /\ call.at = "quote"
    /\ call' = [call EXCEPT !.at = "reconcile", !.offer = u]
    /\ UNCHANGED <<now, bookVars, ledgerVars>>

\* Not priced, denied, or an error: no row was written, the call ends.
Refuse ==
    /\ call.at \in {"quote", "reconcile", "balance", "compare"}
    /\ Ended
    /\ UNCHANGED <<now, bookVars, ledgerVars>>

\* reconcile(): the mirror is read for each booked policy, at its own moment,
\* possibly from the cache or in vain, so that any part S of what was paid is
\* seen; those are settled.  Then, with no await between, committedUnits.
Reconcile(S) ==
    /\ call.at = "reconcile"
    /\ S \subseteq {r \in Request : row[r] = "booked" /\ paid[r] = "paid"}
    /\ row' = [r \in Request |-> IF r \in S THEN "settled" ELSE row[r]]
    /\ UNCHANGED <<now, payout, lapsesAt, ledgerVars>>
    /\ call' = [call EXCEPT !.at = "balance", !.committed = committedUnits']

\* The node answers the balance query; the answer is used later.
ReadBalance ==
    /\ call.at = "balance"
    /\ call' = [call EXCEPT !.at = "compare", !.seen = capital]
    /\ UNCHANGED <<now, bookVars, ledgerVars>>

\* canUnderwrite holds and beforeLedgerWrite has not denied: the reservation
\* is written before anything reaches the ledger.
Reserve ==
    /\ call.at = "compare"
    /\ call.committed + call.offer <= call.seen
    /\ row' = [row EXCEPT ![call.req] = "creating"]
    /\ payout' = [payout EXCEPT ![call.req] = call.offer]
    /\ lapsesAt' = [lapsesAt EXCEPT ![call.req] = now + call.days]
    /\ call' = [call EXCEPT !.at = "ledger"]
    /\ UNCHANGED <<now, ledgerVars>>

\* Submit the current ledger write.
Send ==
    /\ call.at = "ledger" /\ ~call.sent
    /\ tx' = [tx EXCEPT ![call.req][call.op] = "sent"]
    /\ sends' = [sends EXCEPT ![call.req][call.op] = @ + 1]
    /\ call' = [call EXCEPT !.sent = TRUE]
    /\ UNCHANGED <<now, capital, paid, bookVars>>

\* Its receipt arrives; updateReservation saves the progress.
Confirm ==
    /\ call.at = "ledger" /\ call.sent
    /\ tx[call.req][call.op] = "landed"
    /\ call' = IF call.op = ScheduleOp
               THEN [call EXCEPT !.at = "record"]
               ELSE [call EXCEPT !.op = @ + 1, !.sent = FALSE]
    /\ UNCHANGED <<now, bookVars, ledgerVars>>

\* A write is rejected, its receipt does not come, or the book cannot be
\* written: the reservation is kept for review and the error passed on.  A
\* write already submitted may still land.
Interrupt ==
    /\ call.at \in {"ledger", "record"}
    /\ row' = [row EXCEPT ![call.req] = "needs_review"]
    /\ Ended
    /\ UNCHANGED <<now, payout, lapsesAt, ledgerVars>>

\* record(): the policy replaces its reservation in one write of the book.
Record ==
    /\ call.at = "record"
    /\ row' = [row EXCEPT ![call.req] = "booked"]
    /\ Ended
    /\ UNCHANGED <<now, payout, lapsesAt, ledgerVars>>

\* The process dies.  The book stays, the lock is recovered.
Crash ==
    /\ call.at # "idle"
    /\ Ended
    /\ UNCHANGED <<now, bookVars, ledgerVars>>

-----------------------------------------------------------------------------
(* The ledger, the oracles, depositors and the clock *)

\* A submitted write executes.  A schedule that would already have expired
\* is rejected.
Land(r, k) ==
    /\ tx[r][k] = "sent"
    /\ k = ScheduleOp => now < lapsesAt[r]
    /\ tx' = [tx EXCEPT ![r][k] = "landed"]
    /\ capital' = IF k = PremiumOp THEN capital + Premium ELSE capital
    /\ UNCHANGED <<now, sends, paid, bookVars, call>>

\* A submitted write is rejected, or its validity passes.
Void(r, k) ==
    /\ tx[r][k] = "sent"
    /\ tx' = [tx EXCEPT ![r][k] = "void"]
    /\ UNCHANGED <<now, capital, sends, paid, bookVars, call>>

\* The oracles' quorum completes: the ledger executes the transfer at once,
\* and without the balance it fails, once and for all.
Execute(r) ==
    /\ r \in Live
    /\ IF payout[r] <= capital
       THEN paid' = [paid EXCEPT ![r] = "paid"] /\ capital' = capital - payout[r]
       ELSE paid' = [paid EXCEPT ![r] = "bounced"] /\ UNCHANGED capital
    /\ UNCHANGED <<now, tx, sends, bookVars, call>>

Grow ==
    /\ capital + Deposit <= MaxCapital
    /\ capital' = capital + Deposit
    /\ UNCHANGED <<now, tx, sends, paid, bookVars, call>>

Tick ==
    /\ now < Horizon
    /\ now' = now + 1
    /\ UNCHANGED <<bookVars, ledgerVars, call>>

Work ==
    \/ \E u \in 1..MaxUnits : Quote(u)
    \/ Refuse
    \/ \E S \in SUBSET Request : Reconcile(S)
    \/ ReadBalance \/ Reserve \/ Send \/ Confirm \/ Interrupt \/ Record

World ==
    \/ \E r \in Request, k \in Op : Land(r, k) \/ Void(r, k)
    \/ \E r \in Request : Execute(r)
    \/ Grow \/ Tick

Next ==
    \/ \E r \in Request, d \in Days : Call(r, d)
    \/ Work
    \/ Crash
    \/ World

Spec == Init /\ [][Next]_vars

-----------------------------------------------------------------------------
TypeOK ==
    /\ now \in Nat
    /\ capital \in Nat
    /\ row \in [Request -> Row]
    /\ payout \in [Request -> Amount]
    /\ lapsesAt \in [Request -> Nat]
    /\ tx \in [Request -> [Op -> TxState]]
    /\ sends \in [Request -> [Op -> Nat]]
    /\ paid \in [Request -> {"unpaid", "paid", "bounced"}]
    /\ call \in CallState

\* The pool holds what all live schedules could draw together, whatever the
\* oracles sign first: "committed exposure must never exceed pool capital"
\* (src/pool/solvency.js:3).
Solvency == Total(Within(Live, payout)) <= capital

\* No scheduled payout ever fails for lack of funds
\* (src/pool/solvency.js:5, "the last claimant would get nothing").
NeverBounces == \A r \in Request : paid[r] # "bounced"

\* A write of an issuance reaches the ledger at most once, through lost
\* receipts, crashes and repeated requests: no second premium, NFT or payout
\* (docs/AGENT-SECURITY.md:34).
AtMostOnce == \A r \in Request, k \in Op : sends[r][k] <= 1

\* Whatever an issuance may have done on the ledger, the book has its row, so
\* that its exposure is counted and a retry is answered from it.
WriteAhead == \A r \in Request, k \in Op : tx[r][k] # "none" => row[r] # "none"

\* A policy in the book has its premium paid, its NFT delivered and frozen,
\* and its payout scheduled on the ledger.
BookedIsBacked ==
    \A r \in Request : row[r] \in {"booked", "settled"} => \A k \in Op : tx[r][k] = "landed"

\* The promise of the pool: all live schedules together are covered, so that none ever
\* fails when the oracles sign it (src/pool/solvency.js:3-5).
PayoutsAreBacked == Solvency /\ NeverBounces

\* The book and the ledger, in both directions: nothing is on the ledger without its
\* row, and no row says policy of what the ledger does not have whole
\* (src/policy/issue.js:94-133).
BookTellsTheLedger == WriteAhead /\ BookedIsBacked

-----------------------------------------------------------------------------
(* The abstract pool this implements *)

\* Requests the pool owes on: counted in the book and not yet paid on the
\* ledger.  A reservation whose schedule does not exist is owed as well.
Owed == {r \in Counted : paid[r] = "unpaid"}

\* What is owed on each request.
Promised == Within(Owed, payout)

Pool == INSTANCE PoolPromise WITH promised <- Promised
PoolKeepsPromises == Pool!Spec

-----------------------------------------------------------------------------
(***************************************************************************)
(* The inductive invariant.  Solvency alone is not inductive: what a call  *)
(* reserves is compared with a sum and a balance it read earlier, so the   *)
(* invariant says how far both may be from the truth by then (Snapshot),   *)
(* and it counts every promise the book knows, not just the schedules that *)
(* exist already (Covered).                                                *)
(***************************************************************************)
CallShape ==
    /\ call.at # "idle" => call.req \in Request /\ call.days \in Days
    /\ call.at \in {"reconcile", "balance", "compare"} => call.offer \in 1..MaxUnits
    /\ call.at \in {"quote", "reconcile", "balance", "compare"} =>
         row[call.req] = "none" /\ call.op = 1 /\ ~call.sent
    /\ call.at \in {"ledger", "record"} => row[call.req] = "creating"

\* The writes before the current one have landed, those after it do not exist.
Progress ==
    /\ call.at = "ledger" =>
         \A k \in Op : /\ k < call.op => tx[call.req][k] = "landed"
                       /\ k > call.op => tx[call.req][k] = "none"
                       /\ k = call.op => (call.sent <=> tx[call.req][k] # "none")
    /\ call.at = "record" => \A k \in Op : tx[call.req][k] = "landed"

\* A write is unknown to the ledger until submitted, and submitted once.
SentOnce ==
    \A r \in Request, k \in Op : sends[r][k] = IF tx[r][k] = "none" THEN 0 ELSE 1

PaidWasScheduled ==
    \A r \in Request : /\ paid[r] # "unpaid" => tx[r][ScheduleOp] = "landed"
                       /\ row[r] = "settled" => paid[r] = "paid"

Covered == Total(Promised) <= capital

Snapshot ==
    /\ call.at = "balance" => Total(Promised) <= call.committed
    /\ call.at = "compare" => Total(Promised) + call.seen <= call.committed + capital

BookInv ==
    /\ TypeOK /\ CallShape /\ WriteAhead /\ Progress /\ SentOnce
    /\ BookedIsBacked /\ PaidWasScheduled

IssuanceInv == BookInv /\ NeverBounces /\ Covered /\ Snapshot
=============================================================================
