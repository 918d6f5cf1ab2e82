------------------------------ MODULE PaidCheck ------------------------------
(***************************************************************************)
(* A visitor checks a policy: src/demo/policyChecks.js asks the oracle     *)
(* services one after another and pays each from the visitor's account,    *)
(* by src/x402/client.js.  The services keep PaidAnswer, as PaidGate does. *)
(*                                                                         *)
(* Checks run under the issuance lock (src/server.js), one at a time.  The *)
(* client gives up on a service that takes too long, and may die; the      *)
(* service goes on.  The client never learns more than it was told, and    *)
(* what it keeps of each payment is one row of the account's journal.      *)
(*                                                                         *)
(* The cache of five minutes returns what is recorded and changes nothing; *)
(* a new check may be asked for at any time here.                          *)
(***************************************************************************)
EXTENDS Naturals

CONSTANTS
    Request,        \* request identifiers of checks
    Account,        \* sessions, each with one account
    Policy,         \* policies that may be checked
    N,              \* oracle services asked by one check
    Nobody, NoPolicy, NoPayment, NoRequest

ASSUME CheckAssumption ==
    /\ N \in Nat \ {0}
    /\ Nobody \notin Account
    /\ NoPolicy \notin Policy
    /\ NoPayment \notin Request \X (1..N)
    /\ NoRequest \notin Request

Source == 1..N

\* The request of a check to a service, which is paid by a payment of its own.
Ask == Request \X Source

VARIABLES
    check,          \* check[r]: the account's action in the journal
    clock,          \* the time of the last check
    call,           \* the call at work
    offer, told, senders, tx        \* the services (PaidAnswer)

vars == <<check, clock, call, offer, told, senders, tx>>
services == <<offer, told, senders, tx>>

Service == INSTANCE PaidAnswer WITH Payment <- Ask

(***************************************************************************)
(* Points of a call:                                                       *)
(*   describe    the policy is about to be saved                           *)
(*   row         a service's row is about to be saved                      *)
(*   ask         waiting for its terms                                     *)
(*   checkpoint  the payment's identifier is about to be saved             *)
(*   pay         the payment is about to be sent                           *)
(*   wait        waiting for its answer                                    *)
(*   save        the outcome is about to be saved                          *)
(*   finish      all services were asked                                   *)
(***************************************************************************)
Point == {"idle", "describe", "row", "ask", "checkpoint", "pay", "wait", "save", "finish"}

\* What the journal says of a service: "paid" is an answer with its receipt,
\* "unavailable" that nothing was paid, "review" that nobody knows.
Row == {"none", "checking", "submitted", "unavailable", "paid", "review"}
Outcome == {"unavailable", "paid", "review"}

Idle == [at |-> "idle", request |-> NoRequest,
         policy |-> NoPolicy, source |-> 1, row |-> "none"]

asked == <<call.request, call.source>>

SaveRow(row) == check' = [check EXCEPT ![call.request].rows[call.source] = row]

Outcomes(row) ==
    /\ call' = [call EXCEPT !.at = "save", !.row = row]
    /\ UNCHANGED <<check, clock, services>>

NeedsReview(r) == \E s \in Source : check[r].rows[s] = "review"

\* latestPolicyCheck
Latest(p) ==
    {r \in Request :
        /\ check[r].policy = p
        /\ \A q \in Request : check[q].policy = p => check[q].at <= check[r].at}

-----------------------------------------------------------------------------
(* Variants of the actions, each with one plausible mistake *)

\* Only a check at work keeps the next one out.
BeginUnreviewed(r, a, p) ==
    /\ call.at = "idle"
    /\ check[r].status = "none"
    /\ \A q \in Request : ~(check[q].owner = a /\ check[q].status = "pending")
    /\ \A q \in Latest(p) : check[q].status = "complete"
    /\ clock' = clock + 1
    /\ check' = [check EXCEPT ![r].status = "pending", ![r].owner = a, ![r].at = clock + 1]
    /\ call' = [at |-> "describe", request |-> r, policy |-> p, source |-> 1, row |-> "none"]
    /\ UNCHANGED services

\* One service too many is asked.
SavePast ==
    /\ call.at = "save"
    /\ SaveRow(call.row)
    /\ call' = IF call.source <= N
               THEN [call EXCEPT !.at = "row", !.source = @ + 1, !.row = "none"]
               ELSE [call EXCEPT !.at = "finish"]
    /\ UNCHANGED <<clock, services>>

-----------------------------------------------------------------------------
Init ==
    /\ check = [r \in Request |-> [status |-> "none", owner |-> Nobody, policy |-> NoPolicy,
                                   at |-> 0, rows |-> [s \in Source |-> "none"]]]
    /\ clock = 0
    /\ call = Idle
    /\ Service!Init

-----------------------------------------------------------------------------
(* The check *)

\* Not for a request seen before, while another action of the account is
\* pending, or while the last check of the policy is pending or needs review.
Begin(r, a, p) ==
    /\ call.at = "idle"
    /\ check[r].status = "none"
    /\ \A q \in Request : ~(check[q].owner = a /\ check[q].status = "pending")
    /\ \A q \in Latest(p) : check[q].status = "complete" /\ ~NeedsReview(q)
    /\ clock' = clock + 1
    /\ check' = [check EXCEPT ![r].status = "pending", ![r].owner = a, ![r].at = clock + 1]
    /\ call' = [at |-> "describe", request |-> r, policy |-> p, source |-> 1, row |-> "none"]
    /\ UNCHANGED services

Describe ==
    /\ call.at = "describe"
    /\ check' = [check EXCEPT ![call.request].policy = call.policy]
    /\ call' = [call EXCEPT !.at = "row"]
    /\ UNCHANGED <<clock, services>>

OpenRow ==
    /\ call.at = "row"
    /\ SaveRow("checking")
    /\ call' = [call EXCEPT !.at = "ask"]
    /\ UNCHANGED <<clock, services>>

\* The service asks for a payment that meets the terms pinned for it.
AskTerms ==
    /\ call.at = "ask"
    /\ call' = [call EXCEPT !.at = "checkpoint"]
    /\ UNCHANGED <<check, clock, services>>

\* Anything else: no payment is signed.
AskFails ==
    /\ call.at = "ask"
    /\ Outcomes("unavailable")

Checkpoint ==
    /\ call.at = "checkpoint"
    /\ SaveRow("submitted")
    /\ call' = [call EXCEPT !.at = "pay", !.row = "submitted"]
    /\ UNCHANGED <<clock, services>>

\* The row in memory has the identifier when saving it fails.
CheckpointFails ==
    /\ call.at = "checkpoint"
    /\ Outcomes("review")

Pay ==
    /\ call.at = "pay"
    /\ Service!Present(asked, asked)
    /\ call' = [call EXCEPT !.at = "wait"]
    /\ UNCHANGED <<check, clock>>

\* A refusal that says nothing was submitted.
HearDeclined ==
    /\ call.at = "wait"
    /\ told[asked] = "declined"
    /\ Outcomes("unavailable")

\* An answer with a receipt of this payment.
HearAnswer ==
    /\ call.at = "wait"
    /\ told[asked] = "answered"
    /\ Outcomes("paid")

\* Any other answer, or none in time.
Lose ==
    /\ call.at = "wait"
    /\ Outcomes("review")

Save ==
    /\ call.at = "save"
    /\ SaveRow(call.row)
    /\ call' = IF call.source < N
               THEN [call EXCEPT !.at = "row", !.source = @ + 1, !.row = "none"]
               ELSE [call EXCEPT !.at = "finish"]
    /\ UNCHANGED <<clock, services>>

Finish ==
    /\ call.at = "finish"
    /\ check' = [check EXCEPT ![call.request].status = "complete"]
    /\ call' = Idle
    /\ UNCHANGED <<clock, services>>

\* The journal cannot be written, or the process dies.
Abandon ==
    /\ call.at # "idle"
    /\ call' = Idle
    /\ UNCHANGED <<check, clock, services>>

-----------------------------------------------------------------------------
(* The services and the ledger *)

Serve(x) ==
    /\ \/ Service!Submit(x) \/ Service!Decline(x) \/ Service!Refuse({x})
       \/ Service!Answer(x)
    /\ UNCHANGED <<check, clock, call>>

Settle(x) ==
    /\ Service!Land(x) \/ Service!Void(x)
    /\ UNCHANGED <<check, clock, call>>

Next ==
    \/ \E r \in Request, a \in Account, p \in Policy : Begin(r, a, p)
    \/ Describe \/ OpenRow \/ AskTerms \/ AskFails \/ Checkpoint \/ CheckpointFails
    \/ Pay \/ HearDeclined \/ HearAnswer \/ Lose \/ Save \/ Finish \/ Abandon
    \/ \E x \in Ask : Serve(x) \/ Settle(x)

Spec == Init /\ [][Next]_vars

-----------------------------------------------------------------------------
Check == [status : {"none", "pending", "complete"}, owner : Account \cup {Nobody},
          policy : Policy \cup {NoPolicy}, at : Nat, rows : [Source -> Row]]

TypeOK ==
    /\ check \in [Request -> Check]
    /\ clock \in Nat
    /\ call \in [at : Point, request : Request \cup {NoRequest},
                 policy : Policy \cup {NoPolicy}, source : Source, row : Row]
    /\ Service!TypeOK

\* A payment that was submitted is in the journal, as one that may have been.
SubmittedIsSaved ==
    \A r \in Request, s \in Source :
        tx[<<r, s>>] # "none" => check[r].rows[s] \in {"submitted", "paid", "review"}

\* Whether a payment may still be executed.
MayLand(x) == told[x] = "waiting" \/ tx[x] = "sent"

\* What a finished check without need of review says it cost is what left the
\* account, and nothing more will.
CostIsExact ==
    \A r \in Request :
        check[r].status = "complete" /\ ~NeedsReview(r) =>
            \A s \in Source :
                /\ check[r].rows[s] = "paid" <=> tx[<<r, s>>] = "landed"
                /\ ~MayLand(<<r, s>>)

\* A payment that may be executed, or was, and is not recorded as paid.
Open(r) ==
    \E s \in Source :
        \/ MayLand(<<r, s>>)
        \/ tx[<<r, s>>] = "landed" /\ check[r].rows[s] # "paid"

\* An unknown payment blocks every other check of its policy, by any account.
OneOpenCheck ==
    \A q, r \in Request :
        /\ check[q].policy = check[r].policy /\ check[r].policy # NoPolicy
        /\ Open(q) /\ Open(r)
        => q = r

\* The books of the policy checks (src/demo/policyChecks.js): every payment submitted is
\* recorded, a settled check names its exact cost, and of a policy's checks one at most
\* has a payment of unknown outcome.
ChecksAddUp == SubmittedIsSaved /\ CostIsExact /\ OneOpenCheck

-----------------------------------------------------------------------------
(***************************************************************************)
(* The inductive invariant: what the services have told agrees with the    *)
(* ledger (Told), what the journal says with what was told (Rows), the     *)
(* call is where its rows say (Progress), and of the checks of a policy    *)
(* all but the last are settled (Order).                                   *)
(***************************************************************************)
Settled(r) == check[r].status = "complete" /\ ~NeedsReview(r)

Told ==
    \A x \in Ask :
        /\ told[x] # "unasked" => offer[x] = x
        /\ senders[x] \subseteq {x}
        /\ tx[x] = "none" <=> senders[x] = {}
        /\ told[x] \in {"unasked", "declined"} => tx[x] = "none"
        /\ told[x] = "answered" => tx[x] = "landed"

Rows ==
    \A r \in Request, s \in Source :
        /\ told[<<r, s>>] # "unasked" => check[r].rows[s] \in Outcome \cup {"submitted"}
        /\ check[r].rows[s] = "paid" => told[<<r, s>>] = "answered"
        /\ check[r].rows[s] = "unavailable" => told[<<r, s>>] \in {"unasked", "declined"}
        /\ check[r].status = "complete" => check[r].rows[s] \in Outcome
        /\ check[r].policy = NoPolicy => check[r].rows[s] = "none"

Progress ==
    call.at # "idle" =>
        LET rows == check[call.request].rows IN
        /\ call.request \in Request /\ call.policy \in Policy
        /\ check[call.request].status = "pending"
        /\ check[call.request].at = clock
        /\ check[call.request].policy = IF call.at = "describe" THEN NoPolicy ELSE call.policy
        /\ \A s \in Source : s < call.source => rows[s] \in Outcome
        /\ \A s \in Source : s > call.source => rows[s] = "none"
        /\ call.at = "describe" => call.source = 1
        /\ call.at \in {"describe", "row"} => rows[call.source] = "none"
        /\ call.at \in {"ask", "checkpoint"} => rows[call.source] = "checking"
        /\ call.at \in {"pay", "wait"} => rows[call.source] = "submitted"
        /\ call.at = "pay" => told[asked] = "unasked"
        /\ call.at = "save" =>
             /\ call.row \in Outcome
             /\ call.row = "paid" => told[asked] = "answered"
             /\ call.row = "unavailable" => told[asked] \in {"unasked", "declined"}
        /\ call.at = "finish" => call.source = N /\ rows[N] \in Outcome

Order ==
    /\ \A r \in Request :
         /\ check[r].at <= clock
         /\ check[r].status = "none" => check[r].policy = NoPolicy
         /\ check[r].policy # NoPolicy => Latest(check[r].policy) # {}
    /\ \A q, r \in Request :
         /\ check[q].status # "none" /\ check[r].status # "none" /\ check[q].at = check[r].at
              => q = r
         /\ check[q].policy = check[r].policy /\ check[q].policy # NoPolicy
              /\ check[q].at < check[r].at => Settled(q)
    /\ call.at = "describe" =>
         \A q \in Request : check[q].policy = call.policy => Settled(q)

CheckInv == TypeOK /\ Told /\ Rows /\ Progress /\ Order
=============================================================================
