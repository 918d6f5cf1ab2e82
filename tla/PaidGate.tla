------------------------------ MODULE PaidGate ------------------------------
(***************************************************************************)
(* How an oracle service charges for its answer: the handler of            *)
(* src/oracle/service.js, the gate of src/x402/gate.js and the adapter of  *)
(* the hosted facilitator Blocky402 (src/x402/blocky.js) with its journal, *)
(* one file per payment, created exclusively.                              *)
(*                                                                         *)
(* The services are processes that share the journal's directory.  A       *)
(* handler waits at every step, so handlers overlap; clients may offer one *)
(* payment with several requests.  A process may die at any point, and the *)
(* facilitator's answer may be lost or come too late.                      *)
(*                                                                         *)
(* Whether a payment meets a service's terms, its signature and balance    *)
(* (src/x402/facilitator.js), is a choice at each look, as what is looked  *)
(* at changes between two looks.  The limit of four requests at once to    *)
(* the facilitator is one more reason for a refusal.                       *)
(***************************************************************************)
EXTENDS FiniteSets

CONSTANTS
    Process,        \* oracle services
    Handler,        \* requests that carry a payment
    Payment,        \* signed payments
    NoPayment, NoProcess

ASSUME GateAssumption == NoPayment \notin Payment /\ NoProcess \notin Process

VARIABLES
    request,        \* request[h]: the handler of a request
    journal,        \* journal[x]: the file of a payment
    senders,        \* senders[x]: the handlers that submitted a payment
    tx,             \* tx[x]: the ledger's view of a payment
    signed          \* handlers that signed a payout

vars == <<request, journal, senders, tx, signed>>
ledger == <<senders, tx>>

TxState == {"none", "sent", "landed", "void"}

(***************************************************************************)
(* Points of a handler:                                                    *)
(*   verify     the policy and the payment are checked                     *)
(*   attest     the catalogue is asked                                     *)
(*   authorize  the payment is checked again                               *)
(*   journal    its file is about to be created                            *)
(*   send       the facilitator is about to be asked to settle             *)
(*   receipt    waiting for its answer                                     *)
(*   confirm    the file is about to be replaced                           *)
(*   sign       the payout is about to be signed                           *)
(*   serve      the answer is about to be given                            *)
(* and its ends: declined tells that nothing was submitted, refused does   *)
(* not, dead tells nothing.                                                *)
(***************************************************************************)
Point == {"new", "verify", "attest", "authorize", "journal", "send", "receipt",
          "confirm", "sign", "serve", "declined", "refused", "answered", "dead"}
End == {"declined", "refused", "answered", "dead"}
Evidence == {"unknown", "match", "no match"}

Goto(h, point) == request' = [request EXCEPT ![h].at = point]

-----------------------------------------------------------------------------
(* Variants of the actions, each with one plausible mistake *)

\* The file is opened for writing, whether it exists or not.
ClaimShared(h) ==
    /\ request[h].at = "journal"
    /\ journal' = [journal EXCEPT ![request[h].payment] = "pending"]
    /\ Goto(h, "send")
    /\ UNCHANGED <<ledger, signed>>

\* A catalogue that cannot answer is noticed after the payment.
SourceUnavailableLate(h) ==
    /\ request[h].at = "confirm"
    /\ Goto(h, "declined")
    /\ UNCHANGED <<journal, ledger, signed>>

\* A catalogue that cannot answer is carried on with.
AttestUnavailable(h, found) ==
    /\ request[h].at = "attest"
    /\ request' = [request EXCEPT ![h].at = "authorize", ![h].evidence = "unavailable"]
    /\ UNCHANGED <<journal, ledger, signed>>

-----------------------------------------------------------------------------
Init ==
    /\ request = [h \in Handler |-> [at |-> "new", process |-> NoProcess,
                                     payment |-> NoPayment, evidence |-> "unknown"]]
    /\ journal = [x \in Payment |-> "none"]
    /\ senders = [x \in Payment |-> {}]
    /\ tx = [x \in Payment |-> "none"]
    /\ signed = {}

-----------------------------------------------------------------------------
(* A request *)

Arrive(h, p, x) ==
    /\ request[h].at = "new"
    /\ request' = [request EXCEPT ![h].at = "verify", ![h].process = p,
                                  ![h].payment = x]
    /\ UNCHANGED <<journal, ledger, signed>>

\* The policy's terms, the payment itself, and the facilitator's opinion.
Verify(h) ==
    /\ request[h].at = "verify"
    /\ Goto(h, "attest")
    /\ UNCHANGED <<journal, ledger, signed>>

\* charge tells the client of a payment that is not valid that it was not
\* submitted.
VerifyFails(h) ==
    /\ request[h].at = "verify"
    /\ Goto(h, "declined")
    /\ UNCHANGED <<journal, ledger, signed>>

Attest(h, found) ==
    /\ request[h].at = "attest"
    /\ request' = [request EXCEPT ![h].at = "authorize", ![h].evidence = found]
    /\ UNCHANGED <<journal, ledger, signed>>

\* beforeSettle declines.
SourceUnavailable(h) ==
    /\ request[h].at = "attest"
    /\ Goto(h, "declined")
    /\ UNCHANGED <<journal, ledger, signed>>

-----------------------------------------------------------------------------
(* settle *)

Authorize(h) ==
    /\ request[h].at = "authorize"
    /\ Goto(h, "journal")
    /\ UNCHANGED <<journal, ledger, signed>>

\* The exclusive creation of the payment's file.
Claim(h) ==
    /\ request[h].at = "journal"
    /\ journal[request[h].payment] = "none"
    /\ journal' = [journal EXCEPT ![request[h].payment] = "pending"]
    /\ Goto(h, "send")
    /\ UNCHANGED <<ledger, signed>>

AlreadyAttempted(h) ==
    /\ request[h].at = "journal"
    /\ journal[request[h].payment] # "none"
    /\ Goto(h, "refused")
    /\ UNCHANGED <<journal, ledger, signed>>

Send(h) ==
    /\ request[h].at = "send"
    /\ senders' = [senders EXCEPT ![request[h].payment] = @ \cup {h}]
    /\ tx' = [tx EXCEPT ![request[h].payment] = IF @ = "none" THEN "sent" ELSE @]
    /\ Goto(h, "receipt")
    /\ UNCHANGED <<journal, signed>>

\* The facilitator reports success of this transaction.
Receipt(h) ==
    /\ request[h].at = "receipt"
    /\ tx[request[h].payment] = "landed"
    /\ Goto(h, "confirm")
    /\ UNCHANGED <<journal, ledger, signed>>

\* The payout is signed if the client asked for it and the evidence qualifies.
Confirm(h) ==
    /\ request[h].at = "confirm"
    /\ journal' = [journal EXCEPT ![request[h].payment] = "confirmed"]
    /\ \/ Goto(h, "serve")
       \/ request[h].evidence = "match" /\ Goto(h, "sign")
    /\ UNCHANGED <<ledger, signed>>

Sign(h) ==
    /\ request[h].at = "sign"
    /\ signed' = signed \cup {h}
    /\ Goto(h, "serve")
    /\ UNCHANGED <<journal, ledger>>

\* The answer was paid for and is given all the same, also when the quorum is
\* already complete.
SignFails(h) ==
    /\ request[h].at = "sign"
    /\ Goto(h, "serve")
    /\ UNCHANGED <<journal, ledger, signed>>

Serve(h) ==
    /\ request[h].at = "serve"
    /\ Goto(h, "answered")
    /\ UNCHANGED <<journal, ledger, signed>>

\* Bad headers and terms, a second check that fails, a full disk, a limit, a
\* timeout, an answer about something else.
Refuse(h) ==
    /\ request[h].at \in {"verify", "authorize", "journal", "send", "receipt", "confirm"}
    /\ Goto(h, "refused")
    /\ UNCHANGED <<journal, ledger, signed>>

-----------------------------------------------------------------------------
(* The environment *)

Crash(p) ==
    /\ \E h \in Handler : request[h].process = p /\ request[h].at \notin End
    /\ request' = [h \in Handler |->
                     IF request[h].process = p /\ request[h].at \notin End
                     THEN [request[h] EXCEPT !.at = "dead"] ELSE request[h]]
    /\ UNCHANGED <<journal, ledger, signed>>

Land(x) ==
    /\ tx[x] = "sent"
    /\ tx' = [tx EXCEPT ![x] = "landed"]
    /\ UNCHANGED <<request, journal, senders, signed>>

Void(x) ==
    /\ tx[x] = "sent"
    /\ tx' = [tx EXCEPT ![x] = "void"]
    /\ UNCHANGED <<request, journal, senders, signed>>

Step(h) ==
    \/ \E p \in Process, x \in Payment : Arrive(h, p, x)
    \/ Verify(h) \/ VerifyFails(h)
    \/ \E found \in {"match", "no match"} : Attest(h, found)
    \/ SourceUnavailable(h)
    \/ Authorize(h) \/ Claim(h) \/ AlreadyAttempted(h) \/ Send(h) \/ Receipt(h)
    \/ Confirm(h) \/ Sign(h) \/ SignFails(h) \/ Serve(h) \/ Refuse(h)

Next ==
    \/ \E h \in Handler : Step(h)
    \/ \E p \in Process : Crash(p)
    \/ \E x \in Payment : Land(x) \/ Void(x)

Spec == Init /\ [][Next]_vars

-----------------------------------------------------------------------------
TypeOK ==
    /\ request \in [Handler -> [at : Point, process : Process \cup {NoProcess},
                                payment : Payment \cup {NoPayment},
                                evidence : Evidence]]
    /\ journal \in [Payment -> {"none", "pending", "confirmed"}]
    /\ senders \in [Payment -> SUBSET Handler]
    /\ tx \in [Payment -> TxState]
    /\ signed \in SUBSET Handler

\* A payment buys one answer: of all requests it is offered with, to whatever
\* process and across restarts, one at most is answered or signed for.
AnsweredOnce ==
    \A g, h \in Handler :
        /\ request[g].payment = request[h].payment
        /\ request[g].at = "answered" \/ g \in signed
        /\ request[h].at = "answered" \/ h \in signed
        => g = h

\* An oracle signs a payout only for evidence it has just read itself, and
\* after it was paid for it.
SignedOnEvidence ==
    \A h \in signed :
        request[h].evidence = "match" /\ tx[request[h].payment] = "landed"

\* What a payment buys of a service (src/x402/gate.js, src/oracle/service.js): one answer
\* or signature at most, and a signature only for a match and after it was paid.
AnswersAreEarned == AnsweredOnce /\ SignedOnEvidence

\* The services keep PaidAnswer: one submission of a payment, answers after its
\* execution, and nothing submitted for what is declined.
Told(h) ==
    LET at == request[h].at IN
    IF at = "new" THEN "unasked"
    ELSE IF at \in {"declined", "answered"} THEN at
    ELSE IF at \in {"refused", "dead"} THEN "refused"
    ELSE "waiting"

Promise == INSTANCE PaidAnswer WITH
    Ask <- Handler,
    offer <- [h \in Handler |-> request[h].payment],
    told <- [h \in Handler |-> Told(h)]

KeepsPaidAnswer == Promise!Spec

-----------------------------------------------------------------------------
(***************************************************************************)
(* The inductive invariant: a payment without a file has not been touched, *)
(* and past the creation of its file a single handler has ever been.       *)
(***************************************************************************)
Claimed == {"send", "receipt", "confirm", "sign", "serve", "answered"}

Untouched ==
    \A x \in Payment :
        journal[x] = "none" =>
            /\ senders[x] = {} /\ tx[x] = "none"
            /\ \A h \in Handler : request[h].payment = x => request[h].at \notin Claimed

OneClaim ==
    \A x \in Payment, g, h \in Handler :
        /\ request[g].payment = x /\ (request[g].at \in Claimed \/ g \in senders[x])
        /\ request[h].payment = x /\ (request[h].at \in Claimed \/ h \in senders[x])
        => g = h

Sent ==
    \A x \in Payment : \A h \in senders[x] :
        /\ request[h].payment = x
        /\ request[h].at \in {"receipt", "confirm", "sign", "serve", "answered",
                              "refused", "dead"}

Progress ==
    \A h \in Handler :
        /\ request[h].at = "new" <=> request[h].payment = NoPayment
        /\ request[h].at = "new" => request[h].process = NoProcess
        /\ request[h].at = "send" => senders[request[h].payment] = {}
                                     /\ tx[request[h].payment] = "none"
        /\ request[h].at \in Claimed \ {"send"} => h \in senders[request[h].payment]
        /\ request[h].at \in {"confirm", "sign", "serve", "answered"} =>
             tx[request[h].payment] = "landed"
        /\ request[h].at = "sign" => request[h].evidence = "match"
        /\ h \in signed => /\ request[h].at \in {"serve", "answered", "dead"}
                           /\ request[h].evidence = "match"
                           /\ request[h].payment # NoPayment
                           /\ h \in senders[request[h].payment]
                           /\ tx[request[h].payment] = "landed"

GateInv == TypeOK /\ Untouched /\ OneClaim /\ Sent /\ Progress
=============================================================================
