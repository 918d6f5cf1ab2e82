----------------------------- MODULE PaidAnswer -----------------------------
(***************************************************************************)
(* What a paid resource promises those who ask it: a payment offered with  *)
(* a request is submitted at most once, whoever offers it; a request is    *)
(* answered only after the payment it submitted itself was executed; and   *)
(* one that is declined has not submitted its payment and will not.  A     *)
(* refusal, or no answer at all, says nothing.                             *)
(***************************************************************************)
CONSTANTS
    Ask,            \* requests
    Payment,        \* signed payments
    NoPayment

VARIABLES
    offer,          \* offer[h]: the payment that came with a request
    told,           \* told[h]: what the asker was told
    senders,        \* senders[x]: the requests that submitted a payment
    tx              \* tx[x]: the ledger's view of a payment

vars == <<offer, told, senders, tx>>

TxState == {"none", "sent", "landed", "void"}
Reply == {"unasked", "waiting", "declined", "refused", "answered"}

TypeOK ==
    /\ offer \in [Ask -> Payment \cup {NoPayment}]
    /\ told \in [Ask -> Reply]
    /\ senders \in [Payment -> SUBSET Ask]
    /\ tx \in [Payment -> TxState]

Init ==
    /\ offer = [h \in Ask |-> NoPayment]
    /\ told = [h \in Ask |-> "unasked"]
    /\ senders = [x \in Payment |-> {}]
    /\ tx = [x \in Payment |-> "none"]

Present(h, x) ==
    /\ told[h] = "unasked"
    /\ offer' = [offer EXCEPT ![h] = x]
    /\ told' = [told EXCEPT ![h] = "waiting"]
    /\ UNCHANGED <<senders, tx>>

Submit(h) ==
    /\ told[h] = "waiting"
    /\ senders[offer[h]] = {}
    /\ senders' = [senders EXCEPT ![offer[h]] = {h}]
    /\ tx' = [tx EXCEPT ![offer[h]] = "sent"]
    /\ UNCHANGED <<offer, told>>

Decline(h) ==
    /\ told[h] = "waiting"
    /\ h \notin senders[offer[h]]
    /\ told' = [told EXCEPT ![h] = "declined"]
    /\ UNCHANGED <<offer, senders, tx>>

\* Several at once when a process dies.
Refuse(lost) ==
    /\ \A h \in lost : told[h] = "waiting"
    /\ told' = [h \in Ask |-> IF h \in lost THEN "refused" ELSE told[h]]
    /\ UNCHANGED <<offer, senders, tx>>

Answer(h) ==
    /\ told[h] = "waiting"
    /\ h \in senders[offer[h]]
    /\ tx[offer[h]] = "landed"
    /\ told' = [told EXCEPT ![h] = "answered"]
    /\ UNCHANGED <<offer, senders, tx>>

Land(x) ==
    /\ tx[x] = "sent"
    /\ tx' = [tx EXCEPT ![x] = "landed"]
    /\ UNCHANGED <<offer, told, senders>>

Void(x) ==
    /\ tx[x] = "sent"
    /\ tx' = [tx EXCEPT ![x] = "void"]
    /\ UNCHANGED <<offer, told, senders>>

Next ==
    \/ \E h \in Ask, x \in Payment : Present(h, x)
    \/ \E h \in Ask : Submit(h) \/ Decline(h) \/ Answer(h)
    \/ \E lost \in SUBSET Ask : Refuse(lost)
    \/ \E x \in Payment : Land(x) \/ Void(x)

Spec == Init /\ [][Next]_vars
=============================================================================
