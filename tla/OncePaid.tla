------------------------------ MODULE OncePaid ------------------------------
(***************************************************************************)
(* What every payer of this system promises: a payment is submitted at     *)
(* most once, whatever is lost or restarted, and it is reported as made    *)
(* only after the ledger has executed it.                                  *)
(***************************************************************************)
EXTENDS Naturals

CONSTANT Payment            \* the payments that may be asked for

VARIABLES
    submitted,              \* how often each payment was submitted
    executed,               \* payments the ledger has executed
    reported                \* payments reported as made

Init ==
    /\ submitted = [p \in Payment |-> 0]
    /\ executed = {}
    /\ reported = {}

Submit(p) ==
    /\ submitted[p] = 0
    /\ submitted' = [submitted EXCEPT ![p] = 1]
    /\ UNCHANGED <<executed, reported>>

Execute(p) ==
    /\ submitted[p] = 1
    /\ p \notin executed
    /\ executed' = executed \cup {p}
    /\ UNCHANGED <<submitted, reported>>

Report(p) ==
    /\ p \in executed \ reported
    /\ reported' = reported \cup {p}
    /\ UNCHANGED <<submitted, executed>>

Next == \E p \in Payment : Submit(p) \/ Execute(p) \/ Report(p)

Spec == Init /\ [][Next]_<<submitted, executed, reported>>
=============================================================================
