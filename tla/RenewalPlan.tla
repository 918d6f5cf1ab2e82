---------------------------- MODULE RenewalPlan ----------------------------
(***************************************************************************)
(* What an approved mandate allows (docs/COVER-AGENT.md): at most one      *)
(* policy for each monthly cycle, the cycles in order, and no two policies *)
(* in force at the same time.                                              *)
(***************************************************************************)
EXTENDS Naturals

CONSTANTS
    Cycle,          \* the mandate's cycles, numbered from 0
    NoCover         \* nothing was bought for a cycle

VARIABLE cover      \* what was bought for each cycle: when it starts and ends

Init == cover = [c \in Cycle |-> NoCover]

\* Buy for cycle c a policy in force from `from` to `to`.
Buy(c, from, to) ==
    /\ cover[c] = NoCover
    /\ \A d \in Cycle : cover[d] # NoCover => d < c /\ cover[d].to <= from
    /\ from < to
    /\ cover' = [cover EXCEPT ![c] = [from |-> from, to |-> to]]

\* The bounds of what is bought are given by the step itself.
Next == \E c \in Cycle : /\ cover'[c] # NoCover
                         /\ cover'[c].from \in Nat
                         /\ cover'[c].to \in Nat
                         /\ Buy(c, cover'[c].from, cover'[c].to)

Spec == Init /\ [][Next]_cover
=============================================================================
