---------------------------- MODULE PoolPromise ----------------------------
(***************************************************************************)
(* What the pool promises its policy holders (the header of                *)
(* src/pool/solvency.js): it never owes more than it holds, so that every  *)
(* promised payout, in whatever order they fall due, can be paid in full.  *)
(***************************************************************************)
EXTENDS PromiseTotals

VARIABLES
    capital,        \* what the pool holds
    promised        \* what it owes on each request, 0 for nothing

Init == capital \in Nat /\ promised = [r \in Request |-> 0]

\* Promise u on request r, out of capital that nothing else is promised from.
Promise(r, u) ==
    /\ promised[r] = 0
    /\ Total(promised) + u <= capital
    /\ promised' = [promised EXCEPT ![r] = u]
    /\ UNCHANGED capital

\* Pay a promise, in full.
Keep(r) ==
    /\ promised[r] > 0
    /\ promised[r] <= capital
    /\ capital' = capital - promised[r]
    /\ promised' = [promised EXCEPT ![r] = 0]

\* Promises lapse unpaid at the end of their term.
Lapse ==
    /\ \E S \in SUBSET Request : promised' = Within(S, promised)
    /\ UNCHANGED capital

\* Deposits and premiums come in.
Grow == capital' \in Nat /\ capital' >= capital /\ UNCHANGED promised

Next ==
    \/ \E r \in Request, u \in 1..MaxUnits : Promise(r, u)
    \/ \E r \in Request : Keep(r)
    \/ Lapse
    \/ Grow

Spec == Init /\ [][Next]_<<capital, promised>>
=============================================================================
