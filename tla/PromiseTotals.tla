--------------------------- MODULE PromiseTotals ---------------------------
(***************************************************************************)
(* Sums of promised amounts.  Total(f) is the sum of f over Request,       *)
(* written as the size of the set of single units promised, so that facts  *)
(* about it follow from facts about finite sets.                           *)
(***************************************************************************)
EXTENDS Naturals, FiniteSets

CONSTANTS
    Request,        \* request identifiers
    MaxUnits        \* the largest payout of one policy

ASSUME TotalsAssumption ==
    /\ IsFiniteSet(Request)
    /\ MaxUnits \in Nat \ {0}

Amount == 0..MaxUnits

\* The units promised under f, each named by its request and its number.
Units(f) == {u \in Request \X (1..MaxUnits) : u[2] <= f[u[1]]}

Total(f) == Cardinality(Units(f))

\* f where S holds, nothing elsewhere.
Within(S, f) == [r \in Request |-> IF r \in S THEN f[r] ELSE 0]
=============================================================================
