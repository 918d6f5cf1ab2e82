---------------------------- MODULE PricingCases ----------------------------
(***************************************************************************)
(* What the prices are for: counts of one event to more than any place     *)
(* has, budgets and windows at and between their limits, sales with and    *)
(* without a broker, and a record with an event on each side of every      *)
(* limit of the two models.                                                *)
(***************************************************************************)
EXTENDS Pricing, FiniteSetsExt

Counts == {1, 2, 3, 4, 12, 50, 103, MaxCount}
Windows == {7, 30, MAX_DAYS}
Budgets == {1, 4, 50}
Years == 57

CoverOf(n, budget, days) == QuotePolicy(n, Years, budget, days).payout

\* Whatever is quoted can be kept: the cover is finite, the premium is the budget, its half
\* pays the expected loss and the rest the issue.
QuotesPay ==
    \A n \in Counts \cup {0}, b \in Budgets \cup {0, 51}, d \in Windows \cup {6, 63} :
        LET q == QuotePolicy(n, Years, b, d) IN
        /\ q.ok = (n > 0 /\ ValidQuote(b, d))
        /\ q.ok => /\ q.payout \in 1..(Infinity - 1) /\ q.premium = 100 * b
                   /\ q.expectedLoss + IssueCost <= q.premium

\* A fixed cover the same, however small the risk: it is refused before it is given away.
CoversPay ==
    \A n \in Counts \cup {0}, c \in {1, 50, 800, 5000}, d \in Windows :
        LET q == Underwrite(n, LambdaPriced(n, Years), [payout |-> c, budget |-> None, days |-> d]) IN
        q.ok => q.premium >= MinimumPremium /\ q.expectedLoss + IssueCost <= q.premium

\* The cover a budget buys costs that budget, to the cent the rounding takes.
BudgetIsInverse ==
    \A n \in Counts, b \in Budgets, d \in Windows :
        LET back == Premium(LambdaPriced(n, Years), CoverOf(n, b, d), d)
        IN  back <= 100 * b /\ 100 * b - back <= 2 + Probability(LambdaPriced(n, Years), d) \div 5000

\* More events, or a longer window, buy less; more money buys more.
CoverShrinksWithRisk ==
    \A n, m \in Counts, b \in Budgets, c, d \in Windows :
        /\ n < m => CoverOf(n, b, d) > CoverOf(m, b, d)
        /\ c < d => CoverOf(n, b, c) > CoverOf(n, b, d)
        /\ b < 50 => CoverOf(n, b, d) < CoverOf(n, b + 1, d)

\* A thin record is charged more for each event it has.
LoadingFades ==
    \A n, m \in Counts : n < m => RelativeError[n] > RelativeError[m]

-----------------------------------------------------------------------------
\* The sale moves the premium and nothing else, and what reaches the pool pays its loss.
SaleBalances ==
    \A b \in Budgets, broker \in BOOLEAN :
        \A units \in {ToUnits(100 * b, "demo", None), ToUnits(100 * b, "hbar", 7), 1, 3} :
            LET legs == Transfers(units, broker)
                Of(who) == MapThenSumSet(LAMBDA i : IF legs[i].who = who THEN legs[i].units ELSE 0, DOMAIN legs)
            IN  /\ Of("buyer") + Of("pool") + Of("broker") = 0
                /\ Of("buyer") = -units /\ Of("broker") >= 0 /\ 2 * Of("pool") >= units
                /\ ~broker => Of("pool") = units

\* Only a network with no token anywhere settles in HBAR unasked.
AssetsResolve ==
    /\ \A env, reg \in {"none", "demo"} :
        SettlementAsset("none", env, reg) = "hbar" <=> env = "none" /\ reg = "none"
    /\ \A first, second \in {0, 7} : HbarUsd(<<first, second>>) = None <=> first = 0 /\ second = 0

-----------------------------------------------------------------------------
\* A degree is 111 kilometres, so an event lies at least that far for every one.
Records ==
    {[km |-> k, north |-> n, mag |-> m, depth |-> d, year |-> y] :
        k \in {60, 300, 301}, n \in {-28, -27, 0, 5}, m \in {5, 6, 7}, d \in {70, 71}, y \in {2000, 2026}}
Record == {e \in Records : 10 * e.km >= 111 * e.north /\ 10 * e.km >= -111 * e.north}

Fetched == 2026
Nearby == Around(Frozen(Record, Fetched), MODEL.minMagnitude)

\* The page, at its defaults, shows what the agent quotes of the same record; its latitude
\* reject loses nothing; and the chart ends at the price it shows.
BrowserAgrees ==
    /\ Cardinality(Nearby) = CatalogueCount(Record)
    /\ \A b \in Budgets, d \in Windows :
        LET shown == Estimate(Nearby, Fetched, b, d) IN
        /\ shown.count > 0
        /\ shown.cover = QuotePolicy(CatalogueCount(Record), Fetched - 1969, b, d).payout
    /\ \A d \in Windows :
        LET n == Cardinality(Nearby) IN
        PriceHistory(Nearby, 800, d, 1990, Fetched)[Fetched] = Premium(LambdaPriced(n, Fetched - 1969), 800, d)

PricesAreSound ==
    /\ QuotesPay /\ CoversPay /\ BudgetIsInverse /\ CoverShrinksWithRisk /\ LoadingFades
    /\ SaleBalances /\ AssetsResolve /\ BrowserAgrees
=============================================================================
