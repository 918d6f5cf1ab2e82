------------------------------- MODULE Pricing -------------------------------
(***************************************************************************)
(* What a cover costs: the hazard model (src/pricing/hazard.js), the       *)
(* decision to underwrite (src/pricing/underwrite.js), the units it        *)
(* settles in (src/asset.js, src/pricing/fx.js), the split of a premium    *)
(* (src/policy/purchase.js), and the copy of the model the browser runs    *)
(* over its frozen catalogue (ui/src/lib/hazard.ts).                       *)
(* Rates and probabilities are in millionths, premiums in cents, covers in *)
(* dollars; 1 - e^-x is its first three terms, which for every place and   *)
(* window here is exact to a millionth.                                    *)
(***************************************************************************)
EXTENDS Integers, Sequences, FiniteSets

Million == 1000000
None == -1
Infinity == 100 * Million

\* hazard.js:27-40: kilometres, the window and loss ratio, and standard errors charged.
MODEL == [referenceKm |-> 300, triggerKm |-> 100, minMagnitude |-> 6, maxDepthKm |-> 70,
          days |-> 30, z |-> 1]
MAX_DAYS == 62
MaxCount == 120

\* Of a loss ratio of one half.
OverLossRatio(x) == 2 * x
IssueCost == 10
MinimumPremium == OverLossRatio(IssueCost)

\* Half a unit rounds up.
Rounded(x, by) == (2 * x + by) \div (2 * by)

-----------------------------------------------------------------------------
\* The events the agent counts: [km, north (tenths of a degree), mag, depth, year].
CatalogueCount(record) ==
    Cardinality({e \in record : /\ e.mag >= MODEL.minMagnitude /\ e.depth <= MODEL.maxDepthKm
                                /\ e.km <= MODEL.referenceKm})

\* 1 / sqrt(n), in thousandths.
InvRoot(k, n) == k * k * n <= Million /\ (k + 1) * (k + 1) * n > Million
RelativeError == [n \in 1..MaxCount |-> CHOOSE k \in 0..1000 : InvRoot(k, n)]

Lambda(n, years) ==
    (n * Million) \div (years * ((MODEL.referenceKm * MODEL.referenceKm) \div (MODEL.triggerKm * MODEL.triggerKm)))

LambdaPriced(n, years) ==
    IF n = 0 THEN 0
    ELSE LET l == Lambda(n, years) IN l + (l * MODEL.z * RelativeError[n]) \div 1000

Probability(lambda, days) ==
    LET x == (lambda * days) \div 365
    IN  x - (x * x) \div (2 * Million) + (((x * x) \div Million) * x) \div (6 * Million)

ExpectedLoss(lambda, payout, days) == (payout * Probability(lambda, days)) \div 10000

Premium(lambda, payout, days) == OverLossRatio(payout * Probability(lambda, days)) \div 10000

CoverForBudget(lambda, budget, days) ==
    LET p == Probability(lambda, days)
    IN  IF p <= 0 THEN Infinity ELSE (budget * (Million \div OverLossRatio(1))) \div p

-----------------------------------------------------------------------------
Refused(reason) == [ok |-> FALSE, reason |-> reason, premium |-> 0, payout |-> 0, expectedLoss |-> 0]

\* For a payout the premium floats, for a budget the cover.
Underwrite(n, lambda, ask) ==
    LET payout == IF ask.payout # None THEN ask.payout ELSE CoverForBudget(lambda, ask.budget, ask.days)
        premium == IF ask.payout # None THEN Premium(lambda, payout, ask.days) ELSE 100 * ask.budget
    IN  CASE ask.days > MAX_DAYS -> Refused("window_too_long")
          [] ask.days <= MAX_DAYS /\ n = 0 -> Refused("no_record")
          [] ask.days <= MAX_DAYS /\ n > 0 /\ premium < MinimumPremium -> Refused("below_viability")
          [] OTHER -> [ok |-> TRUE, reason |-> "none", premium |-> premium, payout |-> payout,
                       expectedLoss |-> ExpectedLoss(lambda, payout, ask.days)]

ValidQuote(budget, days) == budget \in 1..50 /\ days \in 7..62

\* A quote of the host: for a budget, from the record as it is read.
QuotePolicy(n, years, budget, days) ==
    IF ~ValidQuote(budget, days) THEN Refused("invalid_input")
    ELSE Underwrite(n, LambdaPriced(n, years), [payout |-> None, budget |-> budget, days |-> days])

-----------------------------------------------------------------------------
\* The price of an HBAR, in cents: of the first source that has one; None: of neither.
HbarUsd(prices) ==
    IF prices[1] > 0 THEN prices[1] ELSE IF prices[2] > 0 THEN prices[2] ELSE None

\* Which token: an override, a variable of the process, the registry's; with none it is HBAR.
SettlementAsset(override, fromEnv, registered) ==
    CASE override = "HBAR" -> "hbar"
      [] override = "USDC" -> "usdc"
      [] override \notin {"HBAR", "USDC", "none"} -> override
      [] override = "none" /\ fromEnv # "none" -> fromEnv
      [] override = "none" /\ fromEnv = "none" /\ registered # "none" -> registered
      [] OTHER -> "hbar"

\* A cent is UnitsPerCent of a dollar token; of HBAR what its price makes of it.
UnitsPerCent == 100
ToUnits(cents, asset, rate) ==
    IF asset = "hbar" THEN Rounded(cents * UnitsPerCent, rate) ELSE cents * UnitsPerCent

-----------------------------------------------------------------------------
CommissionBps == 1500

\* The transfers of a sale, all or none of which settle: who, and what is added to it.
Transfers(premium, broker) ==
    LET commission == IF broker THEN Rounded(premium * CommissionBps, 10000) ELSE 0
        toPool == premium - commission
    IN  <<[who |-> "buyer", units |-> -toPool], [who |-> "pool", units |-> toPool]>>
        \o IF broker /\ commission > 0
           THEN <<[who |-> "buyer", units |-> -commission], [who |-> "broker", units |-> commission]>>
           ELSE <<>>

-----------------------------------------------------------------------------
(* The browser's copy *)

\* The catalogue the page is built with.
Frozen(record, fetched) ==
    {e \in record : e.mag >= 6 /\ e.depth <= 70 /\ e.year <= fetched}

\* A reject by latitude comes before the distance.
Around(frozen, minMag) ==
    {e \in frozen : e.mag >= minMag /\ e.north <= 28 /\ -e.north <= 28 /\ e.km <= MODEL.referenceKm}

\* What it shows for a budget, of the record as it stood at the end of a year.
Estimate(nearby, at, budget, days) ==
    LET n == Cardinality({e \in nearby : e.year <= at})
    IN  [count |-> n, cover |-> CoverForBudget(LambdaPriced(n, at - 1969), budget, days)]

\* The chart: the premium of a fixed cover, year by year; the last year ends when the
\* catalogue was fetched.
PriceHistory(nearby, payout, days, from, fetched) ==
    [y \in from..fetched |->
        LET n == Cardinality({e \in nearby : e.year <= y})
        IN  Premium(LambdaPriced(n, y - 1969), payout, days)]
=============================================================================
