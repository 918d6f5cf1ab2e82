----------------------------- MODULE QuotePanel -----------------------------
(***************************************************************************)
(* From the sliders to the sale (ui/src/app/QuotePanel.tsx): a quote is    *)
(* asked for a moment after an input changes, answers come in any order,   *)
(* and the server prices a purchase again, from the record as it then is   *)
(* (src/policy/issue.js).  A changed input is a new request; when the      *)
(* agent comes back online the panel quotes again, whatever it was doing.  *)
(***************************************************************************)
EXTENDS PricingCases

CONSTANTS
    Inputs,        \* budget and days, as the sliders give them
    FirstCount,    \* events on record at first ...
    LastCount,     \* ... and at last: the catalogue only grows
    MaxAsks        \* bound: quotes asked for at once

QuotesAssumption ==
    /\ Inputs # {} /\ \A i \in Inputs : ValidQuote(i.budget, i.days)
    /\ FirstCount \in Nat /\ LastCount \in FirstCount..MaxCount /\ MaxAsks \in Nat

VARIABLES
    onRecord,      \* events the catalogue has near the place
    input,         \* what the sliders say
    due,           \* the timer that will ask
    asks,          \* quotes on their way: for which input, read at which count, still current
    view,          \* the panel: "loading", "quoted", "declined", "issuing", "held", "uncertain"
    quoted,        \* the input and the decision shown
    posts,         \* purchases sent and not answered: of this request, of an older one
    agreed,        \* what was shown when the visitor first bought under this request
    sold           \* what its policy was issued for

quoteVars == <<onRecord, input, due, asks, view, quoted, posts, agreed, sold>>

NoQuote == [for |-> [budget |-> 0, days |-> 0], premium |-> 0, payout |-> 0]
Priced(i, n) == QuotePolicy(n, Years, i.budget, i.days)
Terms(i, q) == [for |-> i, premium |-> q.premium, payout |-> q.payout]

Init ==
    /\ onRecord = FirstCount /\ input = (CHOOSE i \in Inputs : TRUE)
    /\ due = TRUE /\ asks = {} /\ view = "loading" /\ quoted = NoQuote
    /\ posts = {} /\ agreed = NoQuote /\ sold = NoQuote

Recorded ==
    /\ onRecord < LastCount /\ onRecord' = onRecord + 1
    /\ UNCHANGED <<input, due, asks, view, quoted, posts, agreed, sold>>

\* The effect runs again: what was asked before is not current any more.
Requote ==
    /\ view' = "loading" /\ quoted' = NoQuote /\ due' = TRUE
    /\ asks' = {[a EXCEPT !.current = FALSE] : a \in asks}

\* The sliders are there unless a purchase is sent, made or in doubt.
Slide(i) ==
    /\ view \in {"loading", "quoted", "declined"} /\ i # input
    /\ input' = i /\ Requote
    /\ posts' = IF posts = {} THEN {} ELSE {"older"}
    /\ agreed' = NoQuote /\ sold' = NoQuote /\ UNCHANGED onRecord

\* "Refresh quote", or the agent is reached again after it was not.
QuoteAnew == ~due /\ Requote /\ UNCHANGED <<onRecord, input, posts, agreed, sold>>

\* 250 ms after the last change.
Ask ==
    /\ due /\ Cardinality(asks) < MaxAsks
    /\ due' = FALSE /\ asks' = asks \cup {[for |-> input, seen |-> None, current |-> TRUE]}
    /\ UNCHANGED <<onRecord, input, view, quoted, posts, agreed, sold>>

Read(a) ==
    /\ a.seen = None
    /\ asks' = (asks \ {a}) \cup {[a EXCEPT !.seen = onRecord]}
    /\ UNCHANGED <<onRecord, input, due, view, quoted, posts, agreed, sold>>

\* A mutant: an answer is shown, whatever it was asked for.
ShownWhenever(a) == TRUE

\* An answer to an older question is dropped.
Shown(a) == a.current

\* The answer, or that there is none: the service is not reachable.
Answered(a, reached) ==
    LET q == Priced(a.for, a.seen) IN
    /\ reached => a.seen # None
    /\ asks' = asks \ {a}
    /\ IF ~Shown(a) THEN UNCHANGED <<view, quoted>>
       ELSE IF reached /\ q.ok THEN view' = "quoted" /\ quoted' = Terms(a.for, q)
       ELSE view' = "declined" /\ quoted' = NoQuote
    /\ UNCHANGED <<onRecord, input, due, posts, agreed, sold>>

Buy ==
    /\ view = "quoted" /\ view' = "issuing" /\ posts' = posts \cup {"this"}
    /\ agreed' = IF agreed = NoQuote THEN quoted ELSE agreed
    /\ UNCHANGED <<onRecord, input, due, asks, quoted, sold>>

\* The server prices what was sent again, and refuses or sells; once for a request.
Sell ==
    /\ "this" \in posts /\ sold = NoQuote
    /\ LET q == Priced(input, onRecord) IN q.ok /\ sold' = Terms(input, q)
    /\ UNCHANGED <<onRecord, input, due, asks, view, quoted, posts, agreed>>

\* The answer of a purchase: a policy, a refusal, or none; VisitorRequests has the rest.
Told(post, outcome) ==
    /\ post \in posts /\ posts' = posts \ {post}
    /\ post = "this" => (outcome = "held" => sold # NoQuote) /\ (outcome = "declined" => sold = NoQuote)
    /\ view' = outcome /\ quoted' = NoQuote
    /\ UNCHANGED <<onRecord, input, due, asks, agreed, sold>>

Next ==
    \/ Recorded
    \/ \E i \in Inputs : Slide(i)
    \/ QuoteAnew
    \/ Ask
    \/ \E a \in asks : Read(a) \/ \E reached \in BOOLEAN : Answered(a, reached)
    \/ Buy
    \/ Sell
    \/ \E post \in posts : \E outcome \in {"held", "declined", "uncertain"} : Told(post, outcome)

-----------------------------------------------------------------------------
TypeOK ==
    /\ onRecord \in FirstCount..LastCount /\ input \in Inputs /\ due \in BOOLEAN
    /\ asks \subseteq [for : Inputs, seen : {None} \cup FirstCount..LastCount, current : BOOLEAN]
    /\ view \in {"loading", "quoted", "declined", "issuing", "held", "uncertain"}
    /\ posts \subseteq {"this", "older"}
    /\ \A t \in {quoted, agreed, sold} : t = NoQuote \/ t.for \in Inputs

\* What the visitor agrees to is for the sliders it sees, and is what is sold: at that
\* premium, for that window, and for less cover only if events were recorded meanwhile.
SoldAsShown ==
    /\ view = "quoted" => quoted.for = input
    /\ sold # NoQuote =>
        /\ sold.for = agreed.for /\ sold.premium = agreed.premium
        /\ sold.payout <= agreed.payout
        /\ onRecord = FirstCount => sold.payout = agreed.payout

-----------------------------------------------------------------------------
(***************************************************************************)
(* The inductive invariant.                                                *)
(***************************************************************************)
\* What a quote says of the sliders, read at a count there has been.
AsOf(t, n) == Priced(input, n).ok /\ t = Terms(input, Priced(input, n))
Counted == FirstCount..onRecord

\* An answer that will be shown is to what the sliders say; what is shown and what was bought
\* was read at some count, and what is sold at that one or a later.
QuotesAreRead ==
    /\ \A a \in asks : (a.current => a.for = input) /\ a.seen \in {None} \cup Counted
    /\ view = "quoted" => \E n \in Counted : AsOf(quoted, n)
    /\ agreed # NoQuote => \E n \in Counted : AsOf(agreed, n)
    /\ "this" \in posts => agreed # NoQuote
    /\ sold # NoQuote => \E n, m \in Counted : n <= m /\ AsOf(agreed, n) /\ AsOf(sold, m)

QuotesInv == TypeOK /\ QuotesAreRead
=============================================================================
