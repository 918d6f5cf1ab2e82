--------------------------- MODULE RequestBudgets ---------------------------
(***************************************************************************)
(* What the server admits: the durable write budget (src/guards.js), the   *)
(* durable budget of the companions' model and their gate                  *)
(* (src/cover-agent/companion.js), and the in-memory windows of the quote  *)
(* and liquidity routes (src/settlement).  The budgets share no state, so  *)
(* a behaviour follows one of them: service says which.                    *)
(***************************************************************************)
EXTENDS Integers, FiniteSets

CONSTANTS
    Visitors,      \* the client addresses
    Amounts,       \* the covers a visitor asks for, in dollars
    Minute, Hour, Day, MaxTime,
    PerVisitor, PerDay, UsdPerDay,   \* guards.js:8
    AiPerDay, ChatPerMinute, ChatKeys,
    WindowCap,     \* calls of one kind in a fixed window
    MaxActive,     \* calls outside at once
    DraftCap, DraftLife,
    Gap            \* between two place searches

Durable == {"writes", "ai"}
Windowed == {"swap", "bridged", "liquidity", "quote"}
Services == Durable \cup Windowed \cup {"chat", "places"}
Kinds == {"call", "read"}

BudgetsAssumption ==
    /\ {Minute, Hour, Day, MaxTime, DraftLife, Gap} \subseteq Nat \ {0}
    /\ {PerVisitor, PerDay, UsdPerDay, AiPerDay, ChatPerMinute, ChatKeys} \subseteq Nat
    /\ {WindowCap, MaxActive, DraftCap} \subseteq Nat \ {0} /\ Amounts \subseteq Nat

VARIABLES
    clock, service,
    book, journal,         \* on disk: the events charged; the AI journal and its marker
    chats,                 \* the gate's admissions, by visitor
    start, count,          \* the fixed window and what it has charged; the next free start of a search
    active,                \* calls outside, or questions being interpreted
    waiting, preparing,    \* of these, those before the AI reserve; before a draft is kept
    drafts,                \* when each bridged draft expires
    log                    \* what was admitted in the last Span, of this host unless durable

memory == <<chats, start, count, active, waiting, preparing, drafts>>
budgetVars == <<clock, service, book, journal, log, memory>>

\* A list of events is the set of them: nothing depends on its order but for the times, and
\* n tells apart those of one instant, which are dropped together.
Entry(t, v, usd) == [at |-> t, by |-> v, usd |-> usd, n |-> Cardinality({e \in log : e.at = t})]
Recent(events, span) == {e \in events : clock - e.at < span}

\* What events add up to: each of its dollars counted.
Dollars(events) == UNION {{e} \X (1..e.usd) : e \in events}
Total(events) == Cardinality(Dollars(events))

Init ==
    /\ clock = 0 /\ service \in Services
    /\ book = {} /\ journal = "fresh" /\ log = {}
    /\ chats = [v \in Visitors |-> {}]
    /\ start = 0 /\ count = [k \in Kinds |-> 0]
    /\ active = 0 /\ waiting = 0 /\ preparing = 0 /\ drafts = {}

Span == IF service \in Durable THEN Day ELSE Minute

\* Time, and of the log what the limits still look at.
Tick ==
    /\ clock < MaxTime /\ clock' = clock + 1
    /\ log' = {e \in log : clock' - e.at < Span}
    /\ UNCHANGED <<service, book, journal, memory>>

\* Everything in memory starts again; the write budget is loaded and saved.
Restart ==
    /\ start' = clock /\ count' = [k \in Kinds |-> 0] /\ chats' = [v \in Visitors |-> {}]
    /\ active' = 0 /\ waiting' = 0 /\ preparing' = 0 /\ drafts' = {}
    /\ book' = IF service = "writes" THEN Recent(book, Day) ELSE book
    /\ log' = IF service \in Durable THEN log ELSE {}
    /\ UNCHANGED <<clock, service, journal>>

-----------------------------------------------------------------------------
(***************************************************************************)
(* The write budget: one journal of attempts, every attempt charged before *)
(* its first write, under the issuance lock.                               *)
(***************************************************************************)
\* A mutant: the journal forgets after the hour its rate limit looks at.
KeptAnHour == Recent(book, Hour)

Kept == Recent(book, Day)

Denied(v, usd) ==
    \/ Cardinality({e \in Recent(Kept, Hour) : e.by = v}) >= PerVisitor
    \/ Cardinality(Kept) >= PerDay
    \/ Total(Kept) + usd > UsdPerDay

Admit(v, usd) ==
    /\ service = "writes" /\ ~Denied(v, usd)
    /\ book' = Kept \cup {Entry(clock, v, usd)} /\ log' = log \cup {Entry(clock, v, usd)}
    /\ UNCHANGED <<clock, service, journal, memory>>

-----------------------------------------------------------------------------
(***************************************************************************)
(* The companions: a gate in memory, and a durable budget of the model's   *)
(* answers that stays closed when its journal is lost.                     *)
(***************************************************************************)
ChatAdmit(v) ==
    LET left == {w \in Visitors : Recent(chats[w], Minute) # {}}
    IN  /\ service = "chat"
        /\ Cardinality(Recent(chats[v], Minute)) < ChatPerMinute
        /\ Cardinality(left) < ChatKeys \/ v \in left
        /\ chats' = [w \in Visitors |->
                        IF w = v THEN Recent(chats[v], Minute) \cup {Entry(clock, v, 0)}
                        ELSE IF w \in left THEN chats[w] ELSE {}]
        /\ log' = log \cup {Entry(clock, v, 0)}
        /\ UNCHANGED <<clock, service, book, journal, start, count, active, waiting, preparing, drafts>>

Interpret ==
    /\ service = "ai" /\ active < MaxActive
    /\ active' = active + 1 /\ waiting' = waiting + 1
    /\ UNCHANGED <<clock, service, book, journal, log, chats, start, count, preparing, drafts>>

ReserveAi ==
    LET granted == journal # "lost" /\ Cardinality(Kept) < AiPerDay
        charged == IF granted THEN {Entry(clock, "model", 0)} ELSE {}
    IN  /\ service = "ai" /\ waiting > 0
        /\ waiting' = waiting - 1
        /\ active' = IF granted THEN active ELSE active - 1
        /\ book' = (IF granted THEN Kept ELSE book) \cup charged /\ log' = log \cup charged
        /\ journal' = IF granted THEN "kept" ELSE journal
        /\ UNCHANGED <<clock, service, chats, start, count, preparing, drafts>>

\* The file is removed and its marker is not.
LoseJournal ==
    /\ service = "ai" /\ journal = "kept"
    /\ journal' = "lost" /\ book' = {}
    /\ UNCHANGED <<clock, service, log, memory>>

-----------------------------------------------------------------------------
(***************************************************************************)
(* Fixed windows.  They differ in the instant a window ends, in the order  *)
(* of the two tests, and in whether a refused call is charged.             *)
(***************************************************************************)
Ended == clock - start > Minute \/ (clock - start = Minute /\ service # "bridged")
Spent(k) == IF Ended THEN 0 ELSE count[k]

Charge(k, n) ==
    /\ start' = IF Ended THEN clock ELSE start
    /\ count' = [j \in Kinds |-> Spent(j) + IF j = k THEN n ELSE 0]

\* One call of kind k: n is what it is charged, begins whether it goes outside.
Call(k, n, begins) ==
    /\ Spent(k) <= WindowCap
    /\ Charge(k, n)
    /\ active' = IF begins THEN active + 1 ELSE active
    /\ log' = IF begins THEN log \cup {Entry(clock, k, 0)} ELSE log
    /\ UNCHANGED <<clock, service, book, journal, chats, waiting>>

Free == active < MaxActive
Within(k) == Spent(k) < WindowCap

SwapQuote ==
    /\ service = "swap"
    /\ Call("call", IF Free /\ Within("call") THEN 1 ELSE 0, Free /\ Within("call"))
    /\ UNCHANGED <<preparing, drafts>>

LiquidityCall(k) ==
    /\ service = "liquidity"
    /\ Call(k, IF Free THEN 1 ELSE 0, Free /\ Within(k))
    /\ UNCHANGED <<preparing, drafts>>

CrossAssetQuote ==
    /\ service = "quote" /\ Free
    /\ Call("call", IF Within("call") THEN 1 ELSE 0, Within("call"))
    /\ UNCHANGED <<preparing, drafts>>

\* The drafts are counted before the quote is asked for and the draft kept after it.
PrepareBridged ==
    LET live == {d \in drafts : d.until > clock}
        allowed == Free /\ Within("call")
        begins == allowed /\ Cardinality(live) < DraftCap
    IN  /\ service = "bridged"
        /\ Call("call", 1, begins)
        /\ drafts' = IF allowed THEN live ELSE drafts
        /\ preparing' = IF begins THEN preparing + 1 ELSE preparing

Draft(until) == [until |-> until, n |-> Cardinality({d \in drafts : d.until = until})]

Prepared(good) ==
    /\ preparing > 0
    /\ preparing' = preparing - 1 /\ active' = active - 1
    /\ drafts' = IF good THEN drafts \cup {Draft(clock + DraftLife)} ELSE drafts
    /\ UNCHANGED <<clock, service, book, journal, log, chats, start, count, waiting>>

\* A draft can be signed and built until it expires, as often as the window allows.
BuildBridged ==
    /\ service = "bridged" /\ \E d \in drafts : d.until > clock
    /\ Call("call", 1, Free /\ Within("call"))
    /\ UNCHANGED <<preparing, drafts>>

\* A place search starts at the next free instant, a Gap after the one before.
SearchPlaces ==
    LET begin == IF start > clock THEN start ELSE clock
    IN  /\ service = "places" /\ Free
        /\ start' = begin + Gap /\ active' = active + 1
        /\ log' = log \cup {Entry(begin, "place", 0)}
        /\ UNCHANGED <<clock, service, book, journal, chats, count, waiting, preparing, drafts>>

\* A mutant: a call that times out and then answers is counted off twice.
FinishTwice ==
    /\ active > 0 /\ active' = active - 2
    /\ UNCHANGED <<clock, service, book, journal, log, chats, start, count, waiting, preparing, drafts>>

\* The answer, the failure or the timeout of a call, or the model's classification.
Finish ==
    /\ active > waiting + preparing + Cardinality({e \in log : e.at > clock})
    /\ active' = active - 1
    /\ UNCHANGED <<clock, service, book, journal, log, chats, start, count, waiting, preparing, drafts>>

Next ==
    \/ Tick
    \/ Restart
    \/ \E v \in Visitors, usd \in Amounts : Admit(v, usd)
    \/ \E v \in Visitors : ChatAdmit(v)
    \/ Interpret
    \/ ReserveAi
    \/ LoseJournal
    \/ SwapQuote
    \/ \E k \in Kinds : LiquidityCall(k)
    \/ CrossAssetQuote
    \/ PrepareBridged
    \/ \E good \in BOOLEAN : Prepared(good)
    \/ BuildBridged
    \/ SearchPlaces
    \/ Finish

-----------------------------------------------------------------------------
TypeOK ==
    /\ clock \in 0..MaxTime /\ service \in Services
    /\ journal \in {"fresh", "kept", "lost"}
    /\ start \in Nat /\ count \in [Kinds -> 0..(WindowCap + 1)]
    /\ active \in 0..MaxActive /\ waiting \in 0..MaxActive /\ preparing \in 0..MaxActive

\* The admitted entries of the last span.
Admitted(span) == Recent(log, span)
By(v, span) == {e \in Admitted(span) : e.by = v}

WritesLimited ==
    /\ Cardinality(Admitted(Day)) <= PerDay
    /\ Total(Admitted(Day)) <= UsdPerDay
    /\ \A v \in Visitors : Cardinality(By(v, Hour)) <= PerVisitor

ChatLimited ==
    /\ \A v \in Visitors : Cardinality(By(v, Minute)) <= ChatPerMinute
    /\ Cardinality({e.by : e \in Admitted(Minute)}) <= ChatKeys

\* Rolling limits hold in every span, over restarts where they are durable; a fixed
\* window lets at most two of itself into a span of its length; place searches start a
\* Gap apart; and no more calls are outside, nor drafts kept, than the caps (the drafts'
\* plus the calls in flight).
LimitsHold ==
    /\ service = "writes" => WritesLimited
    /\ service = "ai" => Cardinality(Admitted(Day)) <= AiPerDay
    /\ service = "chat" => ChatLimited
    /\ service \in Windowed => \A k \in Kinds : Cardinality(By(k, Minute)) <= 2 * WindowCap
    /\ service = "places" => \A e, f \in log : e # f => e.at - f.at >= Gap \/ f.at - e.at >= Gap
    /\ active <= MaxActive
    /\ Cardinality(drafts) < DraftCap + MaxActive
-----------------------------------------------------------------------------
(***************************************************************************)
(* The inductive invariant.                                                *)
(***************************************************************************)
\* The log is what the limits look at, and only a place search is booked ahead.
LogIsRecent ==
    /\ IsFiniteSet(log) /\ IsFiniteSet(Dollars(log))
    /\ \A e \in log : e.at \in Nat /\ clock - e.at < Span /\ (service # "places" => e.at <= clock)

\* Every entry kept has its instant.
Dated ==
    /\ \A e \in book : e.at \in Nat
    /\ \A v \in Visitors : \A e \in chats[v] : e.at \in Nat

\* What the code counts is what it admitted, unless the journal is lost: then it admits
\* nothing any more.
BooksAgree ==
    /\ service = "writes" => Kept = log
    /\ service = "ai" /\ journal # "lost" => Kept = log
    /\ service = "chat" =>
        /\ \A e \in log : e.by \in Visitors
        /\ \A v \in Visitors : Recent(chats[v], Minute) = {e \in log : e.by = v}

\* Of a kind, the window there is let through what it charged at most, and the one before it
\* no more than the cap: any older one ended a Minute ago.
WindowsHold ==
    service \in Windowed =>
        /\ start <= clock
        /\ Ended => \A e \in log : e.at < clock
        /\ \A k \in Kinds :
            LET now == {e \in log : e.by = k /\ e.at >= start}
                before == {e \in log : e.by = k /\ e.at < start}
            IN  /\ Cardinality(now) <= count[k] /\ Cardinality(now) <= WindowCap
                /\ Cardinality(before) <= WindowCap

\* The next free start of a search is a Gap after every one there is.
SearchesAhead == service = "places" => \A e \in log : start >= e.at + Gap

\* Calls in flight are among the active ones, and with the drafts they may become they are
\* below the caps.
CallsFit ==
    /\ waiting + preparing <= active
    /\ IsFiniteSet(drafts) /\ Cardinality(drafts) + preparing < DraftCap + MaxActive

BudgetsInv ==
    TypeOK /\ LogIsRecent /\ Dated /\ BooksAgree /\ WindowsHold /\ SearchesAhead /\ CallsFit /\ LimitsHold
=============================================================================
