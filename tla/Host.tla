-------------------------------- MODULE Host --------------------------------
(***************************************************************************)
(* The parts of the host around the ledger writes: the operator's scripts  *)
(* that provision it, what the server admits, the reads it shares out, the *)
(* transactions it lets through to a wallet, the quotes and the purchases  *)
(* of a visitor, what its browser keeps and what the chats say.  They      *)
(* share no state with each other, so a behaviour of the host is one of a  *)
(* part: part says which.                                                  *)
(***************************************************************************)
EXTENDS Integers

CONSTANTS
    Parts,                                        \* the parts a run follows
    Visitors, Amounts, Minute, Hour, Day, MaxTime, PerVisitor, PerDay, UsdPerDay,
    AiPerDay, ChatPerMinute, ChatKeys, WindowCap, MaxActive, DraftCap, DraftLife, Gap,
    Readers, Resources, Ttl, MaxVersion, Horizon,
    Oracles, MaxAssets, MaxKeys, MaxCrashes,
    Requests, MaxRestarts,
    Inputs, FirstCount, LastCount, MaxAsks,
    OpIds, MaxOutages,
    Serials, MaxMoves, MaxAsked,
    Sepolia, Router, Manager, Permit2, ITS, Native, Weth, Usdc, Bridged, Self, WeiPerTinybar

VARIABLES
    part,
    clock, service, book, journal, chats, start, count, active, waiting, preparing, drafts, log,
    time, resource, version, cache, flights, shown, told, floor,
    pc, recreate, at, made, associated, registry, keys, kept, held, crashes, torn,
    topped, sent, noted, swept, named,
    panel, current, fresh, tracked, remembered, asked, page,
    work, issuing, lock, booked, reply, restarts,
    onRecord, input, due, asks, view, quoted, posts, agreed, sold,
    product, wish, spare, saved, talk, heard, posted, action, overlap, outages,
    companion, listed, signed, ended, bought, plan, issued, receipts, moves, turns,
    look, questions, said

Budgets == INSTANCE RequestBudgets
Reads == INSTANCE SharedReads
Scripts == INSTANCE Provisioning
Visitor == INSTANCE VisitorRequests
Quotes == INSTANCE QuotePanel
Saved == INSTANCE SavedOperations
Chat == INSTANCE CompanionAnswers
Wallets == INSTANCE SettlementCases

ASSUME HostAssumption ==
    /\ Parts \subseteq {"budgets", "reads", "scripts", "visitor", "quotes", "saved", "chat", "wallets"}
    /\ Budgets!BudgetsAssumption /\ Reads!ReadsAssumption
    /\ Scripts!ProvisioningAssumption /\ Visitor!VisitorAssumption
    /\ Quotes!QuotesAssumption /\ Saved!SavedAssumption /\ Chat!AnswersAssumption
    /\ Wallets!SettlementAssumption

b == <<clock, service, book, journal, chats, start, count, active, waiting, preparing, drafts, log>>
r == <<time, resource, version, cache, flights, shown, told, floor>>
s == <<pc, recreate, at, made, associated, registry, keys, kept, held, crashes, torn,
       topped, sent, noted, swept, named>>
v == <<panel, current, fresh, tracked, remembered, asked, page,
       work, issuing, lock, booked, reply, restarts>>
q == <<onRecord, input, due, asks, view, quoted, posts, agreed, sold>>
o == <<product, wish, spare, saved, talk, heard, posted, action, overlap, outages>>
c == <<companion, listed, signed, ended, bought, plan, issued, receipts, moves, turns,
       look, questions, said>>
vars == <<part, b, r, s, v, q, o, c>>

\* A part that is not followed stays as it began, at its first initial state.
Init ==
    /\ part \in Parts
    /\ Budgets!Init /\ (part # "budgets" => service = "writes")
    /\ Reads!Init /\ (part # "reads" => resource = Reads!Policies)
    /\ Scripts!Init
    /\ Visitor!Init
    /\ Quotes!Init
    /\ Saved!Init /\ (part # "saved" => product = "evm")
    /\ Chat!Init /\ (part # "chat" => companion = "quorum")

Next ==
    /\ UNCHANGED part
    /\ \/ part = "budgets" /\ Budgets!Next /\ UNCHANGED <<r, s, v, q, o, c>>
       \/ part = "reads" /\ Reads!Next /\ UNCHANGED <<b, s, v, q, o, c>>
       \/ part = "scripts" /\ Scripts!Next /\ UNCHANGED <<b, r, v, q, o, c>>
       \/ part = "visitor" /\ Visitor!Next /\ UNCHANGED <<b, r, s, q, o, c>>
       \/ part = "quotes" /\ Quotes!Next /\ UNCHANGED <<b, r, s, v, o, c>>
       \/ part = "saved" /\ Saved!Next /\ UNCHANGED <<b, r, s, v, q, c>>
       \/ part = "chat" /\ Chat!Next /\ UNCHANGED <<b, r, s, v, q, o>>

Spec == Init /\ [][Next]_vars /\ Visitor!Fairness

-----------------------------------------------------------------------------
\* Every part's variables are of their types.
TypeOK ==
    /\ Budgets!TypeOK /\ Reads!TypeOK /\ Scripts!TypeOK /\ Visitor!TypeOK
    /\ Quotes!TypeOK /\ Saved!TypeOK /\ Chat!TypeOK

\* src/guards.js, the companions and the quote routes: what is admitted stays within the
\* limits of its service in every span of time, over restarts where they are durable.
LimitsHold == Budgets!LimitsHold

\* The caches and shared requests of the reads: nobody is given a version older than one
\* that anybody had been given when it asked.
NoOlderAnswer == Reads!NoOlderAnswer

\* scripts/provision.js and its like: a script that dies leaves one created asset at most
\* that no file names (or the oracle accounts of one loop), the keys on disk open the pool a
\* script uses, unless a RECREATE run died between the two, and a sweep takes nothing of a
\* pool.
NothingIsStranded == Scripts!NothingIsStranded

\* The page of a visitor's purchases: no request the browser keeps stays 'creating' or
\* unanswered for good.
RequestsAreExplained == Visitor!RequestsAreExplained

\* A text of the panel, 'Progress is saved in Policies': the browser keeps every request
\* that holds a reservation and is not complete.
ReservedStaysTracked == Visitor!ReservedStaysTracked

\* The quote panel and issuePolicy behind it: what is sold is what was shown, for no less
\* cover unless events were recorded meanwhile; and the prices add up.
PremiumIsAsShown ==
    Quotes!SoldAsShown /\ (part = "quotes" => Quotes!PricesAreSound)

\* Deposits, bridge transfers and wallet operations of a browser: an operation that is
\* accepted and not over has its id saved, so that it is looked up and never sent anew.
UnfinishedIsSaved == Saved!UnfinishedIsSaved

\* The two chats: what an answer claims is so, and it is shown where it was asked.
AnswersAreTrue == Chat!AnswersAreTrue

\* The settlement routes: whatever the outside service builds, what a wallet is handed
\* moves what its owner asked for and pays only its owner.
HandedOutIsBounded == part = "wallets" => Wallets!HandedOutIsBounded
=============================================================================
