-------------------------- MODULE VisitorRequests --------------------------
(***************************************************************************)
(* A visitor's purchases as the visitor sees them: the panel that sends    *)
(* the request (ui/src/app/QuotePanel.tsx), the list of unfinished ones    *)
(* the browser keeps (ui/src/lib/store.ts), the page that asks after them  *)
(* (ui/src/app/PoliciesPage.tsx), and the routes that answer               *)
(* (src/server.js) around src/demo/purchase.js.                            *)
(***************************************************************************)
EXTENDS Integers, FiniteSets

CONSTANTS
    Requests,      \* request ids
    MaxRestarts    \* bound: how often the server starts again

Nobody == "nobody"
VisitorAssumption == Requests # {} /\ Nobody \notin Requests /\ MaxRestarts \in Nat

VARIABLES
    \* the browser
    panel,         \* "quoted", "issuing", "held", "refused" or "uncertain"
    current,       \* the panel's request id
    fresh,         \* ids no panel has had
    tracked,       \* localStorage: requests whose end is not known
    remembered,    \* localStorage: of these, the policies created here
    asked,         \* answers of /api/requests on their way, by id
    page,          \* what the policies page says of each id
    \* the server
    work,          \* where the POST of each id is
    issuing,       \* activeRequests
    lock,          \* who holds the issuance lock
    booked,          \* what the policy book says of each id
    reply,         \* the answer to each POST, on its way
    restarts

browser == <<panel, current, fresh, tracked, remembered, asked, page>>
server == <<work, issuing, lock, booked, reply, restarts>>
visitorVars == <<browser, server>>

Init ==
    /\ panel = "quoted" /\ current = (CHOOSE r \in Requests : TRUE) /\ fresh = Requests \ {current}
    /\ tracked = {} /\ remembered = {}
    /\ asked = [r \in Requests |-> "none"] /\ page = asked
    /\ work = [r \in Requests |-> "none"] /\ issuing = {} /\ lock = Nobody
    /\ booked = work /\ reply = work /\ restarts = 0

-----------------------------------------------------------------------------
(* The panel *)

\* The id is kept before the request is sent.
Buy ==
    /\ panel = "quoted" /\ work[current] = "none" /\ reply[current] = "none"
    /\ tracked' = tracked \cup {current} /\ panel' = "issuing"
    /\ work' = [work EXCEPT ![current] = "waiting"]
    /\ UNCHANGED <<current, fresh, remembered, asked, page, issuing, lock, booked, reply, restarts>>

\* Every answer but three is taken as an end.
Uncertain == {"pending_recovery", "service_unavailable"}

Receive ==
    LET answer == reply[current] IN
    /\ panel = "issuing" /\ answer # "none"
    /\ reply' = [reply EXCEPT ![current] = "none"]
    /\ panel' = CASE answer = "ok" -> "held"
                  [] answer \in Uncertain -> "uncertain"
                  [] OTHER -> "refused"
    /\ tracked' = IF answer \in Uncertain THEN tracked ELSE tracked \ {current}
    /\ remembered' = IF answer = "ok" THEN remembered \cup {current} ELSE remembered
    /\ UNCHANGED <<current, fresh, asked, page, work, issuing, lock, booked, restarts>>

\* The connection breaks, or two minutes pass.
Interrupted ==
    /\ panel = "issuing" /\ panel' = "uncertain"
    /\ reply' = [reply EXCEPT ![current] = "none"]
    /\ UNCHANGED <<current, fresh, tracked, remembered, asked, page, work, issuing, lock, booked, restarts>>

\* After a refusal the panel quotes again under its id; a changed budget or a new panel
\* takes a new one.
QuoteAgain ==
    /\ panel = "refused" /\ panel' = "quoted"
    /\ UNCHANGED <<current, fresh, tracked, remembered, asked, page, server>>

NewRequest(r) ==
    /\ panel # "issuing" /\ r \in fresh
    /\ panel' = "quoted" /\ current' = r /\ fresh' = fresh \ {r}
    /\ UNCHANGED <<tracked, remembered, asked, page, server>>

-----------------------------------------------------------------------------
(* The page *)

\* GET /api/requests/:id, as the server stands when it answers.
Status(r) ==
    CASE booked[r] = "none" -> "not_found"
      [] booked[r] = "complete" -> "complete"
      [] OTHER -> IF r \in issuing THEN "creating" ELSE "needs_review"

Ask(r) ==
    /\ r \in tracked /\ asked[r] = "none"
    /\ asked' = [asked EXCEPT ![r] = Status(r)]
    /\ UNCHANGED <<panel, current, fresh, tracked, remembered, page, server>>

AskFails(r) ==
    /\ r \in tracked /\ asked[r] = "none" /\ page[r] # "unavailable"
    /\ page' = [page EXCEPT ![r] = "unavailable"]
    /\ UNCHANGED <<panel, current, fresh, tracked, remembered, asked, server>>

Show(r) ==
    /\ asked[r] # "none"
    /\ asked' = [asked EXCEPT ![r] = "none"]
    /\ IF asked[r] = "complete"
       THEN /\ tracked' = tracked \ {r} /\ remembered' = remembered \cup {r}
            /\ page' = [page EXCEPT ![r] = "none"]
       ELSE /\ page' = [page EXCEPT ![r] = asked[r]] /\ UNCHANGED <<tracked, remembered>>
    /\ UNCHANGED <<panel, current, fresh, server>>

\* Offered only for a request the server has no record of.
Dismiss(r) ==
    /\ page[r] = "not_found"
    /\ page' = [page EXCEPT ![r] = "none"] /\ tracked' = tracked \ {r}
    /\ UNCHANGED <<panel, current, fresh, remembered, asked, server>>

-----------------------------------------------------------------------------
(* The server *)

\* A mutant: a purchase that throws stays among the active ones.
OverWhenAnswered(r, answer) == issuing' = IF answer = "service_unavailable" THEN issuing ELSE issuing \ {r}

\* The work inside the lock ends, with an answer or with a throw.
Over(r, answer) == issuing' = issuing \ {r}

\* The answer of r's POST, if its panel still waits.
Answer(r, answer) ==
    reply' = IF panel = "issuing" /\ current = r THEN [reply EXCEPT ![r] = answer] ELSE reply

\* The lock: another writer may keep it for longer than a request waits.
Enter(r) ==
    /\ work[r] = "waiting" /\ lock = Nobody
    /\ lock' = r /\ issuing' = issuing \cup {r}
    /\ work' = [work EXCEPT ![r] = "pricing"]
    /\ UNCHANGED <<browser, booked, reply, restarts>>

LockBusy(r) ==
    /\ work[r] \in {"waiting", "finishing"}
    /\ work' = [work EXCEPT ![r] = "none"] /\ Answer(r, "service_unavailable")
    /\ UNCHANGED <<browser, issuing, lock, booked, restarts>>

\* Leaving the lock: with an answer, or with a throw, which marks what was reserved.
Leave(r, answer) ==
    /\ work[r] \in {"pricing", "writing"}
    /\ lock' = Nobody /\ Over(r, answer) /\ Answer(r, answer)
    /\ work' = [work EXCEPT ![r] = "none"]
    /\ UNCHANGED <<browser, restarts>>

\* A request the book knows is answered from it: the policy, or that it needs review.
Known(r) ==
    /\ work[r] = "pricing" /\ booked[r] # "none"
    /\ IF booked[r] = "complete"
       THEN /\ lock' = Nobody /\ Over(r, "ok") /\ work' = [work EXCEPT ![r] = "finishing"]
            /\ UNCHANGED <<browser, reply, restarts>>
       ELSE Leave(r, "pending_recovery")
    /\ UNCHANGED booked

\* Refused by price, balance, capital or budget; or an error on the way there.
Refuse(r) ==
    /\ work[r] = "pricing" /\ booked[r] = "none"
    /\ \E answer \in {"refused", "service_unavailable"} : Leave(r, answer)
    /\ UNCHANGED booked

Reserve(r) ==
    /\ work[r] = "pricing" /\ booked[r] = "none"
    /\ work' = [work EXCEPT ![r] = "writing"] /\ booked' = [booked EXCEPT ![r] = "reserved"]
    /\ UNCHANGED <<browser, issuing, lock, reply, restarts>>

Throw(r) ==
    /\ work[r] = "writing" /\ Leave(r, "service_unavailable")
    /\ booked' = [booked EXCEPT ![r] = "needs_review"]

Issue(r) ==
    /\ work[r] = "writing" /\ work' = [work EXCEPT ![r] = "finishing"]
    /\ booked' = [booked EXCEPT ![r] = "complete"]
    /\ lock' = Nobody /\ Over(r, "ok")
    /\ UNCHANGED <<browser, reply, restarts>>

\* The account's action is finished under the lock again, then the answer is sent.
Finish(r) ==
    /\ work[r] = "finishing" /\ lock = Nobody
    /\ work' = [work EXCEPT ![r] = "none"] /\ Answer(r, "ok")
    /\ UNCHANGED <<browser, issuing, lock, booked, restarts>>

\* The server dies and starts again: the proxy answers what was open, in its own words.
Restart ==
    /\ restarts < MaxRestarts /\ restarts' = restarts + 1
    /\ work' = [r \in Requests |-> "none"] /\ issuing' = {} /\ lock' = Nobody
    /\ reply' = IF work[current] # "none" /\ panel = "issuing"
                THEN [reply EXCEPT ![current] = "unreadable"] ELSE reply
    /\ UNCHANGED <<browser, booked>>

Serve(r) ==
    Enter(r) \/ LockBusy(r) \/ Known(r) \/ Refuse(r) \/ Reserve(r) \/ Throw(r) \/ Issue(r) \/ Finish(r)

Next ==
    \/ Buy
    \/ Receive
    \/ Interrupted
    \/ QuoteAgain
    \/ \E r \in Requests : NewRequest(r) \/ Ask(r) \/ AskFails(r) \/ Show(r) \/ Dismiss(r)
    \/ \E r \in Requests : Serve(r)
    \/ Restart

\* A lock wait ends within 30 seconds and a purchase ends or throws; the page asks every
\* ten seconds and, sooner or later, is answered.
Fairness ==
    \A r \in Requests :
        /\ WF_visitorVars(Serve(r)) /\ WF_visitorVars(Show(r)) /\ SF_visitorVars(Ask(r))

-----------------------------------------------------------------------------
TypeOK ==
    /\ panel \in {"quoted", "issuing", "held", "refused", "uncertain"}
    /\ current \in Requests /\ fresh \subseteq Requests \ {current}
    /\ tracked \subseteq Requests /\ remembered \subseteq Requests
    /\ asked \in [Requests -> {"none", "not_found", "complete", "creating", "needs_review"}]
    /\ page \in [Requests -> {"none", "not_found", "creating", "needs_review", "unavailable"}]
    /\ work \in [Requests -> {"none", "waiting", "pricing", "writing", "finishing"}]
    /\ issuing \subseteq Requests /\ lock \in Requests \cup {Nobody}
    /\ booked \in [Requests -> {"none", "reserved", "needs_review", "complete"}]
    /\ restarts \in 0..MaxRestarts

\* A request the browser keeps does not stay 'creating' or unanswered: it is found
\* complete or given up, or the page says that it needs review or was not recorded.
RequestsAreExplained ==
    \A r \in Requests :
        r \in tracked ~> r \notin tracked \/ page[r] \in {"needs_review", "not_found"}

\* ui/src/app/QuotePanel.tsx:67 - 'Progress is saved in Policies': a request with a
\* reservation that is not complete is one the browser still keeps.
ReservedStaysTracked ==
    \A r \in Requests : booked[r] \in {"reserved", "needs_review"} => r \in tracked
=============================================================================
