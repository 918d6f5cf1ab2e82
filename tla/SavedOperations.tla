--------------------------- MODULE SavedOperations ---------------------------
(***************************************************************************)
(* The id a browser keeps of an operation it has sent: a deposit           *)
(* (ui/src/app/FundPool.tsx), a bridge transfer (ui/src/app/DemoEvm.tsx),  *)
(* an operation of its Sepolia wallet (ui/src/lib/evm-demo.ts).  The id is *)
(* in localStorage before the request is sent and is given up when the     *)
(* operation is known to be over, or when the server answered (with a      *)
(* status, ui/src/lib/demo.ts) and then shows no record of it.             *)
(***************************************************************************)
EXTENDS Integers

CONSTANTS
    OpIds,         \* the ids the browser draws
    MaxOutages     \* bound: how often the server starts again

Products == {"deposit", "bridge", "evm"}
NoId == "none"
SavedAssumption == NoId \notin OpIds /\ OpIds # {} /\ MaxOutages \in Nat

VARIABLES
    product,
    wish,          \* the id of what the visitor does now
    spare,         \* ids not drawn yet
    saved,         \* localStorage
    talk,          \* "idle", "sent" or "checking" the account for the id
    heard,         \* the answer: "none", "pending", "done", "refused" (a status) or "lost"
    posted,       \* POSTs of each id open at the server
    action,        \* what the account's journal says of each id
    overlap,       \* a POST was sent again while the server still had the first
    outages

opVars == <<product, wish, spare, saved, talk, heard, posted, action, overlap, outages>>

Init ==
    /\ product \in Products
    /\ wish = (CHOOSE id \in OpIds : TRUE) /\ spare = OpIds \ {wish}
    /\ saved = NoId /\ talk = "idle" /\ heard = "none"
    /\ posted = [id \in OpIds |-> 0] /\ action = [id \in OpIds |-> "none"]
    /\ overlap = FALSE /\ outages = 0

-----------------------------------------------------------------------------
(* The browser *)

\* With an id saved the button sends that one again.
Send ==
    /\ talk = "idle" /\ wish # NoId /\ posted[wish] < 2
    /\ saved' = wish /\ talk' = "sent"
    /\ posted' = [posted EXCEPT ![wish] = @ + 1]
    /\ overlap' = (overlap \/ posted[wish] > 0)
    /\ UNCHANGED <<product, wish, spare, heard, action, outages>>

\* The network fails, or two minutes pass.
Lose ==
    /\ talk = "sent" /\ heard = "none" /\ heard' = "lost"
    /\ UNCHANGED <<product, wish, spare, saved, talk, posted, action, overlap, outages>>

\* The id is gone from localStorage and another one drawn, if there is any.
Forget ==
    /\ saved' = NoId
    /\ IF spare = {} THEN wish' = NoId /\ UNCHANGED spare
       ELSE \E id \in spare : wish' = id /\ spare' = spare \ {id}

Keep == UNCHANGED <<wish, spare, saved>>

\* A mutant: any failure is looked up.
LookUpAnyFailure(outcome) == outcome \in {"refused", "lost"}

\* Only an answer of the server with a status lets an id go: anything else may yet happen.
LookUp(outcome) == outcome = "refused"

\* The wallet's answer shows its operation still running.
Hear ==
    /\ talk = "sent" /\ heard # "none" /\ heard' = "none"
    /\ IF heard = "done" THEN Forget ELSE Keep
    /\ talk' = IF LookUp(heard) THEN "checking" ELSE "idle"
    /\ UNCHANGED <<product, posted, action, overlap, outages>>

\* GET of the account: no record of the id, and it is given up; or that read fails too.
Check(readable) ==
    /\ talk = "checking" /\ talk' = "idle"
    /\ IF readable /\ action[wish] = "none" THEN Forget ELSE Keep
    /\ UNCHANGED <<product, heard, posted, action, overlap, outages>>

\* The account is read every few seconds: what is over there is over here; of a bridge
\* transfer only its own answer says so.
Poll ==
    /\ talk = "idle" /\ saved # NoId
    /\ \/ product = "deposit" /\ action[saved] = "complete"
       \/ product = "evm" /\ action[saved] \in {"complete", "failed"}
    /\ Forget
    /\ UNCHANGED <<product, talk, heard, posted, action, overlap, outages>>

-----------------------------------------------------------------------------
(* The server *)

\* A POST ends; its answer reaches the browser unless it was lost before.
Reply(id, answer) ==
    /\ posted' = [posted EXCEPT ![id] = @ - 1]
    /\ heard' = IF talk = "sent" /\ wish = id /\ heard = "none" /\ posted[id] = 1 THEN answer ELSE heard

\* Another operation is pending, a limit is reached, the lock is busy.
Refuse(id) ==
    /\ posted[id] > 0 /\ action[id] = "none" /\ Reply(id, "refused")
    /\ UNCHANGED <<product, wish, spare, saved, talk, action, overlap, outages>>

Begin(id) ==
    /\ posted[id] > 0 /\ action[id] = "none"
    /\ action' = [action EXCEPT ![id] = "pending"]
    /\ UNCHANGED <<product, wish, spare, saved, talk, heard, posted, overlap, outages>>

\* A deposit or a transfer answers when it is complete, or throws and stays pending.
Finish(id) ==
    /\ product # "evm" /\ posted[id] > 0 /\ action[id] = "pending"
    /\ action' = [action EXCEPT ![id] = "complete"] /\ Reply(id, "done")
    /\ UNCHANGED <<product, wish, spare, saved, talk, overlap, outages>>

Throw(id) ==
    /\ posted[id] > 0 /\ action[id] = "pending" /\ Reply(id, "refused")
    /\ UNCHANGED <<product, wish, spare, saved, talk, action, overlap, outages>>

\* The wallet's operation runs on its own after the answer.
Accepted(id) ==
    /\ product = "evm" /\ posted[id] > 0 /\ action[id] = "pending" /\ Reply(id, "pending")
    /\ UNCHANGED <<product, wish, spare, saved, talk, action, overlap, outages>>

Run(id) ==
    /\ product = "evm" /\ action[id] = "pending"
    /\ \E end \in {"complete", "failed"} : action' = [action EXCEPT ![id] = end]
    /\ UNCHANGED <<product, wish, spare, saved, talk, heard, posted, overlap, outages>>

\* What is over is answered from the journal.
Known(id) ==
    /\ posted[id] > 0 /\ action[id] \in {"complete", "failed"} /\ Reply(id, "done")
    /\ UNCHANGED <<product, wish, spare, saved, talk, action, overlap, outages>>

\* The server starts again: the proxy's page is no answer the browser can read.
Outage ==
    /\ outages < MaxOutages /\ outages' = outages + 1
    /\ posted' = [id \in OpIds |-> 0]
    /\ heard' = IF talk = "sent" /\ heard = "none" THEN "lost" ELSE heard
    /\ UNCHANGED <<product, wish, spare, saved, talk, action, overlap>>

Serve(id) == Refuse(id) \/ Begin(id) \/ Finish(id) \/ Throw(id) \/ Accepted(id) \/ Run(id) \/ Known(id)

Next ==
    \/ Send
    \/ Lose
    \/ Hear
    \/ \E readable \in BOOLEAN : Check(readable)
    \/ Poll
    \/ \E id \in OpIds : Serve(id)
    \/ Outage

-----------------------------------------------------------------------------
TypeOK ==
    /\ product \in Products /\ {wish, saved} \subseteq OpIds \cup {NoId} /\ spare \subseteq OpIds
    /\ talk \in {"idle", "sent", "checking"}
    /\ heard \in {"none", "pending", "done", "refused", "lost"}
    /\ posted \in [OpIds -> 0..2] /\ overlap \in BOOLEAN /\ outages \in 0..MaxOutages
    /\ action \in [OpIds -> {"none", "pending", "complete", "failed"}]

\* An operation that is accepted and not over, or that may still be accepted, has its id in
\* the browser, and no other is sent meanwhile - but for one sent twice at once, whose
\* second POST is refused and looked up while the first still waits.
UnfinishedIsSaved ==
    \A id \in OpIds :
        action[id] = "pending" \/ (action[id] = "none" /\ posted[id] > 0) => saved = id \/ overlap
-----------------------------------------------------------------------------
(***************************************************************************)
(* The inductive invariant.  An id is given up for three reasons, and each *)
(* of them must be no mistake: an answer that it is done, a record that    *)
(* says so, or a refusal of the only POST that was open - so that nothing  *)
(* unfinished is left under it.                                            *)
(***************************************************************************)
OneIdAtATime == saved \in {NoId, wish} /\ (talk # "idle" => wish \in OpIds /\ saved = wish)

AnswerIsOfTheWish ==
    /\ heard # "none" => talk = "sent"
    /\ heard = "done" => action[wish] \in {"complete", "failed"}
    /\ heard = "refused" \/ talk = "checking" => posted[wish] = 0

SavedInv == TypeOK /\ OneIdAtATime /\ AnswerIsOfTheWish /\ UnfinishedIsSaved
=============================================================================
