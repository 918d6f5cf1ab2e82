---------------------------- MODULE DemoAccounts ----------------------------
(***************************************************************************)
(* The custodial accounts of the demo: their journal (src/demo/store.js),  *)
(* and the operations of src/demo/service.js that move a visitor's tokens: *)
(* opening an account with its starter allocation, depositing into the     *)
(* pool (src/pool/deposit.js), and bridging to another chain.              *)
(*                                                                         *)
(* Every operation runs under the issuance lock (src/server.js), so one    *)
(* call is at work at a time (ExclusiveWork).  What makes them hard is the *)
(* ledger: a submitted transaction whose receipt is lost may land at any   *)
(* later time or never, and the process may die at every await.  A request *)
(* that is asked for again may then only look.                             *)
(*                                                                         *)
(* Purchases keep their actions in the same journal and are modelled in    *)
(* CoverAgent.                                                             *)
(***************************************************************************)
EXTENDS Naturals

CONSTANTS
    Account,        \* sessions, each with one account
    Request,        \* request identifiers browsers generate
    Terms,          \* what a request may ask for: kind, amount, recipient
    Bridging,       \* the terms that are a bridge transfer; the others deposit
    Opening,        \* stands among the requests for opening the account
    NoTerms, Nobody

ASSUME AccountsAssumption ==
    /\ Opening \notin Request
    /\ Bridging \subseteq Terms
    /\ NoTerms \notin Terms
    /\ Nobody \notin Account

Work == Request \cup {Opening}

(***************************************************************************)
(* The ledger writes of a piece of work, in order; the last moves the      *)
(* tokens:                                                                 *)
(*   opening  1 create, 2 and 3 associate the two tokens, 4 the starter    *)
(*   deposit  1 mint shares, 2 the swap of tokens for shares               *)
(*   bridge   1 gas, 2 the approval, 3 the transfer                        *)
(***************************************************************************)
Op == 1..4

VARIABLES
    state,          \* state[a][w]: the journal's status of a piece of work
    terms,          \* terms[a][r]: what the journal says was asked for
    saved,          \* saved[a][w]: writes the journal knows of
    tx,             \* tx[a][w][o]: the ledger's view of a write
    sends,          \* sends[a][w][o]: how often it was submitted
    call            \* the call at work

vars == <<state, terms, saved, tx, sends, call>>
journal == <<state, terms, saved>>
ledger == <<tx, sends>>

\* Submitted and unanswered, executed, or rejected or expired.
TxState == {"none", "sent", "landed", "void"}

(***************************************************************************)
(* Points of a call:                                                       *)
(*   name       a bridge's recipient is about to be saved                  *)
(*   save       the identifier of the next write is about to be saved      *)
(*   send       the next write is about to be submitted                    *)
(*   receipt    waiting for its receipt                                    *)
(*   reconcile  asked for again: looking for the saved payment             *)
(*   finish     the payment is confirmed                                   *)
(***************************************************************************)
Point == {"idle", "name", "save", "send", "receipt", "reconcile", "finish"}

Idle == [at |-> "idle", account |-> Nobody, work |-> Opening, op |-> 1]

Ended == call' = Idle

Ready(a) == state[a][Opening] = "complete"

\* The last write of a piece of work.
PaymentOp(a, w) ==
    IF w = Opening THEN 4 ELSE IF terms[a][w] \in Bridging THEN 3 ELSE 2

-----------------------------------------------------------------------------
(* Variants of the actions, each with one plausible mistake *)

\* A request asked for again is carried on with.
RetryResumes(a, r, t) ==
    /\ call.at = "idle"
    /\ Ready(a)
    /\ state[a][r] = "pending"
    /\ terms[a][r] = t
    /\ t \in Bridging => 0 \in saved[a][r]
    /\ call' = [at |-> "send", account |-> a, work |-> r, op |-> PaymentOp(a, r)]
    /\ UNCHANGED <<journal, ledger>>

\* The identifier is saved after the write.
SaveLater ==
    /\ call.at = "save"
    /\ call' = [call EXCEPT !.at = "send"]
    /\ UNCHANGED <<journal, ledger>>

\* A saved payment is taken for an executed one.
ReconcileUnseen ==
    /\ call.at = "reconcile"
    /\ call' = [call EXCEPT !.at = "finish"]
    /\ UNCHANGED <<journal, ledger>>

\* There is one more write after the last.
ConfirmPast ==
    /\ call.at = "receipt"
    /\ tx[call.account][call.work][call.op] = "landed"
    /\ call' = [call EXCEPT !.at = "save", !.op = @ + 1]
    /\ UNCHANGED <<journal, ledger>>

-----------------------------------------------------------------------------
Init ==
    /\ state = [a \in Account |-> [w \in Work |-> "none"]]
    /\ terms = [a \in Account |-> [r \in Request |-> NoTerms]]
    /\ saved = [a \in Account |-> [w \in Work |-> {}]]
    /\ tx = [a \in Account |-> [w \in Work |-> [o \in Op |-> "none"]]]
    /\ sends = [a \in Account |-> [w \in Work |-> [o \in Op |-> 0]]]
    /\ call = Idle

-----------------------------------------------------------------------------
(* Calls *)

\* start: the row that says "creating" is the journal of the first three
\* writes.  A session that has a row is never opened again.
Open(a) ==
    /\ call.at = "idle"
    /\ state[a][Opening] = "none"
    /\ state' = [state EXCEPT ![a][Opening] = "pending"]
    /\ saved' = [saved EXCEPT ![a][Opening] = {1, 2, 3}]
    /\ call' = [at |-> "send", account |-> a, work |-> Opening, op |-> 1]
    /\ UNCHANGED <<terms, ledger>>

\* fund and bridge, for a request not seen before: begin() admits it unless
\* another action of the account is pending.
Begin(a, r, t) ==
    /\ call.at = "idle"
    /\ Ready(a)
    /\ state[a][r] = "none"
    /\ \A other \in Request : state[a][other] # "pending"
    /\ state' = [state EXCEPT ![a][r] = "pending"]
    /\ terms' = [terms EXCEPT ![a][r] = t]
    /\ call' = [at |-> IF t \in Bridging THEN "name" ELSE "save",
                account |-> a, work |-> r, op |-> 1]
    /\ UNCHANGED <<saved, ledger>>

\* A bridge saves its recipient after begin(), and needs gas or has enough.
Name ==
    /\ call.at = "name"
    /\ saved' = [saved EXCEPT ![call.account][call.work] = @ \cup {0}]
    /\ \E o \in {1, 2} : call' = [call EXCEPT !.at = "save", !.op = o]
    /\ UNCHANGED <<state, terms, ledger>>

\* fund and bridge, for a pending request with the same terms: with a saved
\* payment its receipt is looked for, otherwise the call is refused.
Retry(a, r, t) ==
    /\ call.at = "idle"
    /\ Ready(a)
    /\ state[a][r] = "pending"
    /\ terms[a][r] = t
    /\ t \in Bridging => 0 \in saved[a][r]
    /\ PaymentOp(a, r) \in saved[a][r]
    /\ call' = [at |-> "reconcile", account |-> a, work |-> r, op |-> PaymentOp(a, r)]
    /\ UNCHANGED <<journal, ledger>>

-----------------------------------------------------------------------------
(* The steps of a call *)

\* checkpoint, patch: the identifier is saved before the write is submitted.
Save ==
    /\ call.at = "save"
    /\ saved' = [saved EXCEPT ![call.account][call.work] = @ \cup {call.op}]
    /\ call' = [call EXCEPT !.at = "send"]
    /\ UNCHANGED <<state, terms, ledger>>

Send ==
    /\ call.at = "send"
    /\ sends' = [sends EXCEPT ![call.account][call.work][call.op] = @ + 1]
    /\ tx' = [tx EXCEPT ![call.account][call.work][call.op] = "sent"]
    /\ call' = [call EXCEPT !.at = "receipt"]
    /\ UNCHANGED journal

\* A receipt of success.  The next write, if there is one, is saved first; the
\* associations of an opening are covered by its row.
Confirm ==
    /\ call.at = "receipt"
    /\ tx[call.account][call.work][call.op] = "landed"
    /\ IF call.op = PaymentOp(call.account, call.work)
       THEN call' = [call EXCEPT !.at = "finish"]
       ELSE call' = [call EXCEPT !.at = IF call.op + 1 \in saved[call.account][call.work]
                                        THEN "send" ELSE "save",
                                 !.op = @ + 1]
    /\ UNCHANGED <<journal, ledger>>

\* reconcileDeposit, bridgeStatus: the mirror shows the payment's success.
Reconcile ==
    /\ call.at = "reconcile"
    /\ tx[call.account][call.work][call.op] = "landed"
    /\ call' = [call EXCEPT !.at = "finish"]
    /\ UNCHANGED <<journal, ledger>>

\* finish, and patch({status:'ready'}) for an opening.
Finish ==
    /\ call.at = "finish"
    /\ state' = [state EXCEPT ![call.account][call.work] = "complete"]
    /\ Ended
    /\ UNCHANGED <<terms, saved, ledger>>

\* An exception or the death of the process: nothing is undone.  A receipt may
\* have been lost, or say that the write was refused.
Abandon ==
    /\ call.at # "idle"
    /\ Ended
    /\ UNCHANGED <<journal, ledger>>

-----------------------------------------------------------------------------
(* The ledger *)

Land(a, w, o) ==
    /\ tx[a][w][o] = "sent"
    /\ tx' = [tx EXCEPT ![a][w][o] = "landed"]
    /\ UNCHANGED <<journal, sends, call>>

Void(a, w, o) ==
    /\ tx[a][w][o] = "sent"
    /\ tx' = [tx EXCEPT ![a][w][o] = "void"]
    /\ UNCHANGED <<journal, sends, call>>

Next ==
    \/ \E a \in Account : Open(a)
    \/ \E a \in Account, r \in Request, t \in Terms : Begin(a, r, t) \/ Retry(a, r, t)
    \/ Name \/ Save \/ Send \/ Confirm \/ Reconcile \/ Finish \/ Abandon
    \/ \E a \in Account, w \in Work, o \in Op : Land(a, w, o) \/ Void(a, w, o)

Spec == Init /\ [][Next]_vars

-----------------------------------------------------------------------------
TypeOK ==
    /\ state \in [Account -> [Work -> {"none", "pending", "complete"}]]
    /\ terms \in [Account -> [Request -> Terms \cup {NoTerms}]]
    /\ saved \in [Account -> [Work -> SUBSET (Op \cup {0})]]
    /\ tx \in [Account -> [Work -> [Op -> TxState]]]
    /\ sends \in [Account -> [Work -> [Op -> Nat]]]
    /\ call \in [at : Point, account : Account \cup {Nobody}, work : Work, op : Op]

\* No ledger write of a request is submitted twice, however often the request
\* is made and wherever the process died.
NoRepeat == \A a \in Account, w \in Work, o \in Op : sends[a][w][o] <= 1

\* What was submitted is in the journal: whatever may still land has left its
\* identifier, and its request can be reconciled.
WriteAhead ==
    \A a \in Account, w \in Work, o \in Op :
        tx[a][w][o] # "none" => o \in saved[a][w] /\ state[a][w] # "none"

\* While one action of an account is uncertain no other begins, so that an
\* account has at most one payment whose fate is open.
OneUncertain ==
    \A a \in Account, v, w \in Work :
        state[a][v] = "pending" /\ state[a][w] = "pending" => v = w

\* What the journal calls complete, or an account ready, was paid on the ledger.
CompleteIsPaid ==
    \A a \in Account, w \in Work :
        state[a][w] = "complete" => tx[a][w][PaymentOp(a, w)] = "landed"

\* A request of an account costs its owner once: no write of it is sent again, none is
\* begun while another's outcome is open, and what is called complete was paid
\* (src/demo/store.js:16-24, src/demo/service.js:32-75).
RequestsCostOnce == NoRepeat /\ OneUncertain /\ CompleteIsPaid

\* Starter allocations, deposits and bridge transfers, and the writes that
\* prepare them, are payments made once and reported when executed.
Writes == Account \X Work \X Op

Once == INSTANCE OncePaid WITH
    Payment <- Writes,
    submitted <- [p \in Writes |-> sends[p[1]][p[2]][p[3]]],
    executed <- {p \in Writes : tx[p[1]][p[2]][p[3]] = "landed"},
    reported <- {p \in Writes : /\ state[p[1]][p[2]] = "complete"
                                /\ p[3] = PaymentOp(p[1], p[2])}

PaidOnce == Once!Spec

-----------------------------------------------------------------------------
(***************************************************************************)
(* The inductive invariant: how far the call is determines which writes    *)
(* have been submitted (Progress), a write is submitted once it is not     *)
(* "none" (Counted), and an account is opened before anything else         *)
(* (OpenedFirst).                                                          *)
(***************************************************************************)
Progress ==
    call.at # "idle" =>
      /\ call.account \in Account
      /\ state[call.account][call.work] = "pending"
      /\ call.op <= PaymentOp(call.account, call.work)
      /\ call.at = "name" => call.work # Opening /\ call.op = 1
      /\ call.work = Opening => {1, 2, 3} \subseteq saved[call.account][call.work]
      /\ call.at = "save" /\ call.work = Opening => call.op = 4
      /\ call.at = "send" => call.op \in saved[call.account][call.work]
      /\ call.at = "receipt" => tx[call.account][call.work][call.op] # "none"
      /\ call.at \in {"name", "save", "send"} =>
           tx[call.account][call.work][call.op] = "none"
      /\ call.at \in {"name", "save", "send", "receipt"} =>
           \A o \in Op : o > call.op => tx[call.account][call.work][o] = "none"
      /\ call.at \in {"reconcile", "finish"} =>
           call.op = PaymentOp(call.account, call.work)
      /\ call.at = "finish" => tx[call.account][call.work][call.op] = "landed"

Counted ==
    \A a \in Account, w \in Work, o \in Op :
        sends[a][w][o] = IF tx[a][w][o] = "none" THEN 0 ELSE 1

OpenedFirst ==
    \A a \in Account, r \in Request : state[a][r] # "none" => Ready(a)

AccountsInv ==
    /\ TypeOK /\ WriteAhead /\ OneUncertain /\ CompleteIsPaid
    /\ Progress /\ Counted /\ OpenedFirst
=============================================================================
