----------------------------- MODULE EvmWallets -----------------------------
(***************************************************************************)
(* The managed wallets of the Sepolia demo: src/demo/evm.js and its        *)
(* journal, src/demo/evm-store.js.  The service signs for each wallet, and *)
(* for a sponsor that pays every wallet's first tokens and missing gas.    *)
(* Every transaction is saved, signed, before it is broadcast; who finds   *)
(* one saved may broadcast the same bytes again and signs no other.        *)
(*                                                                         *)
(* A wallet has one job at a time (the map jobs and the lock "wallet-");   *)
(* the jobs of different wallets go on together and meet at the lock       *)
(* "sponsor".  Broadcasts may fail, before or after they reach the         *)
(* network; transactions stay away from the chain for any time, are        *)
(* dropped, or revert; the process may die at any point.                   *)
(*                                                                         *)
(* Quotes, limits, fees and what is inside a transaction only decide       *)
(* whether a job fails.  Which approvals an operation needs is what the    *)
(* ledger says then: any.  Journal writes that fail are failures of the    *)
(* job; the store's own lock, left by a crash inside a write, is not       *)
(* modelled.                                                               *)
(***************************************************************************)
EXTENDS Naturals

CONSTANTS
    Wallet, Request,
    Starter,        \* what the sponsor sends a new wallet
    Approval,       \* allowances an operation may need
    Main,           \* its last transaction: swap, liquidity or delivery
    Sponsor, Nobody

ASSUME EvmAssumption ==
    /\ Wallet \cap Request = {}
    /\ Main \notin Approval \cup Starter /\ Approval \cap Starter = {}
    /\ Sponsor \notin Wallet
    /\ Nobody \notin Wallet \cup Request

\* The steps of the journal, by name and signer.  A wallet's steps and a
\* request's are kept apart (getScope).
Scope == Wallet \cup Request
Own == {<<n, "wallet">> : n \in Approval \cup {Main}}
Gas == {<<n, "sponsor">> : n \in Approval \cup {Main}}
Start == {<<n, "sponsor">> : n \in Starter}
Step == Own \cup Gas \cup Start
MainStep == <<Main, "wallet">>

VARIABLES
    ready,          \* wallets with their first tokens and gas
    action,         \* action[r]: the operation of a request
    steps,          \* steps[s][n]: what the journal says of a step
    signings,       \* signings[s][n]: how often a step was signed
    tx,             \* tx[s][n]: the network's view of its transaction
    mined,          \* mined[x]: the next nonce of a signer, on the chain
    job             \* job[w]: the work going on for a wallet

vars == <<ready, action, steps, signings, tx, mined, job>>
journal == <<ready, action, steps, signings>>
network == <<tx, mined>>

TxState == {"none", "mempool", "landed", "reverted"}
Mined == {"landed", "reverted"}
Unresolved == {"signed", "submitted"}
Unsaved == [status |-> "none", nonce |-> 0]

(***************************************************************************)
(* Points of a job:                                                        *)
(*   reconcile  looking for steps without a receipt                        *)
(*   prepare    deciding on the next step                                  *)
(*   lock       waiting for the sponsor's lock                             *)
(*   send       a step is about to be signed, or found saved               *)
(*   broadcast  a signed step is about to be broadcast                     *)
(*   accepted   the network has it                                         *)
(*   receipt    waiting for its receipt                                    *)
(*   finish     the operation is about to be called complete               *)
(* back is where the job goes on when the step is confirmed; between steps *)
(* step and back are those of Idle.                                        *)
(***************************************************************************)
Point == {"idle", "reconcile", "prepare", "lock", "send", "broadcast", "accepted",
          "receipt", "finish"}
Idle == [at |-> "idle", scope |-> Nobody, step |-> MainStep, back |-> "prepare"]

Signer(w, n) == IF n[2] = "wallet" THEN w ELSE Sponsor

saved(w) == steps[job[w].scope][job[w].step]

\* Who holds the sponsor's lock.
Sponsoring(w) == job[w].step[2] = "sponsor" /\ job[w].at \in {"send", "broadcast", "accepted", "receipt"}

Goto(w, point) == job' = [job EXCEPT ![w].at = point]

Turn(w, point, n, back) ==
    job' = [job EXCEPT ![w].at = point, ![w].step = n, ![w].back = back]

Checkpoint(s, n, saving) == steps' = [steps EXCEPT ![s][n] = saving]

\* An operation that may still be executed, or was.
Uncertain(r) ==
    \/ \E n \in Step : steps[r][n].status \in Unresolved
    \/ steps[r][MainStep].status = "confirmed"

\* The wallet of a scope, and who signs its steps.
Of(s) == IF s \in Wallet THEN s ELSE action[s].wallet
TxSigner(s, n) == Signer(Of(s), n)

\* A transaction waits for its turn, so that a signer's two counts differ.
Waiting(x) ==
    \E s \in Scope, n \in Step :
        TxSigner(s, n) = x /\ tx[s][n] = "mempool" /\ steps[s][n].nonce = mined[x]

-----------------------------------------------------------------------------
(* Variants of the actions, each with one plausible mistake *)

\* The nonce is that of the last transaction.
SignBehind(w) ==
    LET x == Signer(w, job[w].step) IN
    /\ job[w].at = "send"
    /\ saved(w).status = "none"
    /\ ~Waiting(x)
    /\ Checkpoint(job[w].scope, job[w].step, [status |-> "signed", nonce |-> mined[x] - 1])
    /\ signings' = [signings EXCEPT ![job[w].scope][job[w].step] = @ + 1]
    /\ Goto(w, "broadcast")
    /\ UNCHANGED <<ready, action, network>>

\* A step that was saved is signed again.
SignAgain(w) ==
    LET x == Signer(w, job[w].step) IN
    /\ job[w].at = "send"
    /\ saved(w).status # "confirmed"
    /\ ~Waiting(x)
    /\ Checkpoint(job[w].scope, job[w].step, [status |-> "signed", nonce |-> mined[x]])
    /\ signings' = [signings EXCEPT ![job[w].scope][job[w].step] = @ + 1]
    /\ Goto(w, "broadcast")
    /\ UNCHANGED <<ready, action, network>>

\* Only the last step is looked at before the next.
ReconciledAtOnce(w) ==
    /\ job[w].at = "reconcile"
    /\ IF steps[job[w].scope][MainStep].status # "none"
       THEN Turn(w, "receipt", MainStep, "finish")
       ELSE Goto(w, "prepare")
    /\ UNCHANGED <<journal, network>>

-----------------------------------------------------------------------------
Init ==
    /\ ready = {}
    /\ action = [r \in Request |-> [wallet |-> Nobody, status |-> "none"]]
    /\ steps = [s \in Scope |-> [n \in Step |-> Unsaved]]
    /\ signings = [s \in Scope |-> [n \in Step |-> 0]]
    /\ tx = [s \in Scope |-> [n \in Step |-> "none"]]
    /\ mined = [x \in Wallet \cup {Sponsor} |-> 0]
    /\ job = [w \in Wallet |-> Idle]

-----------------------------------------------------------------------------
(* Requests *)

\* One operation of a wallet at a time.
Begin(r, w) ==
    /\ w \in ready
    /\ action[r].status = "none"
    /\ \A q \in Request : ~(action[q].wallet = w /\ action[q].status = "pending")
    /\ action' = [action EXCEPT ![r] = [wallet |-> w, status |-> "pending"]]
    /\ UNCHANGED <<ready, steps, signings, network, job>>

\* start, execute and resume.
Launch(w, s) ==
    /\ job[w].at = "idle"
    /\ \/ s = w /\ w \notin ready
       \/ s \in Request /\ action[s] = [wallet |-> w, status |-> "pending"]
    /\ job' = [job EXCEPT ![w] = [Idle EXCEPT !.scope = s,
                                              !.at = IF s = w THEN "prepare" ELSE "reconcile"]]
    /\ UNCHANGED <<journal, network>>

-----------------------------------------------------------------------------
(* The job *)

Recheck(w, n) ==
    /\ job[w].at = "reconcile"
    /\ n # MainStep
    /\ steps[job[w].scope][n].status \in Unresolved
    /\ Turn(w, IF n[2] = "wallet" THEN "receipt" ELSE "lock", n, "reconcile")
    /\ UNCHANGED <<journal, network>>

\* The receipt of the last step settles the operation.
Reconciled(w) ==
    /\ job[w].at = "reconcile"
    /\ \A n \in Step \ {MainStep} : steps[job[w].scope][n].status \notin Unresolved
    /\ IF steps[job[w].scope][MainStep].status # "none"
       THEN Turn(w, "receipt", MainStep, "finish")
       ELSE Goto(w, "prepare")
    /\ UNCHANGED <<journal, network>>

PrepareStart(w, n) ==
    /\ job[w].at = "prepare" /\ job[w].scope = w
    /\ steps[w][n].status # "confirmed"
    /\ Turn(w, "lock", n, "prepare")
    /\ UNCHANGED <<journal, network>>

Ready(w) ==
    /\ job[w].at = "prepare" /\ job[w].scope = w
    /\ \A n \in Start : steps[w][n].status = "confirmed"
    /\ ready' = ready \cup {w}
    /\ job' = [job EXCEPT ![w] = Idle]
    /\ UNCHANGED <<action, steps, signings, network>>

Prepare(w, n) ==
    /\ job[w].at = "prepare" /\ job[w].scope \in Request
    /\ Turn(w, "send", n, IF n = MainStep THEN "finish" ELSE "prepare")
    /\ UNCHANGED <<journal, network>>

\* Somebody else has completed the delivery.
Delivered(w) ==
    /\ job[w].at = "prepare" /\ job[w].scope \in Request
    /\ action' = [action EXCEPT ![job[w].scope].status = "complete"]
    /\ job' = [job EXCEPT ![w] = Idle]
    /\ UNCHANGED <<ready, steps, signings, network>>

\* The wallet has too little gas for its step; the sponsor sends it.
TopUp(w, n) ==
    /\ job[w].at = "send" /\ job[w].step = <<n, "wallet">>
    /\ saved(w).status = "none"
    /\ Turn(w, "lock", <<n, "sponsor">>, "send")
    /\ UNCHANGED <<journal, network>>

Lock(w) ==
    /\ job[w].at = "lock"
    /\ \A v \in Wallet : ~Sponsoring(v)
    /\ Goto(w, "send")
    /\ UNCHANGED <<journal, network>>

Found(w) ==
    /\ job[w].at = "send"
    /\ saved(w).status # "none"
    /\ Goto(w, "receipt")
    /\ UNCHANGED <<journal, network>>

\* Nobody else signs for this signer between the count and the checkpoint.
Sign(w) ==
    LET x == Signer(w, job[w].step) IN
    /\ job[w].at = "send"
    /\ saved(w).status = "none"
    /\ ~Waiting(x)
    /\ Checkpoint(job[w].scope, job[w].step, [status |-> "signed", nonce |-> mined[x]])
    /\ signings' = [signings EXCEPT ![job[w].scope][job[w].step] = @ + 1]
    /\ Goto(w, "broadcast")
    /\ UNCHANGED <<ready, action, network>>

\* The network has the transaction, whatever the node answers.
Reach(w, from, to) ==
    /\ job[w].at = from
    /\ tx[job[w].scope][job[w].step] = "none"
    /\ saved(w).nonce >= mined[Signer(w, job[w].step)]
    /\ tx' = [tx EXCEPT ![job[w].scope][job[w].step] = "mempool"]
    /\ Goto(w, to)
    /\ UNCHANGED <<journal, mined>>

Broadcast(w) == Reach(w, "broadcast", "accepted")
Rebroadcast(w) == Reach(w, "receipt", "receipt")

Accepted(w) ==
    /\ job[w].at = "accepted"
    /\ Checkpoint(job[w].scope, job[w].step, [saved(w) EXCEPT !.status = "submitted"])
    /\ Goto(w, "receipt")
    /\ UNCHANGED <<ready, action, signings, network>>

\* With its gas there, the wallet's own step follows.
Receipt(w) ==
    /\ job[w].at = "receipt"
    /\ tx[job[w].scope][job[w].step] = "landed"
    /\ Checkpoint(job[w].scope, job[w].step, [saved(w) EXCEPT !.status = "confirmed"])
    /\ IF job[w].back = "send"
       THEN LET n == <<job[w].step[1], "wallet">> IN
            Turn(w, "send", n, IF n = MainStep THEN "finish" ELSE "prepare")
       ELSE Turn(w, job[w].back, MainStep, "prepare")
    /\ UNCHANGED <<ready, action, signings, network>>

\* What is left to the job then is to fail.
Reverted(w) ==
    /\ job[w].at = "receipt"
    /\ tx[job[w].scope][job[w].step] = "reverted"
    /\ Checkpoint(job[w].scope, job[w].step, [saved(w) EXCEPT !.status = "reverted"])
    /\ UNCHANGED <<ready, action, signings, network, job>>

Finish(w) ==
    /\ job[w].at = "finish"
    /\ action' = [action EXCEPT ![job[w].scope].status = "complete"]
    /\ job' = [job EXCEPT ![w] = Idle]
    /\ UNCHANGED <<ready, steps, signings, network>>

\* A refusal, a limit, a lost receipt; the journal may fail as well.
Fail(w) ==
    /\ job[w].at # "idle"
    /\ action' \in {action} \cup
         {[action EXCEPT ![r].status = "failed"] :
            r \in {q \in Request : q = job[w].scope /\ ~Uncertain(q)}}
    /\ job' = [job EXCEPT ![w] = Idle]
    /\ UNCHANGED <<ready, steps, signings, network>>

-----------------------------------------------------------------------------
(* The environment *)

Crash ==
    /\ \E w \in Wallet : job[w].at # "idle"
    /\ job' = [w \in Wallet |-> Idle]
    /\ UNCHANGED <<journal, network>>

Mine(s, n) ==
    LET x == TxSigner(s, n) IN
    /\ tx[s][n] = "mempool" /\ steps[s][n].nonce = mined[x]
    /\ \E result \in Mined : tx' = [tx EXCEPT ![s][n] = result]
    /\ mined' = [mined EXCEPT ![x] = @ + 1]
    /\ UNCHANGED <<journal, job>>

Drop(s, n) ==
    /\ tx[s][n] = "mempool"
    /\ tx' = [tx EXCEPT ![s][n] = "none"]
    /\ UNCHANGED <<journal, mined, job>>

Work(w) ==
    \/ \E s \in Scope : Launch(w, s)
    \/ \E n \in Step : Recheck(w, n)
    \/ Reconciled(w)
    \/ \E n \in Start : PrepareStart(w, n)
    \/ Ready(w)
    \/ \E n \in Own : Prepare(w, n)
    \/ Delivered(w)
    \/ \E n \in Approval \cup {Main} : TopUp(w, n)
    \/ Lock(w) \/ Found(w) \/ Sign(w) \/ Broadcast(w) \/ Rebroadcast(w) \/ Accepted(w)
    \/ Receipt(w) \/ Reverted(w) \/ Finish(w) \/ Fail(w)

Next ==
    \/ \E r \in Request, w \in Wallet : Begin(r, w)
    \/ \E w \in Wallet : Work(w)
    \/ Crash
    \/ \E s \in Scope, n \in Step : Mine(s, n) \/ Drop(s, n)

Spec == Init /\ [][Next]_vars

-----------------------------------------------------------------------------
TypeOK ==
    /\ ready \in SUBSET Wallet
    /\ action \in [Request -> [wallet : Wallet \cup {Nobody},
                               status : {"none", "pending", "complete", "failed"}]]
    /\ steps \in [Scope -> [Step -> [status : {"none", "signed", "submitted", "confirmed",
                                               "reverted"}, nonce : Nat]]]
    /\ signings \in [Scope -> [Step -> Nat]]
    /\ tx \in [Scope -> [Step -> TxState]]
    /\ mined \in [Wallet \cup {Sponsor} -> Nat]
    /\ job \in [Wallet -> [at : Point, scope : Scope \cup {Nobody}, step : Step,
                           back : {"reconcile", "prepare", "send", "finish"}]]

Transaction == Scope \X Step

Signed(p) == steps[p[1]][p[2]].status # "none"

\* No transaction a signer has signed is replaced by another of its own: no two
\* have the same nonce.
Serialized(x) ==
    \A p, q \in {t \in Transaction : Signed(t) /\ TxSigner(t[1], t[2]) = x} :
        steps[p[1]][p[2]].nonce = steps[q[1]][q[2]].nonce => p = q

WalletsSerialized == \A w \in Wallet : Serialized(w)

\* What docs/AGENT-SECURITY.md:397 says of the sponsor's lock.
SponsorSerialized == Serialized(Sponsor)

\* An operation called failed was not executed and nothing of it will be: the
\* next one may begin.
FailedIsSettled ==
    \A r \in Request :
        action[r].status = "failed" =>
            /\ tx[r][MainStep] # "landed"
            /\ \A n \in Step : steps[r][n].status # "none" => tx[r][n] \in Mined

\* The nonces of a managed wallet (src/demo/evm.js:60-130): no signed transaction is
\* replaced by another, and a failed operation leaves none that may still be mined.
NoncesAreSettled == WalletsSerialized /\ FailedIsSettled

\* Every step of an operation is signed once, and the operation is called
\* complete when its last step was executed: wallets implement OncePaid.
Once == INSTANCE OncePaid WITH
    Payment <- Transaction,
    submitted <- [p \in Transaction |-> signings[p[1]][p[2]]],
    executed <- {p \in Transaction : tx[p[1]][p[2]] = "landed"},
    reported <- {p \in Transaction : /\ p[1] \in Request /\ p[2] = MainStep
                                     /\ action[p[1]].status = "complete"
                                     /\ Signed(p)}

SignedOnce == Once!Spec
=============================================================================
