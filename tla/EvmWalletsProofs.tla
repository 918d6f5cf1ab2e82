------------------------- MODULE EvmWalletsProofs -------------------------
(***************************************************************************)
(* Theorems about the managed wallets, for any wallets, requests and       *)
(* approvals.  That no two transactions of a wallet have one nonce is not  *)
(* inductive: a nonce is fresh only if everything signed before it has     *)
(* been mined.  IInv says so at every point of a job (Operating): all of a *)
(* wallet's own steps are settled but the one its job is at.               *)
(***************************************************************************)
EXTENDS EvmWallets, TLAPS

\* Of the wallet's own steps of a scope: all that are signed are mined; all but
\* one are; the last is not signed.
Settled(s) == \A n \in Own : steps[s][n].status # "none" => tx[s][n] \in Mined
Others(s, n) == \A m \in Own \ {n} : steps[s][m].status # "none" => tx[s][m] \in Mined
Undone(s) == steps[s][MainStep].status = "none"

\* What the journal says agrees with the network.
Recorded ==
    \A s \in Scope, n \in Step :
        /\ signings[s][n] = IF steps[s][n].status = "none" THEN 0 ELSE 1
        /\ steps[s][n].status = "none" => tx[s][n] = "none"
        /\ steps[s][n].status = "confirmed" => tx[s][n] = "landed"
        /\ steps[s][n].status = "reverted" => tx[s][n] = "reverted"

\* One pending operation a wallet.
Requested ==
    /\ \A r \in Request : action[r].status # "none" => action[r].wallet \in Wallet
    /\ \A q, r \in Request :
         action[q].status = "pending" /\ action[r].status = "pending"
           /\ action[q].wallet = action[r].wallet => q = r

\* What was not begun or is over has nothing on its way.
Quiet ==
    /\ \A w \in Wallet, n \in Own : steps[w][n].status = "none"
    /\ \A r \in Request : action[r].status = "none" => \A n \in Step : steps[r][n].status = "none"
    /\ \A r \in Request : action[r].status \in {"complete", "failed"} => Settled(r)

\* A wallet's nonces are those mined, and at most the next one.
Nonces ==
    \A s \in Scope, n \in Own : steps[s][n].status # "none" =>
        IF tx[s][n] \in Mined THEN steps[s][n].nonce < mined[Of(s)]
                              ELSE steps[s][n].nonce = mined[Of(s)]

Distinct ==
    \A s, t \in Scope, m, n \in Own :
        /\ steps[s][m].status # "none" /\ steps[t][n].status # "none"
        /\ Of(s) = Of(t) /\ steps[s][m].nonce = steps[t][n].nonce
        => s = t /\ m = n

\* A job at each of its points: what it works on; a start; a step of an operation;
\* an operation.
Works(w) ==
    \/ job[w].scope = w
    \/ job[w].scope \in Request /\ action[job[w].scope] = [wallet |-> w, status |-> "pending"]

Starting(w) ==
    /\ job[w].at \notin {"reconcile", "finish"} /\ job[w].back = "prepare"
    /\ job[w].at # "prepare" => job[w].step \in Start

Stepping(w) ==
    IF job[w].step \in Own
    THEN IF job[w].back = "reconcile" THEN job[w].at = "receipt"
         ELSE /\ job[w].back = (IF job[w].step = MainStep THEN "finish" ELSE "prepare")
              /\ job[w].at # "lock" /\ Others(job[w].scope, job[w].step)
              /\ job[w].step # MainStep => Undone(job[w].scope)
              /\ job[w].at = "send" => Settled(job[w].scope)
    ELSE \/ job[w].back = "reconcile"
         \/ /\ job[w].back = "send" /\ job[w].step \in Gas /\ Settled(job[w].scope)
            /\ job[w].step[1] # Main => Undone(job[w].scope)

Operating(w) ==
    /\ job[w].at = "prepare" => Settled(job[w].scope) /\ Undone(job[w].scope)
    /\ job[w].at = "finish" => Settled(job[w].scope) /\ tx[job[w].scope][MainStep] = "landed"
    /\ job[w].at \in {"lock", "send", "broadcast", "accepted", "receipt"} => Stepping(w)

AtPoint(w) ==
    job[w].at # "idle" =>
        /\ Works(w)
        /\ job[w].scope = w => Starting(w)
        /\ job[w].scope \in Request => Operating(w)
        /\ job[w].at \in {"broadcast", "accepted", "receipt"} => saved(w).status # "none"

IInv ==
    /\ TypeOK /\ Recorded /\ Requested /\ Quiet /\ Nonces /\ Distinct /\ FailedIsSettled
    /\ \A w \in Wallet : AtPoint(w)

-----------------------------------------------------------------------------
\* The steps by their signers.
LEMMA StepForms ==
    /\ MainStep \in Own /\ Own \subseteq Step /\ Start \subseteq Step /\ Gas \subseteq Step
    /\ \A n \in Step : n \in Own <=> n[2] = "wallet"
    /\ \A n \in Step : n \notin Own <=> n[2] = "sponsor"
    /\ \A n \in Start \cup Gas : n \notin Own
    /\ \A n \in Gas : <<n[1], "wallet">> \in Own
    /\ \A n \in Own : n = <<n[1], "wallet">> /\ n[1] \in Approval \cup {Main}
    /\ \A m \in Approval \cup {Main} : <<m, "wallet">> \in Own /\ <<m, "sponsor">> \in Gas
    /\ \A m : <<m, "wallet">> = MainStep <=> m = Main
<1>1. "wallet" # "sponsor"
  OBVIOUS
<1>2. QED
  BY <1>1 DEF MainStep, Own, Start, Gas, Step

Job == [at : Point, scope : Scope \cup {Nobody}, step : Step,
        back : {"reconcile", "prepare", "send", "finish"}]

\* What a job's move leaves: itself at the point, all other jobs as they were.
LEMMA GotoForm ==
  ASSUME TypeOK, NEW w \in Wallet, NEW point \in Point, Goto(w, point)
  PROVE  /\ job' \in [Wallet -> Job]
         /\ job'[w].at = point /\ job'[w].scope = job[w].scope
         /\ job'[w].step = job[w].step /\ job'[w].back = job[w].back
         /\ \A v \in Wallet \ {w} : job'[v] = job[v]
<1>1. job \in [Wallet -> Job]
  BY DEF TypeOK, Job
<1>2. job' = [job EXCEPT ![w] = [job[w] EXCEPT !.at = point]]
  BY DEF Goto
<1>3. [job[w] EXCEPT !.at = point] \in Job
  BY <1>1 DEF Job
<1>4. QED
  BY <1>1, <1>2, <1>3 DEF Job

LEMMA TurnForm ==
  ASSUME TypeOK, NEW w \in Wallet, NEW point \in Point, NEW n \in Step,
         NEW back \in {"reconcile", "prepare", "send", "finish"}, Turn(w, point, n, back)
  PROVE  /\ job' \in [Wallet -> Job]
         /\ job'[w].at = point /\ job'[w].scope = job[w].scope
         /\ job'[w].step = n /\ job'[w].back = back
         /\ \A v \in Wallet \ {w} : job'[v] = job[v]
<1>1. job \in [Wallet -> Job]
  BY DEF TypeOK, Job
<1> DEFINE j == [at |-> point, scope |-> job[w].scope, step |-> n, back |-> back]
<1>2. j \in Job
  BY <1>1 DEF Job
<1>3. job' = [[[job EXCEPT ![w] = [@ EXCEPT !.at = point]]
                   EXCEPT ![w] = [@ EXCEPT !.step = n]]
                   EXCEPT ![w] = [@ EXCEPT !.back = back]]
  BY DEF Turn
<1>4. [[[job[w] EXCEPT !.at = point] EXCEPT !.step = n] EXCEPT !.back = back] = j
  <2> DEFINE a == [job[w] EXCEPT !.at = point]
             b == [a EXCEPT !.step = n]
  <2>1. a = [at |-> point, scope |-> job[w].scope, step |-> job[w].step, back |-> job[w].back]
    BY <1>1 DEF Job
  <2> HIDE DEF a
  <2>2. b = [at |-> point, scope |-> job[w].scope, step |-> n, back |-> job[w].back]
    BY <2>1
  <2> HIDE DEF b
  <2>3. [b EXCEPT !.back = back] = j
    BY <2>2
  <2>4. QED
    BY <2>3 DEF b, a
<1>5. job' = [job EXCEPT ![w] = j]
  BY <1>1, <1>3, <1>4
<1>6. QED
  BY <1>1, <1>2, <1>5

\* Two jobs never work on one scope.
LEMMA Apart ==
  ASSUME Requested, NEW v \in Wallet, NEW w \in Wallet, v # w,
         AtPoint(v), AtPoint(w), job[v].at # "idle", job[w].at # "idle"
  PROVE  job[v].scope # job[w].scope
<1>1. Works(v) /\ Works(w)
  BY DEF AtPoint
<1>2. QED
  BY <1>1, EvmAssumption DEF Works

\* A step of the journal that is a wallet's own is of a request of that wallet.
LEMMA OwnedBy ==
  ASSUME IInv, NEW s \in Scope, NEW n \in Own, steps[s][n].status # "none"
  PROVE  s \in Request /\ action[s].status # "none" /\ Of(s) = action[s].wallet /\ Of(s) \in Wallet
<1>1. s \in Request
  BY StepForms DEF IInv, Quiet, Scope
<1>2. QED
  BY <1>1, StepForms, EvmAssumption DEF IInv, Quiet, Requested, Of

-----------------------------------------------------------------------------
\* Steps that change neither what is signed nor what is mined.
Same ==
    /\ \A s \in Scope, n \in Step :
         /\ steps'[s][n].status = "none" <=> steps[s][n].status = "none"
         /\ steps'[s][n].nonce = steps[s][n].nonce
         /\ tx'[s][n] \in Mined <=> tx[s][n] \in Mined
         /\ tx'[s][n] = "landed" <=> tx[s][n] = "landed"
    /\ UNCHANGED <<ready, action, signings, mined>>

LEMMA SameAtPoint ==
  ASSUME IInv, Same, NEW v \in Wallet, job'[v] = job[v]
  PROVE  AtPoint(v)'
<1>1. CASE job[v].at = "idle"
  BY <1>1 DEF AtPoint
<1>2. CASE job[v].at # "idle"
  <2>0. PICK t : t = job[v].scope
    OBVIOUS
  <2> USE <2>0
  <2>1. AtPoint(v) /\ t \in Scope /\ job[v].step \in Step
    BY <1>2 DEF IInv, AtPoint, Works, TypeOK, Scope
  <2>2. Own \subseteq Step /\ MainStep \in Own
    BY StepForms
  <2>3. Settled(t)' <=> Settled(t)
    BY <2>1, <2>2 DEF Same, Settled
  <2>4. \A n \in Own : Others(t, n)' <=> Others(t, n)
    BY <2>1, <2>2 DEF Same, Others
  <2>5. Undone(t)' <=> Undone(t)
    BY <2>1, <2>2 DEF Same, Undone
  <2>6. tx'[t][MainStep] = "landed" <=> tx[t][MainStep] = "landed"
    BY <2>1, <2>2 DEF Same
  <2>7. Stepping(v) => Stepping(v)'
    BY <2>3, <2>4, <2>5 DEF Stepping
  <2>8. Operating(v) => Operating(v)'
    BY <2>3, <2>5, <2>6, <2>7 DEF Operating
  <2>9. saved(v)'.status = "none" <=> saved(v).status = "none"
    BY <2>1 DEF Same, saved
  <2>10. Works(v)' /\ (Starting(v) => Starting(v)')
    BY <1>2, <2>1 DEF AtPoint, Works, Starting, Same
  <2>11. QED
    BY <1>2, <2>1, <2>8, <2>9, <2>10 DEF AtPoint
<1>3. QED
  BY <1>1, <1>2

LEMMA SameKeeps ==
  ASSUME IInv, Same, TypeOK', Recorded',
         \A v \in Wallet : job'[v] # job[v] => AtPoint(v)'
  PROVE  IInv'
<1>1. Requested'
  BY DEF IInv, Same, Requested
<1>2. Own \subseteq Step /\ MainStep \in Step /\ Wallet \subseteq Scope /\ Request \subseteq Scope
  BY StepForms DEF Scope
<1>3. \A s \in Scope : Of(s)' = Of(s)
  BY DEF Same, Of
<1>4. \A s \in Scope : Settled(s)' <=> Settled(s)
  BY <1>2 DEF Same, Settled
<1>5. Quiet'
  BY <1>2, <1>4 DEF IInv, Same, Quiet
<1>6. Nonces'
  BY <1>2, <1>3 DEF IInv, Same, Nonces
<1>7. Distinct'
  BY <1>2, <1>3 DEF IInv, Same, Distinct
<1>8. FailedIsSettled'
  BY <1>2 DEF IInv, Same, FailedIsSettled
<1>9. \A v \in Wallet : AtPoint(v)'
  BY SameAtPoint
<1>10. QED
  BY <1>1, <1>5, <1>6, <1>7, <1>8, <1>9 DEF IInv

LEMMA MoveKeeps ==
  ASSUME IInv, NEW w \in Wallet, UNCHANGED <<journal, network>>,
         job' \in [Wallet -> Job],
         \A v \in Wallet \ {w} : job'[v] = job[v],
         AtPoint(w)'
  PROVE  IInv'
<1>1. UNCHANGED <<ready, action, steps, signings, tx, mined>>
  BY DEF journal, network
<1>2. TypeOK' /\ Recorded'
  BY <1>1 DEF IInv, TypeOK, Job, Recorded
<1>3. Same
  BY <1>1 DEF Same
<1>4. QED
  BY <1>2, <1>3, SameKeeps

-----------------------------------------------------------------------------
\* The moves of a job.
LEMMA LaunchKeeps ==
  ASSUME IInv, NEW w \in Wallet, NEW s \in Scope, Launch(w, s)
  PROVE  IInv'
<1> DEFINE j == [Idle EXCEPT !.scope = s, !.at = IF s = w THEN "prepare" ELSE "reconcile"]
<1>1. /\ j \in Job /\ j.scope = s /\ j.at = (IF s = w THEN "prepare" ELSE "reconcile")
      /\ j.back = "prepare" /\ j.step = MainStep
  BY StepForms DEF Idle, Job, Point
<1>2. job' = [job EXCEPT ![w] = j] /\ job \in [Wallet -> Job]
  BY DEF Launch, IInv, TypeOK, Job
<1> HIDE DEF j
<1>3. job' \in [Wallet -> Job] /\ job'[w] = j /\ \A v \in Wallet \ {w} : job'[v] = job[v]
  BY <1>1, <1>2
<1>4. UNCHANGED <<journal, network>>
  BY DEF Launch
<1>5. s = w \/ (s \in Request /\ s # w /\ action[s] = [wallet |-> w, status |-> "pending"])
  BY EvmAssumption DEF Launch
<1>6. AtPoint(w)'
  BY <1>1, <1>3, <1>4, <1>5, EvmAssumption DEF AtPoint, Works, Starting, Operating, journal
<1>7. QED
  BY <1>3, <1>4, <1>6, MoveKeeps

LEMMA MovesKeep ==
  ASSUME IInv, NEW w \in Wallet,
         \/ \E n \in Step : Recheck(w, n)
         \/ Reconciled(w)
         \/ \E n \in Start : PrepareStart(w, n)
         \/ \E n \in Own : Prepare(w, n)
         \/ \E n \in Approval \cup {Main} : TopUp(w, n)
         \/ Lock(w) \/ Found(w)
  PROVE  IInv'
<1>0. PICK s : s = job[w].scope
  OBVIOUS
<1> USE <1>0
<1>1. TypeOK /\ AtPoint(w) /\ job[w] \in Job
  BY DEF IInv, TypeOK, Job
<1>2. UNCHANGED <<journal, network>> /\ UNCHANGED <<action, steps, tx>>
  BY DEF Recheck, Reconciled, PrepareStart, Prepare, TopUp, Lock, Found, journal, network
<1>3. {"lock", "receipt", "prepare", "send", "reconcile"} \subseteq Point
  BY DEF Point
<1>4. job[w].at # "idle"
  BY DEF Recheck, Reconciled, PrepareStart, Prepare, TopUp, Lock, Found
<1>5. s \in Scope /\ Works(w)
  BY <1>1, <1>4 DEF AtPoint, Works, Scope
<1>6. (s = w /\ s \notin Request) \/ (s \in Request /\ s # w)
  BY <1>5, EvmAssumption DEF Works
<1>7. CASE \E n \in Step : Recheck(w, n)
  <2>1. PICK n \in Step : Recheck(w, n)
    BY <1>7
  <2> DEFINE p == IF n[2] = "wallet" THEN "receipt" ELSE "lock"
  <2>2. Turn(w, p, n, "reconcile") /\ p \in Point
    BY <1>3, <2>1 DEF Recheck
  <2>3. /\ job' \in [Wallet -> Job] /\ job'[w].at = p /\ job'[w].scope = s
        /\ job'[w].step = n /\ job'[w].back = "reconcile"
        /\ \A v \in Wallet \ {w} : job'[v] = job[v]
    BY <1>1, <2>2, TurnForm
  <2>4. s \in Request /\ s # w
    BY <1>1, <1>4, <1>6, <2>1 DEF Recheck, AtPoint, Starting
  <2>5. steps[s][n].status # "none"
    BY <2>1 DEF Recheck, Unresolved
  <2>6. Operating(w)'
    BY <2>3, StepForms DEF Operating, Stepping
  <2>7. AtPoint(w)'
    BY <1>2, <1>5, <2>3, <2>4, <2>5, <2>6 DEF AtPoint, Works, saved
  <2>8. QED
    BY <1>2, <2>3, <2>7, MoveKeeps
<1>8. CASE Reconciled(w)
  <2>1. s \in Request /\ s # w
    BY <1>1, <1>4, <1>6, <1>8 DEF Reconciled, AtPoint, Starting
  <2>2. ASSUME NEW n \in Own \ {MainStep}, steps[s][n].status # "none"
        PROVE  tx[s][n] \in Mined
    <3>1. n \in Step /\ steps[s][n].status \in {"confirmed", "reverted"}
      BY <1>1, <1>5, <1>8, <2>2, StepForms DEF Reconciled, Unresolved, TypeOK
    <3>2. QED
      BY <1>5, <3>1 DEF IInv, Recorded, Mined
  <2>3. CASE steps[s][MainStep].status # "none"
    <3>1. Turn(w, "receipt", MainStep, "finish")
      BY <1>8, <2>3 DEF Reconciled
    <3>2. /\ job' \in [Wallet -> Job] /\ job'[w].at = "receipt" /\ job'[w].scope = s
          /\ job'[w].step = MainStep /\ job'[w].back = "finish"
          /\ \A v \in Wallet \ {w} : job'[v] = job[v]
      BY <1>1, <1>3, <3>1, StepForms, TurnForm
    <3>3. Others(s, MainStep)'
      BY <1>2, <2>2 DEF Others
    <3>4. Operating(w)'
      BY <3>2, <3>3, StepForms DEF Operating, Stepping
    <3>5. saved(w)'.status # "none"
      BY <1>2, <2>3, <3>2 DEF saved
    <3>6. AtPoint(w)'
      BY <1>2, <1>5, <2>1, <3>2, <3>4, <3>5 DEF AtPoint, Works
    <3>7. QED
      BY <1>2, <3>2, <3>6, MoveKeeps
  <2>4. CASE steps[s][MainStep].status = "none"
    <3>1. Goto(w, "prepare")
      BY <1>8, <2>4 DEF Reconciled
    <3>2. /\ job' \in [Wallet -> Job] /\ job'[w].at = "prepare" /\ job'[w].scope = s
          /\ \A v \in Wallet \ {w} : job'[v] = job[v]
      BY <1>1, <1>3, <3>1, GotoForm
    <3>3. Settled(s)' /\ Undone(s)'
      BY <1>2, <2>2, <2>4 DEF Settled, Undone
    <3>4. Operating(w)'
      BY <3>2, <3>3 DEF Operating
    <3>5. AtPoint(w)'
      BY <1>2, <1>5, <2>1, <3>2, <3>4 DEF AtPoint, Works
    <3>6. QED
      BY <1>2, <3>2, <3>5, MoveKeeps
  <2>5. QED
    BY <2>3, <2>4
<1>9. CASE \E n \in Start : PrepareStart(w, n)
  <2>1. PICK n \in Start : PrepareStart(w, n)
    BY <1>9
  <2>2. /\ job' \in [Wallet -> Job] /\ job'[w].at = "lock" /\ job'[w].scope = s
        /\ job'[w].step = n /\ job'[w].back = "prepare"
        /\ \A v \in Wallet \ {w} : job'[v] = job[v]
    BY <1>1, <1>3, <2>1, StepForms, TurnForm DEF PrepareStart
  <2>3. AtPoint(w)'
    BY <1>2, <1>5, <1>6, <2>1, <2>2 DEF PrepareStart, AtPoint, Works, Starting
  <2>4. QED
    BY <1>2, <2>2, <2>3, MoveKeeps
<1>10. CASE \E n \in Own : Prepare(w, n)
  <2>1. PICK n \in Own : Prepare(w, n)
    BY <1>10
  <2> DEFINE back == IF n = MainStep THEN "finish" ELSE "prepare"
  <2>2. /\ job' \in [Wallet -> Job] /\ job'[w].at = "send" /\ job'[w].scope = s
        /\ job'[w].step = n /\ job'[w].back = back
        /\ \A v \in Wallet \ {w} : job'[v] = job[v]
    BY <1>1, <1>3, <2>1, StepForms, TurnForm DEF Prepare
  <2>3. s \in Request /\ s # w /\ Settled(s) /\ Undone(s)
    BY <1>1, <1>4, <1>6, <2>1 DEF Prepare, AtPoint, Operating
  <2>4. Others(s, n)' /\ Settled(s)' /\ Undone(s)'
    BY <1>2, <2>3 DEF Others, Settled, Undone
  <2>5. Operating(w)'
    BY <2>2, <2>4 DEF Operating, Stepping
  <2>6. AtPoint(w)'
    BY <1>2, <1>5, <2>2, <2>3, <2>5 DEF AtPoint, Works
  <2>7. QED
    BY <1>2, <2>2, <2>6, MoveKeeps
<1>11. CASE \E n \in Approval \cup {Main} : TopUp(w, n)
  <2>1. PICK m \in Approval \cup {Main} : TopUp(w, m)
    BY <1>11
  <2> DEFINE n == <<m, "sponsor">>
  <2>2. n \in Gas /\ n \in Step /\ n \notin Own /\ n[1] = m /\ job[w].step \in Own
    BY <2>1, StepForms DEF TopUp
  <2>3. /\ job' \in [Wallet -> Job] /\ job'[w].at = "lock" /\ job'[w].scope = s
        /\ job'[w].step = n /\ job'[w].back = "send"
        /\ \A v \in Wallet \ {w} : job'[v] = job[v]
    BY <1>1, <1>3, <2>1, <2>2, TurnForm DEF TopUp
  <2>4. s \in Request /\ s # w
    BY <1>1, <1>4, <1>6, <2>1, <2>2, StepForms DEF TopUp, AtPoint, Starting
  <2>5. Settled(s) /\ (m # Main => Undone(s))
    BY <1>1, <1>4, <2>1, <2>2, <2>4, StepForms DEF TopUp, AtPoint, Operating, Stepping
  <2>6. Settled(s)' /\ (m # Main => Undone(s)')
    BY <1>2, <2>5 DEF Settled, Undone
  <2>7. Operating(w)'
    BY <2>2, <2>3, <2>6 DEF Operating, Stepping
  <2>8. AtPoint(w)'
    BY <1>2, <1>5, <2>3, <2>4, <2>7 DEF AtPoint, Works
  <2>9. QED
    BY <1>2, <2>3, <2>8, MoveKeeps
<1>12. CASE Lock(w)
  <2>1. /\ job' \in [Wallet -> Job] /\ job'[w].at = "send" /\ job'[w].scope = s
        /\ job'[w].step = job[w].step /\ job'[w].back = job[w].back
        /\ \A v \in Wallet \ {w} : job'[v] = job[v]
    BY <1>1, <1>3, <1>12, GotoForm DEF Lock
  <2>2. s \in Request => Stepping(w) /\ job[w].step \notin Own
    BY <1>1, <1>4, <1>12 DEF Lock, AtPoint, Operating, Stepping
  <2>3. s \in Request => Stepping(w)'
    BY <1>2, <2>1, <2>2 DEF Stepping, Settled, Undone
  <2>4. AtPoint(w)'
    BY <1>1, <1>2, <1>4, <1>5, <1>6, <1>12, <2>1, <2>3 DEF Lock, AtPoint, Works, Starting, Operating
  <2>5. QED
    BY <1>2, <2>1, <2>4, MoveKeeps
<1>13. CASE Found(w)
  <2>1. /\ job' \in [Wallet -> Job] /\ job'[w].at = "receipt" /\ job'[w].scope = s
        /\ job'[w].step = job[w].step /\ job'[w].back = job[w].back
        /\ \A v \in Wallet \ {w} : job'[v] = job[v]
    BY <1>1, <1>3, <1>13, GotoForm DEF Found
  <2>2. s \in Request => Stepping(w)
    BY <1>1, <1>4, <1>13 DEF Found, AtPoint, Operating
  <2>3. s \in Request => Stepping(w)'
    BY <1>2, <2>1, <2>2 DEF Stepping, Settled, Undone, Others
  <2>4. AtPoint(w)'
    BY <1>1, <1>2, <1>4, <1>5, <1>6, <1>13, <2>1, <2>3
       DEF Found, AtPoint, Works, Starting, Operating, saved
  <2>5. QED
    BY <1>2, <2>1, <2>4, MoveKeeps
<1>14. QED
  BY <1>7, <1>8, <1>9, <1>10, <1>11, <1>12, <1>13

-----------------------------------------------------------------------------
\* Steps at which a job ends, and the request it worked on may be settled.
LEMMA IdleForm == Idle \in Job /\ Idle.at = "idle"
<1>1. QED
  BY StepForms DEF Idle, Job, Point

LEMMA SettleForm ==
  ASSUME TypeOK, NEW r \in Request, NEW result \in {"complete", "failed"},
         action' = [action EXCEPT ![r].status = result]
  PROVE  /\ action' \in [Request -> [wallet : Wallet \cup {Nobody},
                                     status : {"none", "pending", "complete", "failed"}]]
         /\ action'[r].status = result /\ action'[r].wallet = action[r].wallet
         /\ \A q \in Request \ {r} : action'[q] = action[q]
<1>1. action \in [Request -> [wallet : Wallet \cup {Nobody},
                              status : {"none", "pending", "complete", "failed"}]]
  BY DEF TypeOK
<1>2. action' = [action EXCEPT ![r] = [action[r] EXCEPT !.status = result]]
  BY <1>1
<1>3. QED
  BY <1>1, <1>2

LEMMA SettleKeeps ==
  ASSUME IInv, NEW w \in Wallet, NEW r \in Request, NEW result \in {"complete", "failed"},
         job[w].at # "idle", job[w].scope = r, Settled(r),
         result = "failed" => /\ tx[r][MainStep] # "landed"
                              /\ \A n \in Step : steps[r][n].status # "none" => tx[r][n] \in Mined,
         action' = [action EXCEPT ![r].status = result],
         job' = [job EXCEPT ![w] = Idle],
         UNCHANGED <<ready, steps, signings, tx, mined>>
  PROVE  IInv'
<1>1. TypeOK /\ job \in [Wallet -> Job]
  BY DEF IInv, TypeOK, Job
<1>2. /\ action' \in [Request -> [wallet : Wallet \cup {Nobody},
                                  status : {"none", "pending", "complete", "failed"}]]
      /\ action'[r].status = result /\ action'[r].wallet = action[r].wallet
      /\ \A q \in Request \ {r} : action'[q] = action[q]
  BY <1>1, SettleForm
<1>3. job' \in [Wallet -> Job] /\ job'[w].at = "idle" /\ \A v \in Wallet \ {w} : job'[v] = job[v]
  BY <1>1, IdleForm
<1>4. TypeOK'
  BY <1>1, <1>2, <1>3 DEF TypeOK, Job
<1>5. Recorded'
  BY DEF IInv, Recorded
<1>6. r \notin Wallet /\ action[r] = [wallet |-> w, status |-> "pending"]
  BY EvmAssumption DEF IInv, AtPoint, Works
<1>7. Requested'
  BY <1>2, <1>6 DEF IInv, Requested
<1>8. Quiet'
  BY <1>2, <1>6 DEF IInv, Quiet, Settled
<1>9. \A s \in Scope : Of(s)' = Of(s)
  BY <1>2 DEF Of, Scope
<1>10. Nonces' /\ Distinct'
  BY <1>9 DEF IInv, Nonces, Distinct
<1>11. FailedIsSettled'
  BY <1>2 DEF IInv, FailedIsSettled
<1>12. ASSUME NEW v \in Wallet, v # w
       PROVE  AtPoint(v)'
  <2>1. CASE job[v].at = "idle"
    BY <1>3, <1>12, <2>1 DEF AtPoint
  <2>2. CASE job[v].at # "idle"
    <3>1. job'[v] = job[v] /\ AtPoint(v)
      BY <1>3, <1>12 DEF IInv
    <3>2. job[v].scope # r
      BY <1>12, <2>2, Apart DEF IInv
    <3>3. Works(v)'
      BY <1>2, <2>2, <3>1, <3>2 DEF AtPoint, Works
    <3>4. QED
      BY <3>1, <3>3 DEF AtPoint, Starting, Operating, Stepping, Settled, Others, Undone, saved
  <2>3. QED
    BY <2>1, <2>2
<1>13. \A v \in Wallet : AtPoint(v)'
  BY <1>3, <1>12 DEF AtPoint
<1>14. QED
  BY <1>4, <1>5, <1>7, <1>8, <1>10, <1>11, <1>13 DEF IInv

\* Jobs end, and nothing else happens.
LEMMA EndKeeps ==
  ASSUME IInv, ready' \in SUBSET Wallet, job' \in [Wallet -> Job],
         \A v \in Wallet : job'[v] = job[v] \/ job'[v].at = "idle",
         UNCHANGED <<action, steps, signings, tx, mined>>
  PROVE  IInv'
<1>1. TypeOK' /\ Recorded' /\ Requested'
  BY DEF IInv, TypeOK, Job, Recorded, Requested
<1>2. Quiet' /\ FailedIsSettled'
  BY DEF IInv, Quiet, Settled, FailedIsSettled
<1>3. Nonces' /\ Distinct'
  BY DEF IInv, Nonces, Distinct, Of
<1>4. ASSUME NEW v \in Wallet
      PROVE  AtPoint(v)'
  <2>1. CASE job'[v].at = "idle"
    BY <2>1 DEF AtPoint
  <2>2. CASE job'[v] = job[v]
    BY <2>2 DEF IInv, AtPoint, Works, Starting, Operating, Stepping, Settled, Others, Undone, saved
  <2>3. QED
    BY <2>1, <2>2
<1>5. QED
  BY <1>1, <1>2, <1>3, <1>4 DEF IInv

LEMMA EndsKeep ==
  ASSUME IInv, NEW w \in Wallet, Ready(w) \/ Delivered(w) \/ Finish(w) \/ Fail(w)
  PROVE  IInv'
<1>0. PICK s : s = job[w].scope
  OBVIOUS
<1> USE <1>0
<1>1. TypeOK /\ AtPoint(w) /\ job \in [Wallet -> Job] /\ Recorded
  BY DEF IInv, TypeOK, Job
<1>2. /\ job' = [job EXCEPT ![w] = Idle] /\ job[w].at # "idle"
      /\ UNCHANGED <<steps, signings, tx, mined>>
  BY DEF Ready, Delivered, Finish, Fail, network
<1>3. job' \in [Wallet -> Job] /\ \A v \in Wallet : job'[v] = job[v] \/ job'[v].at = "idle"
  BY <1>1, <1>2, IdleForm
<1>4. s \in Scope /\ (s = w \/ s \in Request)
  BY <1>1, <1>2 DEF AtPoint, Works, Scope
<1>5. CASE Ready(w)
  BY <1>1, <1>2, <1>3, <1>5, EndKeeps DEF Ready, TypeOK
<1>6. CASE Delivered(w)
  <2>1. s \in Request /\ Settled(s)
    BY <1>1, <1>6 DEF Delivered, AtPoint, Operating
  <2>2. action' = [action EXCEPT ![s].status = "complete"] /\ ready' = ready
    BY <1>6 DEF Delivered
  <2>3. QED
    BY <1>2, <2>1, <2>2, SettleKeeps
<1>7. CASE Finish(w)
  <2>1. s \in Request /\ Settled(s)
    BY <1>1, <1>4, <1>7 DEF Finish, AtPoint, Starting, Operating
  <2>2. action' = [action EXCEPT ![s].status = "complete"] /\ ready' = ready
    BY <1>7 DEF Finish
  <2>3. QED
    BY <1>2, <2>1, <2>2, SettleKeeps
<1>8. CASE Fail(w)
  <2>1. CASE action' = action
    BY <1>1, <1>2, <1>3, <1>8, <2>1, EndKeeps DEF Fail, TypeOK
  <2>2. CASE action' # action
    <3>1. s \in Request /\ ~Uncertain(s) /\ action' = [action EXCEPT ![s].status = "failed"]
      BY <1>8, <2>2 DEF Fail
    <3>2. ASSUME NEW n \in Step, steps[s][n].status # "none"
          PROVE  tx[s][n] \in Mined
      <4>1. steps[s][n].status \in {"confirmed", "reverted"}
        BY <1>1, <1>4, <3>1, <3>2 DEF Uncertain, Unresolved, TypeOK
      <4>2. QED
        BY <1>1, <1>4, <4>1 DEF Recorded, Mined
    <3>3. tx[s][MainStep] # "landed"
      <4>1. steps[s][MainStep].status \in {"none", "reverted"} /\ MainStep \in Step
        BY <1>1, <1>4, <3>1, StepForms DEF Uncertain, Unresolved, TypeOK
      <4>2. QED
        BY <1>1, <1>4, <4>1 DEF Recorded
    <3>4. Settled(s)
      BY <3>2, StepForms DEF Settled
    <3>5. ready' = ready
      BY <1>8 DEF Fail
    <3>6. QED
      BY <1>2, <3>1, <3>2, <3>3, <3>4, <3>5, SettleKeeps
  <2>3. QED
    BY <2>1, <2>2
<1>9. QED
  BY <1>5, <1>6, <1>7, <1>8

\* A request begins, or the process dies.
LEMMA BeginKeeps ==
  ASSUME IInv, NEW r \in Request, NEW w \in Wallet, Begin(r, w)
  PROVE  IInv'
<1>1. /\ action' = [action EXCEPT ![r] = [wallet |-> w, status |-> "pending"]]
      /\ action[r].status = "none"
      /\ \A q \in Request : ~(action[q].wallet = w /\ action[q].status = "pending")
      /\ UNCHANGED <<ready, steps, signings, tx, mined, job>>
  BY DEF Begin, network
<1>2. action'[r] = [wallet |-> w, status |-> "pending"] /\ \A q \in Request \ {r} : action'[q] = action[q]
  BY <1>1 DEF IInv, TypeOK
<1>3. TypeOK'
  BY <1>1 DEF IInv, TypeOK
<1>4. Recorded'
  BY <1>1 DEF IInv, Recorded
<1>5. Requested'
  BY <1>1, <1>2 DEF IInv, Requested
<1>6. Quiet' /\ FailedIsSettled'
  BY <1>1, <1>2 DEF IInv, Quiet, Settled, FailedIsSettled
<1>7. ASSUME NEW s \in Scope, NEW n \in Own, steps[s][n].status # "none"
      PROVE  Of(s)' = Of(s)
  <2>1. s \in Request /\ s # r
    BY <1>1, <1>7, OwnedBy
  <2>2. QED
    BY <1>2, <2>1 DEF Of
<1>8. Nonces' /\ Distinct'
  BY <1>1, <1>7 DEF IInv, Nonces, Distinct
<1>9. ASSUME NEW v \in Wallet
      PROVE  AtPoint(v)'
  <2>1. job[v].at # "idle" => Works(v)'
    BY <1>1, <1>2 DEF IInv, AtPoint, Works
  <2>2. QED
    BY <1>1, <2>1
       DEF IInv, AtPoint, Starting, Operating, Stepping, Settled, Others, Undone, saved
<1>10. QED
  BY <1>3, <1>4, <1>5, <1>6, <1>8, <1>9 DEF IInv

LEMMA CrashKeeps ==
  ASSUME IInv, Crash
  PROVE  IInv'
<1>1. UNCHANGED <<ready, action, steps, signings, tx, mined>> /\ job' = [w \in Wallet |-> Idle]
  BY DEF Crash, journal, network
<1>2. job' \in [Wallet -> Job] /\ \A v \in Wallet : job'[v].at = "idle"
  BY <1>1, IdleForm
<1>3. QED
  BY <1>1, <1>2, EndKeeps DEF IInv, TypeOK

-----------------------------------------------------------------------------
\* What a checkpoint and a change of the network write.
Saving == [status : {"none", "signed", "submitted", "confirmed", "reverted"}, nonce : Nat]

LEMMA CheckpointForm ==
  ASSUME TypeOK, NEW s \in Scope, NEW n \in Step, NEW saving \in Saving, Checkpoint(s, n, saving)
  PROVE  /\ steps' \in [Scope -> [Step -> Saving]]
         /\ steps'[s][n] = saving
         /\ \A t \in Scope, m \in Step : t # s \/ m # n => steps'[t][m] = steps[t][m]
<1>1. steps \in [Scope -> [Step -> Saving]]
  BY DEF TypeOK, Saving
<1>2. steps' = [steps EXCEPT ![s] = [steps[s] EXCEPT ![n] = saving]]
  BY <1>1 DEF Checkpoint
<1>3. QED
  BY <1>1, <1>2

LEMMA NetworkForm ==
  ASSUME TypeOK, NEW s \in Scope, NEW n \in Step, NEW fate \in TxState,
         tx' = [tx EXCEPT ![s][n] = fate]
  PROVE  /\ tx' \in [Scope -> [Step -> TxState]]
         /\ tx'[s][n] = fate
         /\ \A t \in Scope, m \in Step : t # s \/ m # n => tx'[t][m] = tx[t][m]
<1>1. tx \in [Scope -> [Step -> TxState]]
  BY DEF TypeOK
<1>2. tx' = [tx EXCEPT ![s] = [tx[s] EXCEPT ![n] = fate]]
  BY <1>1
<1>3. QED
  BY <1>1, <1>2

\* Where a job is when it is not idle.
LEMMA AtWork ==
  ASSUME IInv, NEW w \in Wallet, job[w].at # "idle"
  PROVE  /\ job[w].scope \in Scope /\ job[w].step \in Step
         /\ \/ job[w].scope = w /\ job[w].scope \notin Request
            \/ job[w].scope \in Request /\ job[w].scope \notin Wallet
               /\ action[job[w].scope] = [wallet |-> w, status |-> "pending"]
<1>1. Works(w) /\ job[w].step \in Step
  BY DEF IInv, AtPoint, TypeOK
<1>2. QED
  BY <1>1, EvmAssumption DEF Works, Scope

-----------------------------------------------------------------------------
\* Steps that write the journal or the network and settle nothing new.
LEMMA ReachKeeps ==
  ASSUME IInv, NEW w \in Wallet, Broadcast(w) \/ Rebroadcast(w)
  PROVE  IInv'
<1>0. PICK s, n, to : /\ s = job[w].scope /\ n = job[w].step
                      /\ to = IF job[w].at = "broadcast" THEN "accepted" ELSE "receipt"
  OBVIOUS
<1> USE <1>0
<1>1. /\ job[w].at \in {"broadcast", "receipt"} /\ to \in {"accepted", "receipt"} /\ to \in Point
      /\ tx[s][n] = "none" /\ tx' = [tx EXCEPT ![s][n] = "mempool"] /\ Goto(w, to)
      /\ UNCHANGED <<ready, action, steps, signings, mined>>
  BY DEF Broadcast, Rebroadcast, Reach, journal, Point
<1>2. TypeOK /\ AtPoint(w)
  BY DEF IInv
<1>3. /\ s \in Scope /\ n \in Step /\ steps[s][n].status # "none"
      /\ \/ s = w /\ s \notin Request
         \/ s \in Request /\ s \notin Wallet /\ action[s] = [wallet |-> w, status |-> "pending"]
  BY <1>1, <1>2, AtWork DEF AtPoint, saved
<1>4. /\ tx' \in [Scope -> [Step -> TxState]] /\ tx'[s][n] = "mempool"
      /\ \A t \in Scope, m \in Step : t # s \/ m # n => tx'[t][m] = tx[t][m]
  <2>1. "mempool" \in TxState /\ tx' = [tx EXCEPT ![s][n] = "mempool"]
    BY <1>1 DEF TxState
  <2>2. s \in Scope /\ n \in Step
    BY <1>3
  <2> HIDE <1>0
  <2>3. QED
    BY <1>2, <2>1, <2>2, NetworkForm
<1>5. /\ job' \in [Wallet -> Job]
      /\ job'[w].at = to /\ job'[w].scope = s /\ job'[w].step = n /\ job'[w].back = job[w].back
      /\ \A v \in Wallet \ {w} : job'[v] = job[v]
  BY <1>1, <1>2, GotoForm
<1>6. TypeOK'
  BY <1>1, <1>2, <1>4, <1>5 DEF TypeOK, Job
<1>7. Recorded'
  BY <1>1, <1>3, <1>4 DEF IInv, Recorded
<1>8. Same
  BY <1>1, <1>4 DEF Same, Mined
<1>9. s \in Request => Operating(w)'
  <2>1. SUFFICES ASSUME s \in Request
                 PROVE  Stepping(w)'
    BY <1>1, <1>5 DEF Operating
  <2>2. Stepping(w)
    BY <1>1, <1>2, <2>1 DEF AtPoint, Operating
  <2>3. Settled(s) => Settled(s)'
    BY <1>3, <1>8, StepForms DEF Same, Settled
  <2>4. n \in Own /\ Others(s, n) => Others(s, n)'
    BY <1>3, <1>8, StepForms DEF Same, Others
  <2>5. Undone(s) => Undone(s)'
    BY <1>1 DEF Undone
  <2>6. QED
    BY <1>1, <1>5, <2>2, <2>3, <2>4, <2>5 DEF Stepping
<1>10. saved(w)'.status # "none"
  BY <1>1, <1>3, <1>5 DEF saved
<1>11. AtPoint(w)'
  BY <1>1, <1>2, <1>3, <1>5, <1>9, <1>10 DEF AtPoint, Works, Starting
<1>12. QED
  BY <1>5, <1>6, <1>7, <1>8, <1>11, SameKeeps

LEMMA AcceptedKeeps ==
  ASSUME IInv, NEW w \in Wallet, Accepted(w)
  PROVE  IInv'
<1>0. PICK s, n : s = job[w].scope /\ n = job[w].step
  OBVIOUS
<1> USE <1>0
<1>1. /\ job[w].at = "accepted" /\ Goto(w, "receipt") /\ "receipt" \in Point
      /\ Checkpoint(s, n, [saved(w) EXCEPT !.status = "submitted"])
      /\ UNCHANGED <<ready, action, signings, tx, mined>>
  BY DEF Accepted, network, Point
<1>2. TypeOK /\ AtPoint(w)
  BY DEF IInv
<1>3. /\ s \in Scope /\ n \in Step /\ steps[s][n].status # "none"
      /\ \/ s = w /\ s \notin Request
         \/ s \in Request /\ s \notin Wallet /\ action[s] = [wallet |-> w, status |-> "pending"]
  BY <1>1, <1>2, AtWork DEF AtPoint, saved
<1> DEFINE saving == [saved(w) EXCEPT !.status = "submitted"]
<1>4. saving \in Saving /\ saving.status = "submitted" /\ saving.nonce = steps[s][n].nonce
  <2>1. saved(w) = steps[s][n] /\ steps[s][n] \in Saving
    BY <1>2, <1>3 DEF TypeOK, Saving, saved
  <2>2. QED
    BY <2>1 DEF Saving
<1> HIDE DEF saving
<1>5. /\ steps' \in [Scope -> [Step -> Saving]] /\ steps'[s][n] = saving
      /\ \A t \in Scope, m \in Step : t # s \/ m # n => steps'[t][m] = steps[t][m]
  <2>1. Checkpoint(s, n, saving)
    BY <1>1 DEF saving
  <2>2. QED
    BY <1>2, <1>3, <1>4, <2>1, CheckpointForm
<1>6. /\ job' \in [Wallet -> Job]
      /\ job'[w].at = "receipt" /\ job'[w].scope = s /\ job'[w].step = n /\ job'[w].back = job[w].back
      /\ \A v \in Wallet \ {w} : job'[v] = job[v]
  BY <1>1, <1>2, GotoForm
<1>7. TypeOK'
  BY <1>1, <1>2, <1>5, <1>6 DEF TypeOK, Job, Saving
<1>8. Recorded'
  BY <1>1, <1>3, <1>4, <1>5 DEF IInv, Recorded
<1>9. Same
  BY <1>1, <1>3, <1>4, <1>5 DEF Same
<1>10. s \in Request => Operating(w)'
  <2>1. SUFFICES ASSUME s \in Request
                 PROVE  Stepping(w)'
    BY <1>6 DEF Operating
  <2>2. Stepping(w)
    BY <1>1, <1>2, <2>1 DEF AtPoint, Operating
  <2>3. Settled(s) => Settled(s)'
    BY <1>3, <1>9, StepForms DEF Same, Settled
  <2>4. n \in Own /\ Others(s, n) => Others(s, n)'
    BY <1>3, <1>9, StepForms DEF Same, Others
  <2>5. Undone(s) => Undone(s)'
    BY <1>3, <1>9, StepForms DEF Same, Undone
  <2>6. QED
    BY <1>1, <1>6, <2>2, <2>3, <2>4, <2>5 DEF Stepping
<1>11. saved(w)'.status # "none"
  BY <1>4, <1>5, <1>6 DEF saved
<1>12. AtPoint(w)'
  BY <1>1, <1>2, <1>3, <1>6, <1>10, <1>11 DEF AtPoint, Works, Starting
<1>13. QED
  BY <1>6, <1>7, <1>8, <1>9, <1>12, SameKeeps

LEMMA RevertedKeeps ==
  ASSUME IInv, NEW w \in Wallet, Reverted(w)
  PROVE  IInv'
<1>0. PICK s, n : s = job[w].scope /\ n = job[w].step
  OBVIOUS
<1> USE <1>0
<1>1. /\ job[w].at = "receipt" /\ tx[s][n] = "reverted"
      /\ Checkpoint(s, n, [saved(w) EXCEPT !.status = "reverted"])
      /\ UNCHANGED <<ready, action, signings, tx, mined, job>>
  BY DEF Reverted, network
<1>2. TypeOK /\ AtPoint(w)
  BY DEF IInv
<1>3. s \in Scope /\ n \in Step /\ steps[s][n].status # "none"
  BY <1>1, <1>2, AtWork DEF AtPoint, saved
<1> DEFINE saving == [saved(w) EXCEPT !.status = "reverted"]
<1>4. saving \in Saving /\ saving.status = "reverted" /\ saving.nonce = steps[s][n].nonce
  <2>1. saved(w) = steps[s][n] /\ steps[s][n] \in Saving
    BY <1>2, <1>3 DEF TypeOK, Saving, saved
  <2>2. QED
    BY <2>1 DEF Saving
<1> HIDE DEF saving
<1>5. /\ steps' \in [Scope -> [Step -> Saving]] /\ steps'[s][n] = saving
      /\ \A t \in Scope, m \in Step : t # s \/ m # n => steps'[t][m] = steps[t][m]
  <2>1. Checkpoint(s, n, saving)
    BY <1>1 DEF saving
  <2>2. QED
    BY <1>2, <1>3, <1>4, <2>1, CheckpointForm
<1>6. TypeOK'
  BY <1>1, <1>2, <1>5 DEF TypeOK, Saving
<1>7. Recorded'
  BY <1>1, <1>3, <1>4, <1>5 DEF IInv, Recorded
<1>8. Same
  BY <1>1, <1>3, <1>4, <1>5 DEF Same
<1>9. QED
  BY <1>1, <1>6, <1>7, <1>8, SameKeeps

LEMMA ReceiptKeeps ==
  ASSUME IInv, NEW w \in Wallet, Receipt(w)
  PROVE  IInv'
<1>0. PICK s, n, back : s = job[w].scope /\ n = job[w].step /\ back = job[w].back
  OBVIOUS
<1> USE <1>0
<1>1. /\ job[w].at = "receipt" /\ tx[s][n] = "landed"
      /\ Checkpoint(s, n, [saved(w) EXCEPT !.status = "confirmed"])
      /\ UNCHANGED <<ready, action, signings, tx, mined>>
  BY DEF Receipt, network
<1>2. TypeOK /\ AtPoint(w) /\ job[w] \in Job
  BY DEF IInv, TypeOK, Job
<1>3. /\ s \in Scope /\ n \in Step /\ steps[s][n].status # "none"
      /\ \/ s = w /\ s \notin Request
         \/ s \in Request /\ s \notin Wallet /\ action[s] = [wallet |-> w, status |-> "pending"]
  BY <1>1, <1>2, AtWork DEF AtPoint, saved
<1> DEFINE saving == [saved(w) EXCEPT !.status = "confirmed"]
<1>4. saving \in Saving /\ saving.status = "confirmed" /\ saving.nonce = steps[s][n].nonce
  <2>1. saved(w) = steps[s][n] /\ steps[s][n] \in Saving
    BY <1>2, <1>3 DEF TypeOK, Saving, saved
  <2>2. QED
    BY <2>1 DEF Saving
<1> HIDE DEF saving
<1>5. /\ steps' \in [Scope -> [Step -> Saving]] /\ steps'[s][n] = saving
      /\ \A t \in Scope, m \in Step : t # s \/ m # n => steps'[t][m] = steps[t][m]
  <2>1. Checkpoint(s, n, saving)
    BY <1>1 DEF saving
  <2>2. QED
    BY <1>2, <1>3, <1>4, <2>1, CheckpointForm
<1>6. Same
  BY <1>1, <1>3, <1>4, <1>5 DEF Same
<1>7. Recorded'
  BY <1>1, <1>3, <1>4, <1>5 DEF IInv, Recorded
<1>8. /\ Settled(s) => Settled(s)'
      /\ Undone(s) => Undone(s)'
      /\ n \in Own /\ Others(s, n) => Settled(s)'
  BY <1>1, <1>3, <1>6, StepForms DEF Same, Settled, Others, Undone, Mined
<1>9. s \in Request => Stepping(w)
  BY <1>1, <1>2 DEF AtPoint, Operating
<1>10. CASE back = "send"
  <2> DEFINE m == <<n[1], "wallet">>
             to == IF m = MainStep THEN "finish" ELSE "prepare"
  <2>1. s \in Request
    BY <1>1, <1>2, <1>3, <1>10 DEF AtPoint, Starting
  <2>2. n \in Gas /\ Settled(s) /\ (n[1] # Main => Undone(s))
    BY <1>9, <1>10, <2>1 DEF Stepping
  <2>3. m \in Own /\ m \in Step /\ "send" \in Point /\ (m # MainStep => Undone(s))
    BY <2>2, StepForms DEF Point
  <2>4. Turn(w, "send", m, to)
    BY <1>10 DEF Receipt
  <2>5. /\ job' \in [Wallet -> Job]
        /\ job'[w].at = "send" /\ job'[w].scope = s /\ job'[w].step = m /\ job'[w].back = to
        /\ \A v \in Wallet \ {w} : job'[v] = job[v]
    BY <1>2, <2>3, <2>4, TurnForm
  <2>6. TypeOK'
    BY <1>1, <1>2, <1>5, <2>5 DEF TypeOK, Job, Saving
  <2>7. Settled(s)' /\ Others(s, m)' /\ (m # MainStep => Undone(s)')
    BY <1>8, <2>2, <2>3 DEF Settled, Others
  <2>8. Operating(w)'
    BY <2>3, <2>5, <2>7 DEF Operating, Stepping
  <2>9. AtPoint(w)'
    BY <1>1, <1>3, <2>1, <2>5, <2>8 DEF AtPoint, Works
  <2>10. QED
    BY <1>6, <1>7, <2>5, <2>6, <2>9, SameKeeps
<1>11. CASE back # "send"
  <2>1. Turn(w, back, MainStep, "prepare")
    BY <1>11 DEF Receipt
  <2>2. back \in {"reconcile", "prepare", "finish"} /\ back \in Point /\ MainStep \in Step
    BY <1>2, <1>11, StepForms DEF Job, Point
  <2>3. /\ job' \in [Wallet -> Job]
        /\ job'[w].at = back /\ job'[w].scope = s /\ job'[w].step = MainStep
        /\ job'[w].back = "prepare"
        /\ \A v \in Wallet \ {w} : job'[v] = job[v]
    BY <1>2, <2>1, <2>2, TurnForm
  <2>4. TypeOK'
    BY <1>1, <1>2, <1>5, <2>3 DEF TypeOK, Job, Saving
  <2>5. ASSUME s \in Request, back # "reconcile"
        PROVE  /\ Settled(s)'
               /\ back = "prepare" => Undone(s)'
               /\ back = "finish" => tx'[s][MainStep] = "landed"
    <3>1. /\ n \in Own /\ Others(s, n) /\ back = (IF n = MainStep THEN "finish" ELSE "prepare")
          /\ n # MainStep => Undone(s)
      BY <1>9, <1>11, <2>5 DEF Stepping
    <3>2. QED
      BY <1>1, <1>8, <3>1
  <2>6. s \in Request => Operating(w)'
    BY <2>2, <2>3, <2>5 DEF Operating
  <2>7. AtPoint(w)'
    BY <1>1, <1>2, <1>3, <2>2, <2>3, <2>6 DEF AtPoint, Works, Starting
  <2>8. QED
    BY <1>6, <1>7, <2>3, <2>4, <2>7, SameKeeps
<1>12. QED
  BY <1>10, <1>11

LEMMA DropKeeps ==
  ASSUME IInv, NEW s \in Scope, NEW n \in Step, Drop(s, n)
  PROVE  IInv'
<1>1. /\ tx[s][n] = "mempool" /\ tx' = [tx EXCEPT ![s][n] = "none"]
      /\ UNCHANGED <<ready, action, steps, signings, mined, job>>
  BY DEF Drop, journal
<1>2. TypeOK
  BY DEF IInv
<1>3. /\ tx' \in [Scope -> [Step -> TxState]] /\ tx'[s][n] = "none"
      /\ \A t \in Scope, m \in Step : t # s \/ m # n => tx'[t][m] = tx[t][m]
  BY <1>1, <1>2, NetworkForm DEF TxState
<1>4. TypeOK' /\ Recorded'
  BY <1>1, <1>3 DEF IInv, TypeOK, Recorded
<1>5. Same
  BY <1>1, <1>3 DEF Same, Mined
<1>6. QED
  BY <1>1, <1>4, <1>5, SameKeeps

-----------------------------------------------------------------------------
\* A job whose scope nobody writes stays where its point allows.
LEMMA Bystander ==
  ASSUME IInv, NEW v \in Wallet, job'[v] = job[v], action' = action,
         job[v].at # "idle" => /\ \A n \in Step : /\ steps'[job[v].scope][n] = steps[job[v].scope][n]
                                                  /\ tx'[job[v].scope][n] = tx[job[v].scope][n]
  PROVE  AtPoint(v)'
<1>1. CASE job[v].at = "idle"
  BY <1>1 DEF AtPoint
<1>2. CASE job[v].at # "idle"
  <2>0. PICK t, n : t = job[v].scope /\ n = job[v].step
    OBVIOUS
  <2>1. AtPoint(v) /\ n \in Step /\ \A m \in Step : steps'[t][m] = steps[t][m] /\ tx'[t][m] = tx[t][m]
    BY <1>2, <2>0 DEF IInv, TypeOK
  <2>2. Own \subseteq Step /\ MainStep \in Step
    BY StepForms
  <2>3. Settled(t) => Settled(t)'
    BY <2>1, <2>2 DEF Settled
  <2>4. Others(t, n) => Others(t, n)'
    BY <2>1, <2>2 DEF Others
  <2>5. Undone(t) => Undone(t)'
    BY <2>1, <2>2 DEF Undone
  <2>6. Stepping(v) => Stepping(v)'
    BY <2>0, <2>3, <2>4, <2>5 DEF Stepping
  <2>7. Operating(v) => Operating(v)'
    BY <2>0, <2>1, <2>2, <2>3, <2>5, <2>6 DEF Operating
  <2>8. saved(v)' = saved(v)
    BY <2>0, <2>1 DEF saved
  <2>9. QED
    BY <1>2, <2>1, <2>7, <2>8, <2>0 DEF AtPoint, Works, Starting
<1>3. QED
  BY <1>1, <1>2

\* When a job signs a step of its wallet's, everything else the wallet ever
\* signed has been mined.
LEMMA AllMined ==
  ASSUME IInv, NEW w \in Wallet, job[w].at = "send", job[w].step \in Own,
         NEW t \in Scope, NEW m \in Own, steps[t][m].status # "none", Of(t) = w
  PROVE  tx[t][m] \in Mined
<1>0. PICK s : s = job[w].scope
  OBVIOUS
<1> USE <1>0
<1>1. s \in Request /\ action[s] = [wallet |-> w, status |-> "pending"]
  BY AtWork, StepForms DEF IInv, AtPoint, Starting
<1>2. Settled(s)
  BY <1>1 DEF IInv, AtPoint, Operating, Stepping
<1>3. t \in Request /\ action[t].status # "none" /\ action[t].wallet = w
  BY OwnedBy
<1>4. action[t].status = "pending" => t = s
  BY <1>1, <1>3 DEF IInv, Requested
<1>5. action[t].status \in {"complete", "failed"} => Settled(t)
  BY <1>3 DEF IInv, Quiet
<1>6. action[t].status \in {"none", "pending", "complete", "failed"}
  BY <1>3 DEF IInv, TypeOK
<1>7. Settled(t)
  BY <1>2, <1>3, <1>4, <1>5, <1>6
<1>8. QED
  BY <1>7 DEF Settled

LEMMA SignKeeps ==
  ASSUME IInv, NEW w \in Wallet, Sign(w)
  PROVE  IInv'
<1>0. PICK s, n, x : s = job[w].scope /\ n = job[w].step /\ x = Signer(w, job[w].step)
  OBVIOUS
<1> USE <1>0
<1> DEFINE saving == [status |-> "signed", nonce |-> mined[x]]
<1>1. /\ job[w].at = "send" /\ steps[s][n].status = "none" /\ Goto(w, "broadcast")
      /\ Checkpoint(s, n, saving) /\ "broadcast" \in Point
      /\ signings' = [signings EXCEPT ![s][n] = @ + 1]
      /\ UNCHANGED <<ready, action, tx, mined>>
  BY DEF Sign, network, saved, Point
<1>2. TypeOK /\ AtPoint(w) /\ Recorded
  BY DEF IInv
<1>3. /\ s \in Scope /\ n \in Step
      /\ \/ s = w /\ s \notin Request
         \/ s \in Request /\ s \notin Wallet /\ action[s] = [wallet |-> w, status |-> "pending"]
  BY <1>1, AtWork
<1>4. saving \in Saving /\ saving.status = "signed" /\ saving.nonce = mined[x]
  BY <1>2 DEF TypeOK, Saving, Signer
<1> HIDE DEF saving
<1>5. /\ steps' \in [Scope -> [Step -> Saving]] /\ steps'[s][n] = saving
      /\ \A t \in Scope, m \in Step : t # s \/ m # n => steps'[t][m] = steps[t][m]
  BY <1>1, <1>2, <1>3, <1>4, CheckpointForm
<1>6. /\ job' \in [Wallet -> Job]
      /\ job'[w].at = "broadcast" /\ job'[w].scope = s /\ job'[w].step = n /\ job'[w].back = job[w].back
      /\ \A v \in Wallet \ {w} : job'[v] = job[v]
  BY <1>1, <1>2, GotoForm
<1>7. /\ signings' \in [Scope -> [Step -> Nat]] /\ signings'[s][n] = 1
      /\ \A t \in Scope, m \in Step : t # s \/ m # n => signings'[t][m] = signings[t][m]
  <2>1. signings \in [Scope -> [Step -> Nat]] /\ signings[s][n] = 0
    BY <1>1, <1>2, <1>3 DEF TypeOK, Recorded
  <2>2. signings' = [signings EXCEPT ![s] = [signings[s] EXCEPT ![n] = 1]]
    BY <1>1, <1>3, <2>1
  <2>3. QED
    BY <1>3, <2>1, <2>2
<1>8. TypeOK'
  BY <1>1, <1>2, <1>5, <1>6, <1>7 DEF TypeOK, Job, Saving
<1>9. tx[s][n] = "none"
  BY <1>1, <1>2, <1>3 DEF Recorded
<1>10. Recorded'
  BY <1>1, <1>2, <1>4, <1>5, <1>7, <1>9 DEF Recorded
<1>11. Requested'
  BY <1>1 DEF IInv, Requested
<1>12. s = w => n \notin Own
  BY <1>1, <1>2, StepForms DEF AtPoint, Starting
<1>13. Own \subseteq Step /\ MainStep \in Own
  BY StepForms
<1>14. Quiet'
  <2>1. ASSUME NEW v \in Wallet, NEW m \in Own
        PROVE  steps'[v][m].status = "none"
    <3>1. v # s \/ m # n
      BY <1>3, <1>12
    <3>2. QED
      BY <1>5, <1>13, <3>1 DEF IInv, Quiet, Scope
  <2>2. ASSUME NEW r \in Request, action[r].status = "none"
        PROVE  \A m \in Step : steps'[r][m].status = "none"
    BY <1>3, <1>5, <2>2 DEF IInv, Quiet, Scope
  <2>3. ASSUME NEW r \in Request, action[r].status \in {"complete", "failed"}
        PROVE  Settled(r)'
    BY <1>1, <1>3, <1>5, <1>13, <2>3 DEF IInv, Quiet, Scope, Settled
  <2>4. QED
    BY <1>1, <2>1, <2>2, <2>3 DEF Quiet
<1>15. \A t \in Scope : Of(t)' = Of(t)
  BY <1>1 DEF Of
<1>16. n \in Own => s \in Request /\ Of(s) = w /\ x = w
  BY <1>3, <1>12, StepForms DEF Of, Signer
<1>17. Nonces'
  <2>1. ASSUME NEW t \in Scope, NEW m \in Own, steps'[t][m].status # "none"
        PROVE  IF tx[t][m] \in Mined THEN steps'[t][m].nonce < mined[Of(t)]
                                     ELSE steps'[t][m].nonce = mined[Of(t)]
    <3>1. CASE t = s /\ m = n
      BY <1>4, <1>5, <1>9, <1>16, <3>1 DEF Mined
    <3>2. CASE t # s \/ m # n
      BY <1>5, <1>13, <2>1, <3>2 DEF IInv, Nonces
    <3>3. QED
      BY <3>1, <3>2
  <2>2. QED
    BY <1>1, <1>15, <2>1 DEF Nonces
<1>18. ASSUME NEW t \in Scope, NEW m \in Own, n \in Own, t # s \/ m # n,
              steps[t][m].status # "none", Of(t) = Of(s)
       PROVE  steps[t][m].nonce # saving.nonce
  <2>1. tx[t][m] \in Mined
    BY <1>1, <1>16, <1>18, AllMined
  <2>2. steps[t][m].nonce < mined[w] /\ mined[w] \in Nat /\ steps[t][m].nonce \in Nat
    BY <1>2, <1>13, <1>16, <1>18, <2>1 DEF IInv, Nonces, TypeOK
  <2>3. QED
    BY <1>4, <1>16, <1>18, <2>2
<1>19. Distinct'
  <2>1. ASSUME NEW t \in Scope, NEW u \in Scope, NEW m \in Own, NEW k \in Own,
               steps'[t][m].status # "none", steps'[u][k].status # "none",
               Of(t) = Of(u), steps'[t][m].nonce = steps'[u][k].nonce
        PROVE  t = u /\ m = k
    <3>1. CASE t = s /\ m = n
      BY <1>5, <1>13, <1>18, <2>1, <3>1
    <3>2. CASE u = s /\ k = n
      BY <1>5, <1>13, <1>18, <2>1, <3>2
    <3>3. CASE (t # s \/ m # n) /\ (u # s \/ k # n)
      BY <1>5, <1>13, <2>1, <3>3 DEF IInv, Distinct
    <3>4. QED
      BY <3>1, <3>2, <3>3
  <2>2. QED
    BY <1>15, <2>1 DEF Distinct
<1>20. FailedIsSettled'
  BY <1>1, <1>3, <1>5, <1>13 DEF IInv, FailedIsSettled, Scope
<1>21. s \in Request => Operating(w)'
  <2>1. SUFFICES ASSUME s \in Request
                 PROVE  Stepping(w)'
    BY <1>6 DEF Operating
  <2>2. Stepping(w)
    BY <1>1, <1>2, <2>1 DEF AtPoint, Operating
  <2>3. Others(s, n) => Others(s, n)'
    BY <1>1, <1>3, <1>5, <1>13 DEF Others
  <2>4. n # MainStep /\ Undone(s) => Undone(s)'
    BY <1>1, <1>3, <1>5, <1>13 DEF Undone
  <2>5. n \notin Own /\ Settled(s) => Settled(s)'
    BY <1>1, <1>3, <1>5, <1>13 DEF Settled
  <2>6. QED
    BY <1>1, <1>6, <1>13, <2>2, <2>3, <2>4, <2>5 DEF Stepping
<1>22. saved(w)'.status # "none"
  BY <1>4, <1>5, <1>6 DEF saved
<1>23. AtPoint(w)'
  BY <1>1, <1>2, <1>3, <1>6, <1>21, <1>22 DEF AtPoint, Works, Starting
<1>24. ASSUME NEW v \in Wallet, v # w
       PROVE  AtPoint(v)'
  <2>1. job'[v] = job[v] /\ action' = action
    BY <1>1, <1>6, <1>24
  <2>2. ASSUME job[v].at # "idle", NEW m \in Step
        PROVE  /\ steps'[job[v].scope][m] = steps[job[v].scope][m]
               /\ tx'[job[v].scope][m] = tx[job[v].scope][m]
    <3>1. job[v].scope \in Scope /\ job[v].scope # s
      BY <1>1, <1>24, <2>2, AtWork, Apart DEF IInv
    <3>2. QED
      BY <1>1, <1>5, <2>2, <3>1
  <2>3. QED
    BY <2>1, <2>2, Bystander
<1>25. QED
  BY <1>8, <1>10, <1>11, <1>14, <1>17, <1>19, <1>20, <1>23, <1>24 DEF IInv

-----------------------------------------------------------------------------
\* The chain takes a transaction whose turn it is.
LEMMA MineKeeps ==
  ASSUME IInv, NEW s \in Scope, NEW n \in Step, Mine(s, n)
  PROVE  IInv'
<1>1. PICK x, result : /\ x = TxSigner(s, n) /\ result \in Mined
                       /\ tx[s][n] = "mempool" /\ steps[s][n].nonce = mined[x]
                       /\ tx' = [tx EXCEPT ![s][n] = result]
                       /\ mined' = [mined EXCEPT ![x] = @ + 1]
                       /\ UNCHANGED <<ready, action, steps, signings, job>>
  BY DEF Mine, journal
<1>2. TypeOK /\ Recorded /\ Own \subseteq Step /\ MainStep \in Own
  BY StepForms DEF IInv
<1>3. /\ tx' \in [Scope -> [Step -> TxState]] /\ tx'[s][n] = result
      /\ \A t \in Scope, m \in Step : t # s \/ m # n => tx'[t][m] = tx[t][m]
  <2>1. result \in TxState
    BY <1>1 DEF TxState, Mined
  <2>2. QED
    BY <1>1, <1>2, <2>1, NetworkForm
<1>4. steps[s][n].status \notin {"none", "confirmed", "reverted"}
  BY <1>1, <1>2 DEF Recorded
<1>5. IF n \in Own THEN s \in Request /\ x = Of(s) /\ x \in Wallet ELSE x = Sponsor
  <2>1. CASE n \in Own
    BY <1>1, <1>4, <2>1, OwnedBy, StepForms DEF TxSigner, Signer
  <2>2. CASE n \notin Own
    BY <1>1, <2>2, StepForms DEF TxSigner, Signer
  <2>3. QED
    BY <2>1, <2>2
<1>6. /\ mined' \in [Wallet \cup {Sponsor} -> Nat] /\ mined'[x] = mined[x] + 1
      /\ \A y \in Wallet : y # x => mined'[y] = mined[y]
  BY <1>1, <1>2, <1>5 DEF TypeOK
<1>7. TypeOK'
  BY <1>1, <1>2, <1>3, <1>6 DEF TypeOK
<1>8. Recorded'
  BY <1>1, <1>2, <1>3, <1>4 DEF Recorded
<1>9. Requested'
  BY <1>1 DEF IInv, Requested
<1>10. \A t \in Scope, m \in Step : tx[t][m] \in Mined => tx'[t][m] = tx[t][m]
  BY <1>1, <1>3 DEF Mined
<1>11. /\ \A t \in Scope : Settled(t) => Settled(t)'
       /\ \A t \in Scope, m \in Own : Others(t, m) => Others(t, m)'
       /\ \A t \in Scope : Undone(t)' <=> Undone(t)
  BY <1>1, <1>2, <1>10 DEF Settled, Others, Undone
<1>12. Quiet'
  BY <1>1, <1>11 DEF IInv, Quiet, Scope
<1>13. \A t \in Scope : Of(t)' = Of(t)
  BY <1>1 DEF Of
<1>14. Distinct'
  BY <1>1, <1>13 DEF IInv, Distinct
<1>15. Nonces'
  <2>1. ASSUME NEW t \in Scope, NEW m \in Own, steps[t][m].status # "none"
        PROVE  IF tx'[t][m] \in Mined THEN steps[t][m].nonce < mined'[Of(t)]
                                      ELSE steps[t][m].nonce = mined'[Of(t)]
    <3>1. Of(t) \in Wallet /\ mined[Of(t)] \in Nat /\ steps[t][m].nonce \in Nat /\ m \in Step
      BY <1>2, <2>1, OwnedBy DEF TypeOK
    <3>2. IF tx[t][m] \in Mined THEN steps[t][m].nonce < mined[Of(t)]
                                ELSE steps[t][m].nonce = mined[Of(t)]
      BY <2>1 DEF IInv, Nonces
    <3>3. CASE t = s /\ m = n
      <4>1. x = Of(t) /\ tx'[t][m] \in Mined
        BY <1>1, <1>3, <1>5, <3>3
      <4>2. QED
        BY <1>1, <1>6, <3>1, <3>3, <4>1
    <3>4. CASE t # s \/ m # n
      <4>1. tx'[t][m] = tx[t][m]
        BY <1>3, <3>1, <3>4
      <4>2. CASE Of(t) # x
        BY <1>6, <3>1, <3>2, <4>1, <4>2
      <4>3. CASE Of(t) = x
        <5>1. n \in Own /\ Of(s) = x
          BY <1>5, <3>1, <4>3, EvmAssumption
        <5>2. steps[t][m].nonce # mined[x]
          BY <1>1, <1>4, <2>1, <3>4, <4>3, <5>1 DEF IInv, Distinct
        <5>3. QED
          BY <1>6, <3>1, <3>2, <4>1, <4>3, <5>2
      <4>4. QED
        BY <4>2, <4>3
    <3>5. QED
      BY <3>3, <3>4
  <2>2. QED
    BY <1>1, <1>13, <2>1 DEF Nonces
<1>16. FailedIsSettled'
  <2>1. ASSUME NEW r \in Request, action[r].status = "failed"
        PROVE  /\ tx'[r][MainStep] # "landed"
               /\ \A m \in Step : steps[r][m].status # "none" => tx'[r][m] \in Mined
    <3>1. /\ tx[r][MainStep] # "landed" /\ r \in Scope
          /\ \A m \in Step : steps[r][m].status # "none" => tx[r][m] \in Mined
      BY <2>1 DEF IInv, FailedIsSettled, Scope
    <3>2. r # s
      BY <1>1, <1>4, <3>1 DEF Mined
    <3>3. QED
      BY <1>2, <1>3, <3>1, <3>2
  <2>2. QED
    BY <1>1, <2>1 DEF FailedIsSettled
<1>17. ASSUME NEW v \in Wallet
       PROVE  AtPoint(v)'
  <2>1. CASE job[v].at = "idle"
    BY <1>1, <2>1 DEF AtPoint
  <2>2. CASE job[v].at # "idle"
    <3>0. PICK t : t = job[v].scope
      OBVIOUS
    <3> USE <3>0
    <3>1. AtPoint(v) /\ t \in Scope /\ job[v].step \in Step
      BY <2>2, AtWork DEF IInv
    <3>2. Stepping(v) => Stepping(v)'
      BY <1>1, <1>11, <3>1 DEF Stepping
    <3>3. tx[t][MainStep] = "landed" => tx'[t][MainStep] = "landed"
      BY <1>2, <1>10, <3>1 DEF Mined
    <3>4. Operating(v) => Operating(v)'
      BY <1>1, <1>11, <3>1, <3>2, <3>3 DEF Operating
    <3>5. QED
      BY <1>1, <3>1, <3>4 DEF AtPoint, Works, Starting, saved
  <2>3. QED
    BY <2>1, <2>2
<1>18. QED
  BY <1>7, <1>8, <1>9, <1>12, <1>14, <1>15, <1>16, <1>17 DEF IInv

-----------------------------------------------------------------------------
LEMMA InitIInv == Init => IInv
<1> SUFFICES ASSUME Init
             PROVE  IInv
  OBVIOUS
<1>1. /\ \A s \in Scope, n \in Step : steps[s][n].status = "none" /\ tx[s][n] = "none" /\ signings[s][n] = 0
      /\ \A r \in Request : action[r] = [wallet |-> Nobody, status |-> "none"]
      /\ \A w \in Wallet : job[w] = Idle
  BY DEF Init, Unsaved
<1>2. Own \subseteq Step /\ MainStep \in Step
  BY StepForms
<1>3. TypeOK
  BY IdleForm DEF Init, TypeOK, Unsaved, TxState, Job
<1>4. Recorded /\ Requested /\ Nonces /\ Distinct
  BY <1>1, <1>2 DEF Recorded, Requested, Nonces, Distinct
<1>5. Quiet /\ FailedIsSettled
  BY <1>1, <1>2 DEF Quiet, FailedIsSettled, Scope
<1>6. \A w \in Wallet : AtPoint(w)
  BY <1>1, IdleForm DEF AtPoint
<1>7. QED
  BY <1>3, <1>4, <1>5, <1>6 DEF IInv

LEMMA NextIInv == IInv /\ [Next]_vars => IInv'
<1> SUFFICES ASSUME IInv, [Next]_vars
             PROVE  IInv'
  OBVIOUS
<1>1. CASE UNCHANGED vars
  BY <1>1, EndKeeps DEF vars, IInv, TypeOK, Job
<1>2. ASSUME NEW w \in Wallet, Work(w)
      PROVE  IInv'
  <2>1. CASE \E s \in Scope : Launch(w, s)
    BY <2>1, LaunchKeeps
  <2>2. CASE Ready(w) \/ Delivered(w) \/ Finish(w) \/ Fail(w)
    BY <2>2, EndsKeep
  <2>3. CASE Sign(w)
    BY <2>3, SignKeeps
  <2>4. CASE Broadcast(w) \/ Rebroadcast(w)
    BY <2>4, ReachKeeps
  <2>5. CASE Accepted(w)
    BY <2>5, AcceptedKeeps
  <2>6. CASE Receipt(w)
    BY <2>6, ReceiptKeeps
  <2>7. CASE Reverted(w)
    BY <2>7, RevertedKeeps
  <2>8. QED
    BY <1>2, <2>1, <2>2, <2>3, <2>4, <2>5, <2>6, <2>7, MovesKeep DEF Work
<1>3. QED
  BY <1>1, <1>2, BeginKeeps, CrashKeeps, MineKeeps, DropKeeps DEF Next

LEMMA WalletsInvariant == Spec => []IInv
<1>1. QED
  BY InitIInv, NextIInv, PTL DEF Spec

\* Every variable of the wallets keeps its type.
THEOREM WalletsTyping == Spec => []TypeOK
<1>1. IInv => TypeOK
  BY DEF IInv
<1>2. QED
  BY <1>1, WalletsInvariant, PTL

\* No two transactions that one wallet signed have the same nonce, for any
\* number of wallets and operations, whatever is lost, dropped or restarted.
THEOREM WalletsSerialize == Spec => []WalletsSerialized
<1>1. ASSUME IInv
      PROVE  WalletsSerialized
  <2>1. SUFFICES ASSUME NEW w \in Wallet, NEW p \in Transaction, NEW q \in Transaction,
                        Signed(p), TxSigner(p[1], p[2]) = w, Signed(q), TxSigner(q[1], q[2]) = w,
                        steps[p[1]][p[2]].nonce = steps[q[1]][q[2]].nonce
                 PROVE  p = q
    BY DEF WalletsSerialized, Serialized
  <2>2. ASSUME NEW s \in Scope, NEW n \in Step, TxSigner(s, n) = w
        PROVE  n \in Own /\ Of(s) = w
    BY <2>2, StepForms, EvmAssumption DEF TxSigner, Signer
  <2>3. p[1] = q[1] /\ p[2] = q[2]
    BY <1>1, <2>1, <2>2 DEF IInv, Distinct, Signed, Transaction
  <2>4. QED
    BY <2>3 DEF Transaction
<1>2. QED
  BY <1>1, WalletsInvariant, PTL

\* An operation called failed left no transaction that may still be mined, and
\* its last step did not land.
THEOREM FailedSettled == Spec => []FailedIsSettled
<1>1. IInv => FailedIsSettled
  BY DEF IInv
<1>2. QED
  BY <1>1, WalletsInvariant, PTL

\* Both, as the run checks them: the nonces of a managed wallet are settled.
THEOREM WalletsSettleNonces == Spec => []NoncesAreSettled
<1>1. QED
  BY WalletsSerialize, FailedSettled, PTL DEF NoncesAreSettled

-----------------------------------------------------------------------------
\* What the refinement sees of a step that signs nothing: the operations it
\* completes are those whose signed last step has landed.
LEMMA TransactionForm ==
  /\ \A p \in Transaction : p[1] \in Scope /\ p[2] \in Step /\ p = <<p[1], p[2]>>
  /\ \A s \in Scope, n \in Step : <<s, n>> \in Transaction
<1>1. QED
  BY DEF Transaction

Completed == {p \in Transaction : /\ p[1] \in Request /\ p[2] = MainStep
                                  /\ action[p[1]].status = "complete"
                                  /\ Signed(p)}
Landed == {p \in Transaction : tx[p[1]][p[2]] = "landed"}
Signings == [p \in Transaction |-> signings[p[1]][p[2]]]

\* A completed operation stays so.
LEMMA CompletedKept ==
  ASSUME IInv, UNCHANGED action,
         \A s \in Request : action[s].status = "complete" =>
           (steps'[s][MainStep].status = "none" <=> steps[s][MainStep].status = "none")
  PROVE  Completed' = Completed
<1>1. \A p \in Transaction : p \in Completed' <=> p \in Completed
  BY DEF Completed, Signed
<1>2. QED
  BY <1>1 DEF Completed

\* Signing is Submit.
LEMMA SignSubmits ==
  ASSUME IInv, NEW w \in Wallet, Sign(w)
  PROVE  Once!Next
<1>0. PICK s, n, p : s = job[w].scope /\ n = job[w].step /\ p = <<s, n>>
  OBVIOUS
<1>1. /\ job[w].at = "send" /\ steps[s][n].status = "none"
      /\ \E saving : Checkpoint(s, n, saving)
      /\ signings' = [signings EXCEPT ![s][n] = @ + 1]
      /\ UNCHANGED <<action, tx>>
  BY <1>0 DEF Sign, network, saved
<1>2. s \in Scope /\ n \in Step /\ (s \in Request => action[s].status = "pending") /\ p \in Transaction
  <2>1. s \in Scope /\ n \in Step
    BY <1>0, <1>1, AtWork
  <2>2. s \in Request => action[s] = [wallet |-> w, status |-> "pending"]
    BY <1>0, <1>1, AtWork
  <2>3. QED
    BY <1>0, <2>1, <2>2 DEF Transaction
<1>3. signings \in [Scope -> [Step -> Nat]] /\ signings[s][n] = 0 /\ steps \in [Scope -> [Step -> Saving]]
  BY <1>1, <1>2 DEF IInv, TypeOK, Recorded, Saving
<1>4. \A t \in Scope : t # s => steps'[t] = steps[t]
  BY <1>1, <1>2, <1>3 DEF Checkpoint
<1>5. Completed' = Completed
  BY <1>1, <1>2, <1>4, CompletedKept DEF Scope
<1>6. \A q \in Transaction : signings'[q[1]][q[2]] = IF q = p THEN 1 ELSE signings[q[1]][q[2]]
  BY <1>0, <1>1, <1>2, <1>3, TransactionForm
<1>7. Signings[p] = 0 /\ Signings' = [Signings EXCEPT ![p] = 1]
  BY <1>0, <1>2, <1>3, <1>6 DEF Signings
<1>8. Landed' = Landed
  BY <1>1 DEF Landed
<1>9. PICK q \in Transaction : q = p
  BY <1>2
<1>10. Once!Submit(q)
  BY <1>5, <1>7, <1>8, <1>9 DEF Once!Submit, Completed, Landed, Signings
<1>11. QED
  BY <1>10 DEF Once!Next

\* Mining a transaction that succeeds is Execute.
LEMMA MineExecutes ==
  ASSUME IInv, NEW s \in Scope, NEW n \in Step, Mine(s, n)
  PROVE  Once!Next \/ UNCHANGED <<Signings, Landed, Completed>>
<1>0. PICK p, fate : /\ p = <<s, n>> /\ fate \in Mined
                     /\ tx[s][n] = "mempool" /\ tx' = [tx EXCEPT ![s][n] = fate]
  BY DEF Mine
<1>1. UNCHANGED <<action, steps, signings>>
  BY DEF Mine, journal
<1>2. /\ tx' \in [Scope -> [Step -> TxState]] /\ tx'[s][n] = fate
      /\ \A t \in Scope, m \in Step : t # s \/ m # n => tx'[t][m] = tx[t][m]
  BY <1>0, NetworkForm DEF IInv, TxState, Mined
<1>3. Signings' = Signings /\ Completed' = Completed
  BY <1>1, CompletedKept DEF Signings
<1>4. p \in Transaction /\ p \notin Landed /\ Signings[p] = 1
  <2>1. p \in Transaction /\ p[1] = s /\ p[2] = n
    BY <1>0 DEF Transaction
  <2>2. steps[s][n].status # "none" /\ signings[s][n] = 1
    BY <1>0 DEF IInv, Recorded
  <2>3. QED
    BY <1>0, <2>1, <2>2 DEF Signings, Landed
<1>5. \A q \in Transaction : q \in Landed' <=> q \in Landed \/ (q = p /\ fate = "landed")
  BY <1>0, <1>2, TransactionForm DEF Landed
<1>6. CASE fate = "landed"
  <2>1. Landed' = Landed \cup {p}
    BY <1>4, <1>5, <1>6 DEF Landed
  <2>2. PICK q \in Transaction : q = p
    BY <1>4
  <2>3. Once!Execute(q)
    BY <1>3, <1>4, <2>1, <2>2 DEF Once!Execute, Completed, Landed, Signings
  <2>4. QED
    BY <2>3 DEF Once!Next
<1>7. CASE fate # "landed"
  <2>1. Landed' = Landed
    BY <1>5, <1>7 DEF Landed
  <2>2. QED
    BY <1>3, <2>1
<1>8. QED
  BY <1>6, <1>7

\* A request that is settled leaves the completed ones, and joins them only if
\* its last step is signed: Finish is Report.
LEMMA EndReports ==
  ASSUME IInv, NEW w \in Wallet, Finish(w) \/ Delivered(w) \/ Fail(w)
  PROVE  Once!Next \/ UNCHANGED <<Signings, Landed, Completed>>
<1>0. PICK s, p : s = job[w].scope /\ p = <<s, MainStep>>
  OBVIOUS
<1>1. UNCHANGED <<steps, signings, tx>> /\ job[w].at # "idle"
  BY DEF Finish, Delivered, Fail, network
<1>2. Signings' = Signings /\ Landed' = Landed
  BY <1>1 DEF Signings, Landed
<1>3. CASE action' = action
  BY <1>1, <1>2, <1>3, CompletedKept
<1>4. CASE action' # action
  <2>1. PICK result \in {"complete", "failed"} :
          /\ s \in Request /\ action' = [action EXCEPT ![s].status = result]
          /\ result = "complete" => Finish(w) \/ Delivered(w)
    <3>1. CASE Fail(w)
      BY <1>0, <1>4, <3>1 DEF Fail
    <3>2. CASE Finish(w) \/ Delivered(w)
      <4>1. s \in Request
        BY <1>0, <1>1, <3>2, AtWork DEF IInv, AtPoint, Starting, Finish, Delivered
      <4>2. QED
        BY <1>0, <3>2, <4>1 DEF Finish, Delivered
    <3>3. QED
      BY <3>1, <3>2
  <2>2. /\ action'[s].status = result /\ action[s].status = "pending"
        /\ \A q \in Request \ {s} : action'[q] = action[q]
    <3>1. action[s] = [wallet |-> w, status |-> "pending"]
      BY <1>0, <1>1, <2>1, AtWork
    <3>2. TypeOK
      BY DEF IInv
    <3>3. s \in Request /\ action' = [action EXCEPT ![s].status = result]
      BY <2>1
    <3>4. /\ action'[s].status = result
          /\ \A q \in Request \ {s} : action'[q] = action[q]
      BY <2>1, <3>2, <3>3, SettleForm
    <3>5. QED
      BY <3>1, <3>4
  <2>3. /\ p \in Transaction /\ p[1] = s /\ p[2] = MainStep /\ p \notin Completed
    BY <1>0, <2>1, <2>2, StepForms DEF Transaction, Scope, Completed
  <2>4. \A q \in Transaction :
          q \in Completed' <=> q \in Completed
                               \/ (q = p /\ result = "complete" /\ steps[s][MainStep].status # "none")
    <3>1. ASSUME NEW q \in Transaction
          PROVE  Signed(q)' <=> Signed(q)
      BY <1>1 DEF Signed
    <3>2. ASSUME NEW q \in Transaction, q # p, q[1] \in Request, q[2] = MainStep
          PROVE  action'[q[1]] = action[q[1]]
      BY <1>0, <2>2, <3>2, TransactionForm
    <3>3. Signed(p) <=> steps[s][MainStep].status # "none"
      BY <2>3 DEF Signed
    <3>4. QED
      BY <2>1, <2>2, <2>3, <3>1, <3>2, <3>3 DEF Completed
  <2>5. CASE result = "complete" /\ steps[s][MainStep].status # "none"
    <3>1. Finish(w)
      BY <1>0, <2>1, <2>5 DEF Delivered, IInv, AtPoint, Operating, Undone
    <3>2. p \in Landed
      BY <1>0, <2>1, <2>3, <3>1 DEF Finish, IInv, AtPoint, Operating, Landed
    <3>3. Completed' = Completed \cup {p}
      BY <2>3, <2>4, <2>5 DEF Completed
    <3>4. PICK q \in Transaction : q = p
      BY <2>3
    <3>5. Once!Report(q)
      BY <1>2, <2>3, <3>2, <3>3, <3>4 DEF Once!Report, Completed, Landed, Signings
    <3>6. QED
      BY <3>5 DEF Once!Next
  <2>6. CASE ~(result = "complete" /\ steps[s][MainStep].status # "none")
    <3>1. \A q \in Transaction : q \in Completed' <=> q \in Completed
      BY <2>4, <2>6
    <3>2. Completed' = Completed
      BY <3>1 DEF Completed
    <3>3. QED
      BY <1>2, <3>2
  <2>7. QED
    BY <2>5, <2>6
<1>5. QED
  BY <1>3, <1>4

\* The other steps are stutters.
LEMMA ReachStutters ==
  ASSUME IInv, NEW w \in Wallet, Broadcast(w) \/ Rebroadcast(w)
  PROVE  UNCHANGED <<Signings, Landed, Completed>>
<1>0. PICK s, n : s = job[w].scope /\ n = job[w].step
  OBVIOUS
<1>1. /\ tx[s][n] = "none" /\ tx' = [tx EXCEPT ![s][n] = "mempool"] /\ job[w].at # "idle"
      /\ UNCHANGED <<action, steps, signings>>
  BY <1>0 DEF Broadcast, Rebroadcast, Reach, journal
<1>2. s \in Scope /\ n \in Step
  BY <1>0, <1>1, AtWork
<1>3. /\ tx' \in [Scope -> [Step -> TxState]]
      /\ tx'[s][n] = "mempool"
      /\ \A t \in Scope, m \in Step : t # s \/ m # n => tx'[t][m] = tx[t][m]
  <2>1. "mempool" \in TxState /\ TypeOK /\ tx' = [tx EXCEPT ![s][n] = "mempool"]
    BY <1>1 DEF TxState, IInv
  <2>2. QED
    BY <1>2, <2>1, NetworkForm
<1>4. \A q \in Transaction : q \in Landed' <=> q \in Landed
  BY <1>1, <1>3, TransactionForm DEF Landed
<1>5. Landed' = Landed
  BY <1>4 DEF Landed
<1>6. QED
  BY <1>1, <1>5, CompletedKept DEF Signings

LEMMA JournalStutters ==
  ASSUME IInv, NEW w \in Wallet, Accepted(w) \/ Receipt(w) \/ Reverted(w)
  PROVE  UNCHANGED <<Signings, Landed, Completed>>
<1>0. PICK s, n, status : /\ s = job[w].scope /\ n = job[w].step
                          /\ status \in {"submitted", "confirmed", "reverted"}
                          /\ Checkpoint(s, n, [saved(w) EXCEPT !.status = status])
  BY DEF Accepted, Receipt, Reverted
<1>1. job[w].at \in {"accepted", "receipt"} /\ UNCHANGED <<action, tx, signings>>
  BY DEF Accepted, Receipt, Reverted, network
<1>2. s \in Scope /\ n \in Step /\ steps[s][n].status # "none"
  BY <1>0, <1>1, AtWork DEF IInv, AtPoint, saved
<1>3. steps \in [Scope -> [Step -> Saving]] /\ saved(w) = steps[s][n]
  BY <1>0 DEF IInv, TypeOK, Saving, saved
<1>4. [saved(w) EXCEPT !.status = status] \in Saving /\ [saved(w) EXCEPT !.status = status].status = status
  BY <1>0, <1>2, <1>3 DEF Saving
<1>5. /\ steps'[s][n].status = status
      /\ \A t \in Scope, m \in Step : t # s \/ m # n => steps'[t][m] = steps[t][m]
  BY <1>0, <1>2, <1>4, CheckpointForm DEF IInv
<1>6. \A t \in Request : steps'[t][MainStep].status = "none" <=> steps[t][MainStep].status = "none"
  BY <1>0, <1>2, <1>5, StepForms DEF Scope
<1>7. QED
  BY <1>1, <1>6, CompletedKept DEF Signings, Landed

LEMMA DropStutters ==
  ASSUME IInv, NEW s \in Scope, NEW n \in Step, Drop(s, n)
  PROVE  UNCHANGED <<Signings, Landed, Completed>>
<1>1. tx[s][n] = "mempool" /\ tx' = [tx EXCEPT ![s][n] = "none"] /\ UNCHANGED <<action, steps, signings>>
  BY DEF Drop, journal
<1>2. /\ tx'[s][n] = "none"
      /\ \A t \in Scope, m \in Step : t # s \/ m # n => tx'[t][m] = tx[t][m]
  BY <1>1, NetworkForm DEF IInv, TxState
<1>3. \A q \in Transaction : q \in Landed' <=> q \in Landed
  BY <1>1, <1>2, TransactionForm DEF Landed
<1>4. Landed' = Landed
  BY <1>3 DEF Landed
<1>5. QED
  BY <1>1, <1>4, CompletedKept DEF Signings

LEMMA BeginStutters ==
  ASSUME IInv, NEW r \in Request, NEW w \in Wallet, Begin(r, w)
  PROVE  UNCHANGED <<Signings, Landed, Completed>>
<1>1. /\ action[r].status = "none"
      /\ action' = [action EXCEPT ![r] = [wallet |-> w, status |-> "pending"]]
      /\ UNCHANGED <<steps, signings, tx>>
  BY DEF Begin, network
<1>2. action'[r].status = "pending" /\ \A q \in Request \ {r} : action'[q] = action[q]
  BY <1>1 DEF IInv, TypeOK
<1>3. \A p \in Transaction : p \in Completed' <=> p \in Completed
  BY <1>1, <1>2 DEF Completed, Signed
<1>4. Completed' = Completed
  BY <1>3 DEF Completed
<1>5. QED
  BY <1>1, <1>4 DEF Signings, Landed

\* Every step of an operation is signed once and an operation is called complete
\* when its last step was executed, for any wallets and any losses.
THEOREM WalletsSignOnce == Spec => SignedOnce
<1>1. ASSUME Init
      PROVE  Once!Init
  <2>1. \A p \in Transaction : signings[p[1]][p[2]] = 0 /\ tx[p[1]][p[2]] = "none" /\ ~Signed(p)
    BY <1>1, TransactionForm DEF Init, Signed, Unsaved
  <2>2. QED
    BY <2>1 DEF Once!Init
<1>2. ASSUME IInv, [Next]_vars
      PROVE  Once!Next \/ UNCHANGED <<Signings, Landed, Completed>>
  <2>1. CASE UNCHANGED <<action, steps, signings, tx>>
    BY <1>2, <2>1, CompletedKept DEF Signings, Landed
  <2>2. ASSUME NEW w \in Wallet, Work(w)
        PROVE  Once!Next \/ UNCHANGED <<Signings, Landed, Completed>>
    <3>1. CASE Sign(w)
      BY <1>2, <3>1, SignSubmits
    <3>2. CASE Finish(w) \/ Delivered(w) \/ Fail(w)
      BY <1>2, <3>2, EndReports
    <3>3. CASE Broadcast(w) \/ Rebroadcast(w)
      BY <1>2, <3>3, ReachStutters
    <3>4. CASE Accepted(w) \/ Receipt(w) \/ Reverted(w)
      BY <1>2, <3>4, JournalStutters
    <3>5. QED
      BY <2>1, <2>2, <3>1, <3>2, <3>3, <3>4
         DEF Work, Launch, Recheck, Reconciled, PrepareStart, Ready, Prepare, TopUp, Lock, Found,
             journal, network
  <2>3. CASE Crash
    BY <2>1, <2>3 DEF Crash, journal, network
  <2>4. CASE UNCHANGED vars
    BY <2>1, <2>4 DEF vars
  <2>5. QED
    BY <1>2, <2>2, <2>3, <2>4, BeginStutters, MineExecutes, DropStutters DEF Next
<1>3. ASSUME IInv, [Next]_vars
      PROVE  [Once!Next]_<<[p \in Transaction |-> signings[p[1]][p[2]]],
                           {p \in Transaction : tx[p[1]][p[2]] = "landed"},
                           {p \in Transaction : /\ p[1] \in Request /\ p[2] = MainStep
                                                /\ action[p[1]].status = "complete"
                                                /\ Signed(p)}>>
  BY <1>2, <1>3 DEF Signings, Landed, Completed
<1>4. QED
  BY <1>1, <1>3, WalletsInvariant, PTL DEF Spec, SignedOnce, Once!Spec
=============================================================================
