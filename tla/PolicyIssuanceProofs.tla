------------------------ MODULE PolicyIssuanceProofs ------------------------
(***************************************************************************)
(* What issuing policies promises: first the lock it runs under, for every *)
(* number of processes and calls; then the issuing itself, for every       *)
(* number of requests, every payout size and every balance.                *)
(***************************************************************************)
EXTENDS IssuanceLock, PolicyIssuance, FiniteSetTheorems, TLAPS

-----------------------------------------------------------------------------
(* The issuance lock.  For any processes, any calls and any crashes it keeps *)
(* its inductive invariant LockInv, hence mutual exclusion, and implements   *)
(* ExclusiveWork; what runs under the lock uses only that last theorem.      *)

\* Before any call is made the invariant holds: nothing is locked or marked.
LEMMA InitLockInv == LockInit => LockInv
  BY HomeAssumption, MarkerAssumption, UnlockedAssumption
     DEF LockInit, LockInv, LockTypeOK, HolderIsLocked, RunnersAreAlive, HolderMarker, Locked, Point

\* One step of one call keeps the invariant (src/issuance-lock.js:22-53): the
\* call is the holder of the flock whenever it touches the marker.
LEMMA CallKeepsLockInv ==
  ASSUME LockInv, NEW c \in Caller, Begin(c) \/ Step(c)
  PROVE  LockInv'
<1> USE HomeAssumption, MarkerAssumption, UnlockedAssumption
        DEF LockInv, LockTypeOK, HolderIsLocked, RunnersAreAlive, HolderMarker,
            Goto, Locked, Point
<1>1. CASE Begin(c)
  BY <1>1 DEF Begin
<1>2. CASE Acquire(c)
  BY <1>2 DEF Acquire
<1>3. CASE GiveUp(c)
  BY <1>3 DEF GiveUp
<1>4. CASE CreateMarker(c)
  BY <1>4 DEF CreateMarker
<1>5. CASE FindMarker(c)
  BY <1>5 DEF FindMarker
<1>6. CASE JudgeUnreadable(c)
  BY <1>6 DEF JudgeUnreadable
<1>7. CASE JudgeDead(c)
  BY <1>7 DEF JudgeDead
<1>8. CASE JudgeAlive(c)
  BY <1>8 DEF JudgeAlive
<1>9. CASE JudgeTimeout(c)
  BY <1>9 DEF JudgeTimeout
<1>10. CASE Reclaim(c)
  BY <1>10 DEF Reclaim
<1>11. CASE WriteOwner(c)
  BY <1>11 DEF WriteOwner
<1>12. CASE Finish(c)
  BY <1>12 DEF Finish
<1>13. CASE Cleanup(c)
  BY <1>13 DEF Cleanup
<1>14. CASE CleanupFails(c)
  BY <1>14 DEF CleanupFails
<1>15. CASE Release(c)
  BY <1>15 DEF Release
<1>16. CASE FailUnowned(c)
  BY <1>16 DEF FailUnowned
<1>17. CASE FailWrite(c)
  BY <1>17 DEF FailWrite
<1>18. QED
  BY <1>1, <1>2, <1>3, <1>4, <1>5, <1>6, <1>7, <1>8, <1>9, 
     <1>10, <1>11, <1>12, <1>13, <1>14, <1>15, <1>16, <1>17 DEF Step

\* The death of a process keeps the invariant: it frees exactly its own locks.
LEMMA CrashKeepsLockInv ==
  ASSUME LockInv, NEW p \in Pid, Die(p)
  PROVE  LockInv'
<1> USE HomeAssumption, MarkerAssumption, UnlockedAssumption
        DEF LockInv, Die, LockTypeOK, Point, Locked
<1>1. LockTypeOK'
  OBVIOUS
<1>2. HolderIsLocked'
  BY DEF HolderIsLocked
<1>3. RunnersAreAlive'
  BY DEF RunnersAreAlive
<1>4. HolderMarker'
  BY DEF HolderMarker
<1>5. QED BY <1>1, <1>2, <1>3, <1>4

\* Starting a process, under a fresh or a reused pid, keeps the invariant.
LEMMA StartKeepsLockInv ==
  ASSUME LockInv, NEW p \in Pid, Start(p)
  PROVE  LockInv'
  BY HomeAssumption, MarkerAssumption, UnlockedAssumption
     DEF LockInv, Start, LockTypeOK, HolderIsLocked, RunnersAreAlive, HolderMarker

\* The inductive step over the whole next-state relation.
LEMMA NextLockInv == LockInv /\ [LockNext]_lockVars => LockInv'
<1> SUFFICES ASSUME LockInv, [LockNext]_lockVars PROVE LockInv'
  OBVIOUS
<1>1. ASSUME NEW c \in Caller, Begin(c) \/ Step(c) PROVE LockInv'
  BY <1>1, CallKeepsLockInv
<1>2. ASSUME NEW p \in Pid, Die(p) PROVE LockInv'
  BY <1>2, CrashKeepsLockInv
<1>3. ASSUME NEW p \in Pid, Start(p) PROVE LockInv'
  BY <1>3, StartKeepsLockInv
<1>4. CASE UNCHANGED lockVars
  BY <1>4 DEF lockVars, LockInv, LockTypeOK, HolderIsLocked, RunnersAreAlive, HolderMarker
<1>5. QED
  BY <1>1, <1>2, <1>3, <1>4 DEF LockNext

\* Every reachable state satisfies the inductive invariant.
THEOREM LockInvariant == LockSpec => []LockInv
<1>1. QED
  BY InitLockInv, NextLockInv, PTL DEF LockSpec

\* The variables keep their types.
THEOREM LockTyping == LockSpec => []LockTypeOK
<1>1. LockInv => LockTypeOK
  BY DEF LockInv
<1>2. QED
  BY <1>1, LockInvariant, PTL

\* The work of two calls never runs at once, for any number of processes and
\* calls: both would hold the same flock.
THEOREM LockMutex == LockSpec => []Mutex
<1>1. LockInv => Mutex
  BY DEF LockInv, HolderIsLocked, Mutex, Locked
<1>2. QED
  BY <1>1, LockInvariant, PTL

\* While work runs, the marker on disk names its process: recovery of a dead
\* owner's marker never removes the replacement (src/issuance-lock.js:34).
THEOREM LockOwnerMarked == LockSpec => []OwnerMarked
<1>1. LockInv => OwnerMarked
  BY DEF LockInv, HolderMarker, OwnerMarked
<1>2. QED
  BY <1>1, LockInvariant, PTL

\* An unreadable marker that nobody holds open refuses every later call, for
\* good (tests/safety.test.js:64).
THEOREM LockFailsClosed == LockSpec => FailsClosed
<1>1. LockInv /\ [LockNext]_lockVars => [Abandoned => Abandoned' /\ \A c \in Caller : pc'[c] # "work"]_lockVars
  <2> SUFFICES ASSUME LockInv, LockNext, Abandoned
               PROVE  Abandoned' /\ \A c \in Caller : pc'[c] # "work"
    BY DEF lockVars
  <2> USE HomeAssumption, MarkerAssumption, UnlockedAssumption
        DEF LockInv, LockTypeOK, HolderMarker, HolderIsLocked, Abandoned, Locked, Point
  <2>1. ASSUME NEW c \in Caller, Begin(c) \/ Step(c)
        PROVE  Abandoned' /\ \A d \in Caller : pc'[d] # "work"
    BY <2>1 DEF Goto, Begin, Step, Acquire, GiveUp, CreateMarker, FindMarker,
         JudgeUnreadable, JudgeDead, JudgeAlive, JudgeTimeout, Reclaim, WriteOwner,
         Finish, Cleanup, CleanupFails, Release, FailUnowned, FailWrite
  <2>2. ASSUME NEW p \in Pid, Die(p) \/ Start(p)
        PROVE  Abandoned' /\ \A d \in Caller : pc'[d] # "work"
    BY <2>2 DEF Die, Start
  <2>3. QED
    BY <2>1, <2>2 DEF LockNext
<1>2. QED
  BY <1>1, LockInvariant, PTL DEF LockSpec, FailsClosed

\* The lock implements the abstract specification of exclusive work.
THEOREM LockImplementsExclusiveWork == LockSpec => ExclusiveSpec
<1> DEFINE working == {c \in Caller : pc[c] = "work"}
<1>1. LockInit => Promise!Init
  BY DEF LockInit, Promise!Init
<1>2. LockInv /\ [LockNext]_lockVars => [Promise!Next]_working
  <2> SUFFICES ASSUME LockInv, LockInv', LockNext
               PROVE  Promise!Next \/ working' = working
    BY NextLockInv DEF lockVars
  <2> USE HomeAssumption, MarkerAssumption, UnlockedAssumption
        DEF LockInv, LockTypeOK, HolderIsLocked, Locked, Point
  <2>1. ASSUME NEW c \in Caller, WriteOwner(c)
        PROVE  Promise!Next
    <3>1. working = {} /\ working' = {c}
      BY <2>1 DEF WriteOwner, Goto
    <3>2. QED
      BY <3>1 DEF Promise!Next, Promise!Enter
  <2>2. ASSUME NEW c \in Caller, Finish(c)
        PROVE  Promise!Next
    <3>1. working = {c} /\ working' = {}
      BY <2>2 DEF Finish, Goto
    <3>2. QED
      BY <3>1 DEF Promise!Next, Promise!Leave
  <2>3. ASSUME NEW c \in Caller, Begin(c) \/ Step(c), ~WriteOwner(c), ~Finish(c)
        PROVE  working' = working
    BY <2>3 DEF Goto, Begin, Step, Acquire, GiveUp, CreateMarker, FindMarker,
         JudgeUnreadable, JudgeDead, JudgeAlive, JudgeTimeout, Reclaim,
         Cleanup, CleanupFails, Release, FailUnowned, FailWrite
  <2>4. ASSUME NEW p \in Pid, Die(p)
        PROVE  Promise!Next \/ working' = working
    <3>1. CASE \E c \in Caller : pc[c] = "work" /\ home[c] = p
      <4>1. PICK c \in Caller : pc[c] = "work" /\ home[c] = p
        BY <3>1
      <4>2. working = {c} /\ working' = {}
        BY <4>1, <2>4 DEF Die
      <4>3. QED
        BY <4>2 DEF Promise!Next, Promise!Leave
    <3>2. CASE ~ \E c \in Caller : pc[c] = "work" /\ home[c] = p
      BY <3>2, <2>4 DEF Die
    <3>3. QED
      BY <3>1, <3>2
  <2>5. ASSUME NEW p \in Pid, Start(p)
        PROVE  working' = working
    BY <2>5, HomeAssumption, MarkerAssumption, UnlockedAssumption DEF Start
  <2>6. QED
    BY <2>1, <2>2, <2>3, <2>4, <2>5 DEF LockNext
<1>3. QED
  BY <1>1, <1>2, LockInvariant, PTL DEF LockSpec, ExclusiveSpec, Promise!Spec

\* While work runs nobody else works and its marker stands, for any processes and calls.
THEOREM LockGuardsWork == LockSpec => []WorkIsGuarded
<1>1. QED
  BY LockMutex, LockOwnerMarked, PTL DEF WorkIsGuarded
-----------------------------------------------------------------------------
(* How Total, the sum of what is promised, moves with one promise *)

\* The sum is a natural number.
LEMMA TotalIsNat ==
  ASSUME NEW f \in [Request -> Amount]
  PROVE  IsFiniteSet(Units(f)) /\ Total(f) \in Nat
<1>1. IsFiniteSet(Request \X (1..MaxUnits))
  <2>1. IsFiniteSet(1..MaxUnits)
    BY TotalsAssumption, FS_Interval
  <2>2. QED
    BY <2>1, TotalsAssumption, FS_Product
<1>2. Units(f) \in SUBSET (Request \X (1..MaxUnits))
  BY DEF Units
<1>3. IsFiniteSet(Units(f))
  BY <1>1, <1>2, FS_Subset
<1>4. QED
  BY <1>3, FS_CardinalityType DEF Total

\* Promising nowhere more promises no more in sum.
LEMMA TotalMonotone ==
  ASSUME NEW f \in [Request -> Amount], NEW g \in [Request -> Amount],
         \A r \in Request : f[r] <= g[r]
  PROVE  Total(f) <= Total(g)
<1>1. Units(f) \in SUBSET Units(g)
  <2> SUFFICES ASSUME NEW r \in Request, NEW i \in 1..MaxUnits, i <= f[r]
               PROVE  i <= g[r]
    BY DEF Units
  <2>1. f[r] \in Nat /\ g[r] \in Nat /\ f[r] <= g[r]
    BY TotalsAssumption DEF Amount
  <2>2. QED
    BY <2>1, TotalsAssumption
<1>2. IsFiniteSet(Units(g))
  BY TotalIsNat
<1>3. QED
  BY <1>1, <1>2, FS_Subset DEF Total

\* Nothing promised sums to nothing.
LEMMA TotalOfNothing == Total([r \in Request |-> 0]) = 0
<1>1. Units([r \in Request |-> 0]) = {}
  BY TotalsAssumption DEF Units
<1>2. QED
  BY <1>1, FS_EmptySet DEF Total

\* A promise where there was none adds its amount to the sum.
LEMMA TotalRaise ==
  ASSUME NEW f \in [Request -> Amount], NEW r \in Request, f[r] = 0,
         NEW u \in Amount
  PROVE  Total([f EXCEPT ![r] = u]) = Total(f) + u
<1> DEFINE g == [f EXCEPT ![r] = u]
           new == {r} \X (1..u)
<1>1. g \in [Request -> Amount]
  OBVIOUS
<1>2. u \in Nat /\ u <= MaxUnits
  BY TotalsAssumption DEF Amount
<1>3. IsFiniteSet(new) /\ Cardinality(new) = u
  <2>1. IsFiniteSet(1..u) /\ Cardinality(1..u) = u
    BY <1>2, FS_Interval
  <2>2. IsFiniteSet({r}) /\ Cardinality({r}) = 1
    BY FS_Singleton
  <2>3. IsFiniteSet(new) /\ Cardinality(new) = Cardinality({r}) * Cardinality(1..u)
    BY <2>1, <2>2, FS_Product
  <2>4. Cardinality({r}) * Cardinality(1..u) = u
    BY <2>1, <2>2, <1>2
  <2>5. QED
    BY <2>3, <2>4
<1>4. Units(f) \cap new = {}
  BY <1>2, TotalsAssumption DEF Units
<1>5. Units(g) = Units(f) \cup new
  <2>1. ASSUME NEW x \in Units(g) PROVE x \in Units(f) \cup new
    <3>1. PICK s \in Request, i \in 1..MaxUnits : x = <<s, i>> /\ i <= g[s]
      BY <2>1 DEF Units
    <3>2. CASE s = r
      BY <3>1, <3>2, <1>2, TotalsAssumption DEF Units
    <3>3. CASE s # r
      BY <3>1, <3>3 DEF Units
    <3>4. QED
      BY <3>2, <3>3
  <2>2. ASSUME NEW x \in new PROVE x \in Units(g)
    <3>1. PICK i \in 1..u : x = <<r, i>>
      BY <2>2
    <3>2. i \in 1..MaxUnits /\ i <= g[r]
      BY <3>1, <1>2, TotalsAssumption
    <3>3. QED
      BY <3>1, <3>2 DEF Units
  <2>3. ASSUME NEW x \in Units(f) PROVE x \in Units(g)
    <3>1. PICK s \in Request, i \in 1..MaxUnits : x = <<s, i>> /\ i <= f[s]
      BY <2>3 DEF Units
    <3>2. s # r
      BY <3>1, TotalsAssumption
    <3>3. QED
      BY <3>1, <3>2 DEF Units
  <2>4. QED
    BY <2>1, <2>2, <2>3
<1>6. Cardinality(Units(g)) = Cardinality(Units(f)) + u
  <2>1. IsFiniteSet(Units(f)) /\ Cardinality(Units(f)) \in Nat
    BY TotalIsNat DEF Total
  <2>2. Cardinality(Units(f) \cup new)
           = Cardinality(Units(f)) + Cardinality(new) - Cardinality({})
    BY <2>1, <1>3, <1>4, FS_Union
  <2>3. Cardinality({}) = 0
    BY FS_EmptySet
  <2>4. Cardinality(Units(f) \cup new) = Cardinality(Units(f)) + u
    BY <2>1, <2>2, <2>3, <1>3, <1>2
  <2>5. QED
    BY <2>4, <1>5
<1>7. QED
  BY <1>6 DEF Total

\* Withdrawing a promise takes its amount off the sum, which was at least that.
LEMMA TotalDrop ==
  ASSUME NEW f \in [Request -> Amount], NEW r \in Request
  PROVE  /\ Total([f EXCEPT ![r] = 0]) = Total(f) - f[r]
         /\ f[r] <= Total(f)
<1> DEFINE g == [f EXCEPT ![r] = 0]
<1>1. g \in [Request -> Amount] /\ g[r] = 0 /\ f[r] \in Amount
  BY TotalsAssumption DEF Amount
<1>2. f = [g EXCEPT ![r] = f[r]]
  OBVIOUS
<1>3. Total(f) = Total(g) + f[r]
  <2>1. Total([g EXCEPT ![r] = f[r]]) = Total(g) + f[r]
    BY <1>1, TotalRaise
  <2>2. QED
    BY <2>1, <1>2
<1>4. Total(g) \in Nat
  BY <1>1, TotalIsNat
<1>5. f[r] \in Nat
  BY <1>1, TotalsAssumption DEF Amount
<1>6. QED
  BY <1>3, <1>4, <1>5

-----------------------------------------------------------------------------
(* The invariant of the book *)
USE IssuanceAssumption, TotalsAssumption DEF Op, PremiumOp, ScheduleOp

\* Restricting payouts to some requests leaves a promise for each request.
LEMMA WithinIsPromise ==
  ASSUME NEW S, NEW f \in [Request -> Amount]
  PROVE  Within(S, f) \in [Request -> Amount]
BY DEF Within, Amount

\* The empty book of a new pool (src/book.js:8) satisfies the invariant.
LEMMA InitBookInv == Init => BookInv
<1> SUFFICES ASSUME Init PROVE BookInv
  OBVIOUS
<1>1. TypeOK
  BY DEF Init, TypeOK, Row, Idle, CallState, Stage, Amount, TxState
<1>2. CallShape /\ Progress
  BY DEF Init, Idle, CallShape, Progress
<1>3. WriteAhead /\ SentOnce /\ BookedIsBacked /\ PaidWasScheduled
  BY DEF Init, WriteAhead, SentOnce, BookedIsBacked, PaidWasScheduled
<1>4. QED
  BY <1>1, <1>2, <1>3 DEF BookInv

\* A step that leaves the book, the ledger and the clock as they are.
LEMMA CallOnlyKeepsBookInv ==
  ASSUME BookInv,
         UNCHANGED <<now, bookVars, ledgerVars>>,
         call' \in CallState, CallShape', Progress'
  PROVE  BookInv'
<1>1. TypeOK'
  BY DEF BookInv, TypeOK, bookVars, ledgerVars
<1>2. WriteAhead' /\ SentOnce' /\ BookedIsBacked' /\ PaidWasScheduled'
  BY DEF BookInv, bookVars, ledgerVars, WriteAhead, SentOnce, BookedIsBacked, PaidWasScheduled
<1>3. QED
  BY <1>1, <1>2 DEF BookInv

\* A request that takes the issuance lock (src/policy/issue.js:60-77).
LEMMA CallKeepsBookInv ==
  ASSUME BookInv, NEW r \in Request, NEW d \in Days, Call(r, d)
  PROVE  BookInv'
<1>1. call' = [at |-> "quote", req |-> r, days |-> d, offer |-> 0,
               committed |-> 0, seen |-> 0, op |-> 1, sent |-> FALSE]
  BY DEF Call, Idle
<1>2. call' \in CallState
  BY <1>1 DEF CallState, Stage, Amount
<1>3. CallShape' /\ Progress'
  <2>1. /\ call'.at = "quote" /\ call'.req = r /\ call'.days = d
        /\ call'.op = 1 /\ call'.sent = FALSE
    BY <1>1
  <2>2. row'[r] = "none"
    BY DEF Call, bookVars
  <2>3. QED
    BY <2>1, <2>2 DEF CallShape, Progress
<1>4. QED
  BY <1>2, <1>3, CallOnlyKeepsBookInv DEF Call

\* A price is found for a request that is new to the book.
LEMMA QuoteKeepsBookInv ==
  ASSUME BookInv, NEW u \in 1..MaxUnits, Quote(u)
  PROVE  BookInv'
<1>1. call' = [call EXCEPT !.at = "reconcile", !.offer = u] /\ call \in CallState
  BY DEF Quote, BookInv, TypeOK
<1>2. u \in Amount
  BY DEF Amount
<1>3. call' \in CallState
  BY <1>1, <1>2 DEF CallState, Stage
<1>4. CallShape' /\ Progress'
  BY <1>1 DEF Quote, BookInv, CallState, CallShape, Progress, bookVars
<1>5. QED
  BY <1>3, <1>4, CallOnlyKeepsBookInv DEF Quote

\* An issuance that ends before it reserved, by refusal or by a crash, leaves
\* nothing behind.
LEMMA EndKeepsBookInv ==
  ASSUME BookInv, Refuse \/ Crash
  PROVE  BookInv'
<1>1. call' = Idle /\ UNCHANGED <<now, bookVars, ledgerVars>>
  BY DEF Refuse, Crash, Ended
<1>2. call' \in CallState
  BY <1>1 DEF Idle, CallState, Stage, Amount
<1>3. CallShape' /\ Progress'
  BY <1>1 DEF Idle, CallShape, Progress
<1>4. QED
  BY <1>1, <1>2, <1>3, CallOnlyKeepsBookInv

\* The balance is read after what is committed (src/pool/solvency.js:14-31).
LEMMA ReadBalanceKeepsBookInv ==
  ASSUME BookInv, ReadBalance
  PROVE  BookInv'
<1>1. /\ call' = [call EXCEPT !.at = "compare", !.seen = capital]
      /\ call \in CallState /\ capital \in Nat
  BY DEF ReadBalance, BookInv, TypeOK
<1>2. call' \in CallState
  BY <1>1 DEF CallState, Stage
<1>3. CallShape' /\ Progress'
  BY <1>1 DEF ReadBalance, BookInv, CallState, CallShape, Progress, bookVars
<1>4. QED
  BY <1>2, <1>3, CallOnlyKeepsBookInv DEF ReadBalance

\* A receipt moves the issuance to its next ledger write.
LEMMA ConfirmKeepsBookInv ==
  ASSUME BookInv, Confirm
  PROVE  BookInv'
<1>1. call \in CallState /\ call.op \in Op
  BY DEF BookInv, TypeOK, CallState
<1>2. CASE call.op = ScheduleOp
  <2>1. call' = [call EXCEPT !.at = "record"]
    BY <1>2 DEF Confirm
  <2>2. call' \in CallState
    BY <1>1, <2>1 DEF CallState, Stage
  <2>3. CallShape'
    BY <1>1, <2>1 DEF Confirm, BookInv, CallState, CallShape, bookVars
  <2>4. Progress'
    BY <1>1, <1>2, <2>1 DEF Confirm, BookInv, CallState, Progress, ledgerVars
  <2>5. QED
    BY <2>2, <2>3, <2>4, CallOnlyKeepsBookInv DEF Confirm
<1>3. CASE call.op # ScheduleOp
  <2>1. call' = [call EXCEPT !.op = call.op + 1, !.sent = FALSE] /\ call.op + 1 \in Op
    BY <1>1, <1>3 DEF Confirm
  <2>2. call' \in CallState
    BY <1>1, <2>1 DEF CallState
  <2>3. CallShape'
    BY <1>1, <2>1 DEF Confirm, BookInv, CallState, CallShape, bookVars
  <2>4. Progress'
    <3>1. call'.at = "ledger" /\ call'.req = call.req /\ call'.op = call.op + 1 /\ call'.sent = FALSE
      BY <1>1, <2>1 DEF Confirm, CallState
    <3>2. tx' = tx /\ tx[call.req][call.op] = "landed"
      BY DEF Confirm, ledgerVars
    <3>3. \A k \in Op : /\ k < call.op + 1 => tx[call.req][k] = "landed"
                        /\ k > call.op => tx[call.req][k] = "none"
      BY <1>1, <3>2 DEF Confirm, BookInv, Progress
    <3>4. QED
      BY <1>1, <3>1, <3>2, <3>3 DEF Progress
  <2>5. QED
    BY <2>2, <2>3, <2>4, CallOnlyKeepsBookInv DEF Confirm
<1>4. QED
  BY <1>2, <1>3

\* Settling policies whose payout the ledger confirms.
LEMMA ReconcileKeepsBookInv ==
  ASSUME BookInv, NEW S \in SUBSET Request, Reconcile(S)
  PROVE  BookInv'
<1> USE DEF BookInv
<1>1. /\ call' = [call EXCEPT !.at = "balance", !.committed = committedUnits']
      /\ row' = [r \in Request |-> IF r \in S THEN "settled" ELSE row[r]]
      /\ \A r \in S : row[r] = "booked" /\ paid[r] = "paid"
      /\ UNCHANGED <<now, payout, lapsesAt, capital, tx, sends, paid>>
  BY DEF Reconcile, ledgerVars
<1>2. row' \in [Request -> Row] /\ payout' \in [Request -> Amount]
  BY <1>1 DEF TypeOK, Row
<1>3. committedUnits' \in Nat
  <2>1. Within(Counted', payout') \in [Request -> Amount]
    BY <1>2, WithinIsPromise
  <2>2. QED
    BY <2>1, TotalIsNat DEF committedUnits
<1>4. TypeOK'
  BY <1>1, <1>2, <1>3 DEF TypeOK, CallState, Stage
<1>5. CallShape'
  BY <1>1 DEF Reconcile, TypeOK, CallState, CallShape
<1>6. Progress' /\ SentOnce'
  BY <1>1 DEF TypeOK, CallState, Progress, SentOnce
<1>7. WriteAhead' /\ BookedIsBacked' /\ PaidWasScheduled'
  BY <1>1 DEF WriteAhead, BookedIsBacked, PaidWasScheduled
<1>8. QED
  BY <1>4, <1>5, <1>6, <1>7

\* The reservation is saved before any ledger write (src/policy/issue.js:94).
LEMMA ReserveKeepsBookInv ==
  ASSUME BookInv, Reserve
  PROVE  BookInv'
<1> USE DEF BookInv
<1>1. /\ call' = [call EXCEPT !.at = "ledger"]
      /\ row' = [row EXCEPT ![call.req] = "creating"]
      /\ payout' = [payout EXCEPT ![call.req] = call.offer]
      /\ lapsesAt' = [lapsesAt EXCEPT ![call.req] = now + call.days]
      /\ UNCHANGED <<now, capital, tx, sends, paid>>
      /\ call.at = "compare"
  BY DEF Reserve, ledgerVars
<1>2. call \in CallState /\ call.req \in Request /\ call.days \in Days /\ row[call.req] = "none"
  BY <1>1 DEF TypeOK, CallShape
<1>3. TypeOK'
  BY <1>1, <1>2 DEF TypeOK, CallState, Stage, Row
<1>4. CallShape'
  BY <1>1, <1>2 DEF TypeOK, CallState, CallShape
<1>5. \A k \in Op : tx[call.req][k] = "none"
  BY <1>2 DEF WriteAhead
<1>6. Progress'
  <2>1. call.op = 1 /\ call.sent = FALSE
    BY <1>1 DEF CallShape
  <2>2. QED
    BY <1>1, <1>2, <1>5, <2>1 DEF CallState, Progress
<1>7. WriteAhead' /\ SentOnce' /\ BookedIsBacked' /\ PaidWasScheduled'
  BY <1>1, <1>2 DEF TypeOK, WriteAhead, SentOnce, BookedIsBacked, PaidWasScheduled
<1>8. QED
  BY <1>3, <1>4, <1>6, <1>7

\* A ledger write is submitted; by Progress it never was before.
LEMMA SendKeepsBookInv ==
  ASSUME BookInv, Send
  PROVE  BookInv'
<1> USE DEF BookInv
<1> DEFINE r == call.req
           k == call.op
<1>1. /\ tx' = [tx EXCEPT ![r][k] = "sent"]
      /\ sends' = [sends EXCEPT ![r][k] = sends[r][k] + 1]
      /\ call' = [call EXCEPT !.sent = TRUE]
      /\ UNCHANGED <<now, capital, paid, row, payout, lapsesAt>>
      /\ call.at = "ledger" /\ ~call.sent
  BY DEF Send, bookVars
<1>2. call \in CallState /\ r \in Request /\ k \in Op /\ row[r] = "creating"
  BY <1>1 DEF TypeOK, CallShape, CallState
<1>3. tx[r][k] = "none"
  BY <1>1, <1>2 DEF Progress
<1>4. TypeOK'
  <2>1. tx' \in [Request -> [Op -> TxState]]
    BY <1>1, <1>2 DEF TypeOK, TxState
  <2>2. sends[r][k] + 1 \in Nat
    BY <1>2 DEF TypeOK
  <2>3. sends' \in [Request -> [Op -> Nat]]
    BY <1>1, <1>2, <2>2 DEF TypeOK
  <2>4. call' \in CallState
    BY <1>1, <1>2 DEF CallState
  <2>5. QED
    BY <1>1, <2>1, <2>3, <2>4 DEF TypeOK
<1>5. /\ \A i \in Op : tx'[r][i] = IF i = k THEN "sent" ELSE tx[r][i]
      /\ \A q \in Request : q # r => tx'[q] = tx[q]
  BY <1>1, <1>2 DEF TypeOK
<1>6. CallShape'
  BY <1>1, <1>2 DEF CallState, CallShape
<1>7. Progress'
  BY <1>1, <1>2, <1>5 DEF CallState, Progress
<1>8. SentOnce'
  <2> SUFFICES ASSUME NEW q \in Request, NEW i \in Op
               PROVE  sends'[q][i] = IF tx'[q][i] = "none" THEN 0 ELSE 1
    BY DEF SentOnce
  <2>1. CASE q = r /\ i = k
    <3>1. sends[r][k] = 0
      BY <1>2, <1>3 DEF SentOnce
    <3>2. sends'[r][k] = 1
      BY <1>1, <1>2, <3>1 DEF TypeOK
    <3>3. QED
      BY <1>2, <1>5, <2>1, <3>2
  <2>2. CASE q # r \/ i # k
    <3>1. sends'[q][i] = sends[q][i] /\ tx'[q][i] = tx[q][i]
      BY <1>1, <1>2, <1>5, <2>2 DEF TypeOK
    <3>2. QED
      BY <3>1 DEF SentOnce
  <2>3. QED
    BY <2>1, <2>2
<1>9. WriteAhead' /\ BookedIsBacked'
  BY <1>1, <1>2, <1>5 DEF WriteAhead, BookedIsBacked
<1>10. PaidWasScheduled'
  BY <1>1, <1>2, <1>3, <1>5 DEF PaidWasScheduled
<1>11. QED
  BY <1>4, <1>6, <1>7, <1>8, <1>9, <1>10

\* An issuance that ends after its reservation, interrupted or recorded.
LEMMA CloseKeepsBookInv ==
  ASSUME BookInv, Interrupt \/ Record
  PROVE  BookInv'
<1> USE DEF BookInv
<1>1. PICK kept \in {"needs_review", "booked"} :
           /\ row' = [row EXCEPT ![call.req] = kept]
           /\ kept = "booked" => call.at = "record"
  BY DEF Interrupt, Record
<1>2. /\ call' = Idle
      /\ UNCHANGED <<now, payout, lapsesAt, capital, tx, sends, paid>>
      /\ call.at \in {"ledger", "record"}
  BY DEF Interrupt, Record, Ended, ledgerVars
<1>3. call.req \in Request
  BY <1>2 DEF CallShape
<1>4. TypeOK'
  BY <1>1, <1>2, <1>3 DEF TypeOK, Row, Idle, CallState, Stage, Amount
<1>5. CallShape' /\ Progress' /\ SentOnce'
  BY <1>2 DEF Idle, CallShape, Progress, SentOnce
<1>6. WriteAhead' /\ PaidWasScheduled'
  BY <1>1, <1>2, <1>3 DEF TypeOK, WriteAhead, PaidWasScheduled
<1>7. BookedIsBacked'
  BY <1>1, <1>2, <1>3 DEF TypeOK, Progress, BookedIsBacked
<1>8. QED
  BY <1>4, <1>5, <1>6, <1>7

\* The ledger executes or rejects a submitted transaction, whether or not anybody
\* still waits for it.
LEMMA AnswerKeepsBookInv ==
  ASSUME BookInv, NEW r \in Request, NEW k \in Op, Land(r, k) \/ Void(r, k)
  PROVE  BookInv'
<1> USE DEF BookInv
<1>1. PICK answer \in {"landed", "void"} : tx' = [tx EXCEPT ![r][k] = answer]
  BY DEF Land, Void
<1>2. /\ UNCHANGED <<now, sends, paid, row, payout, lapsesAt, call>>
      /\ tx[r][k] = "sent"
      /\ capital' \in Nat
  BY DEF Land, Void, bookVars, TypeOK
<1>3. /\ \A i \in Op : tx'[r][i] = IF i = k THEN answer ELSE tx[r][i]
      /\ \A q \in Request : q # r => tx'[q] = tx[q]
  BY <1>1 DEF TypeOK
<1>4. TypeOK'
  BY <1>1, <1>2 DEF TypeOK, TxState
<1>5. \A q \in Request, i \in Op : /\ tx'[q][i] = "none" <=> tx[q][i] = "none"
                                   /\ tx[q][i] = "landed" => tx'[q][i] = "landed"
  BY <1>2, <1>3
<1>6. CallShape'
  BY <1>2 DEF CallShape
<1>7. Progress'
  BY <1>2, <1>5 DEF CallShape, Progress
<1>8. SentOnce' /\ WriteAhead' /\ BookedIsBacked' /\ PaidWasScheduled'
  BY <1>2, <1>5 DEF SentOnce, WriteAhead, BookedIsBacked, PaidWasScheduled
<1>9. QED
  BY <1>4, <1>6, <1>7, <1>8

\* Payouts, deposits and time do not touch the book.
LEMMA WorldKeepsBookInv ==
  ASSUME BookInv, (\E r \in Request : Execute(r)) \/ Grow \/ Tick
  PROVE  BookInv'
<1> USE DEF BookInv
<1>1. UNCHANGED <<tx, sends, row, payout, lapsesAt, call>>
  BY DEF Execute, Grow, Tick, bookVars, ledgerVars
<1>2. CASE \E r \in Request : Execute(r)
  <2> PICK r \in Request : Execute(r)
    BY <1>2
  <2>1. /\ now' = now
        /\ tx[r][ScheduleOp] = "landed" /\ paid[r] = "unpaid"
        /\ \/ paid' = [paid EXCEPT ![r] = "paid"]
           \/ paid' = [paid EXCEPT ![r] = "bounced"]
    BY DEF Execute, Live
  <2>2. capital' \in Nat
    BY DEF Execute, TypeOK, Amount
  <2>3. TypeOK'
    BY <1>1, <2>1, <2>2 DEF TypeOK
  <2>4. PaidWasScheduled'
    BY <1>1, <2>1 DEF TypeOK, PaidWasScheduled
  <2>5. QED
    BY <1>1, <2>3, <2>4
       DEF CallShape, Progress, SentOnce, WriteAhead, BookedIsBacked
<1>3. CASE Grow \/ Tick
  <2>1. TypeOK' /\ PaidWasScheduled'
    BY <1>1, <1>3 DEF Grow, Tick, ledgerVars, TypeOK, PaidWasScheduled
  <2>2. QED
    BY <1>1, <2>1 DEF CallShape, Progress, SentOnce, WriteAhead, BookedIsBacked
<1>4. QED
  BY <1>2, <1>3

\* The inductive step of the part of the invariant about the book and the calls.
LEMMA NextBookInv == BookInv /\ [Next]_vars => BookInv'
<1> SUFFICES ASSUME BookInv, [Next]_vars PROVE BookInv'
  OBVIOUS
<1>1. CASE \E r \in Request, d \in Days : Call(r, d)
  BY <1>1, CallKeepsBookInv
<1>2. CASE \E u \in 1..MaxUnits : Quote(u)
  BY <1>2, QuoteKeepsBookInv
<1>3. CASE Refuse \/ Crash
  BY <1>3, EndKeepsBookInv
<1>4. CASE \E S \in SUBSET Request : Reconcile(S)
  BY <1>4, ReconcileKeepsBookInv
<1>5. CASE ReadBalance
  BY <1>5, ReadBalanceKeepsBookInv
<1>6. CASE Reserve
  BY <1>6, ReserveKeepsBookInv
<1>7. CASE Send
  BY <1>7, SendKeepsBookInv
<1>8. CASE Confirm
  BY <1>8, ConfirmKeepsBookInv
<1>9. CASE Interrupt \/ Record
  BY <1>9, CloseKeepsBookInv
<1>10. CASE \E r \in Request, k \in Op : Land(r, k) \/ Void(r, k)
  BY <1>10, AnswerKeepsBookInv
<1>11. CASE (\E r \in Request : Execute(r)) \/ Grow \/ Tick
  BY <1>11, WorldKeepsBookInv
<1>12. CASE UNCHANGED vars
  BY <1>12 DEF vars, BookInv, TypeOK, CallShape, Progress, SentOnce, WriteAhead,
               BookedIsBacked, PaidWasScheduled
<1>13. QED
  BY <1>1, <1>2, <1>3, <1>4, <1>5, <1>6, <1>7, <1>8, <1>9, <1>10, <1>11, <1>12
     DEF Next, Work, World

-----------------------------------------------------------------------------
(* How what is owed moves *)

\* What is owed on each request is a payout or nothing.
LEMMA PromisedType ==
  ASSUME TypeOK
  PROVE  Promised \in [Request -> Amount] /\ Total(Promised) \in Nat
BY WithinIsPromise, TotalIsNat DEF TypeOK, Promised

\* Every schedule the ledger holds is owed.
LEMMA LiveIsOwed ==
  ASSUME BookInv
  PROVE  Live \subseteq Owed
BY DEF BookInv, TypeOK, Row, WriteAhead, PaidWasScheduled, Live, Owed, Counted

\* What is owed on each request is what was, if nothing it depends on changed.
LEMMA PromisedUnchanged ==
  ASSUME UNCHANGED <<now, row, payout, lapsesAt, paid>>
  PROVE  Promised' = Promised
BY DEF Promised, Within, Owed, Counted

\* Settling policies that were paid takes nothing off what is owed.
LEMMA ReconcilePromised ==
  ASSUME BookInv, NEW S \in SUBSET Request, Reconcile(S)
  PROVE  Promised' = Promised /\ Total(Promised) <= call'.committed
<1>1. /\ row' = [r \in Request |-> IF r \in S THEN "settled" ELSE row[r]]
      /\ \A r \in S : paid[r] = "paid"
      /\ UNCHANGED <<now, payout, lapsesAt, paid>>
      /\ call' = [call EXCEPT !.committed = committedUnits', !.at = "balance"]
  BY DEF Reconcile, ledgerVars
<1>2. Owed' = Owed
  BY <1>1 DEF Owed, Counted
<1>3. Promised' = Promised
  BY <1>1, <1>2 DEF Promised, Within
<1>4. TypeOK'
  BY ReconcileKeepsBookInv DEF BookInv
<1>5. Promised' \in [Request -> Amount]
  BY <1>3, PromisedType DEF BookInv
<1>6. Within(Counted', payout') \in [Request -> Amount]
  BY <1>4, WithinIsPromise DEF TypeOK
<1>7. \A r \in Request : Promised'[r] <= Within(Counted', payout')[r]
  BY <1>4 DEF TypeOK, Promised, Within, Owed, Amount
<1>8. Total(Promised') <= Total(Within(Counted', payout'))
  BY <1>5, <1>6, <1>7, TotalMonotone
<1>9. call'.committed = committedUnits'
  BY <1>1 DEF BookInv, TypeOK, CallState
<1>10. QED
  BY <1>3, <1>8, <1>9 DEF committedUnits

\* A reservation adds its payout, where nothing was owed.
LEMMA ReservePromised ==
  ASSUME BookInv, Reserve
  PROVE  /\ call.req \in Request /\ call.offer \in 1..MaxUnits
         /\ Promised[call.req] = 0
         /\ Promised' = [Promised EXCEPT ![call.req] = call.offer]
         /\ Total(Promised') = Total(Promised) + call.offer
<1> DEFINE r == call.req
<1>1. /\ row' = [row EXCEPT ![r] = "creating"]
      /\ payout' = [payout EXCEPT ![r] = call.offer]
      /\ lapsesAt' = [lapsesAt EXCEPT ![r] = now + call.days]
      /\ UNCHANGED <<now, paid>>
      /\ call.at = "compare"
  BY DEF Reserve, ledgerVars
<1>2. /\ r \in Request /\ call.days \in Days /\ call.offer \in 1..MaxUnits
      /\ row[r] = "none"
  BY <1>1 DEF BookInv, CallShape
<1>3. r \notin Owed
  BY <1>2 DEF Owed, Counted
<1>4. paid[r] = "unpaid"
  BY <1>2 DEF BookInv, WriteAhead, PaidWasScheduled
<1>5. r \in Owed'
  <2>1. row'[r] = "creating" /\ lapsesAt'[r] = now + call.days
    BY <1>1, <1>2 DEF BookInv, TypeOK
  <2>2. now' < lapsesAt'[r]
    <3>1. now \in Nat /\ now' = now
      BY <1>1 DEF BookInv, TypeOK
    <3>2. call.days \in Nat \ {0}
      BY <1>2, IssuanceAssumption
    <3>3. QED
      BY <2>1, <3>1, <3>2
  <2>3. QED
    BY <1>1, <1>2, <1>4, <2>1, <2>2 DEF Owed, Counted
<1>6. \A q \in Request \ {r} : q \in Owed' <=> q \in Owed
  BY <1>1 DEF BookInv, TypeOK, Owed, Counted
<1>7. Promised[r] = 0
  BY <1>2, <1>3 DEF Promised, Within
<1>8. Promised' = [Promised EXCEPT ![r] = call.offer]
  BY <1>1, <1>2, <1>5, <1>6 DEF BookInv, TypeOK, Promised, Within
<1>9. call.offer \in Amount
  BY <1>2 DEF Amount
<1>10. Total(Promised') = Total(Promised) + call.offer
  BY <1>2, <1>7, <1>8, <1>9, PromisedType, TotalRaise DEF BookInv
<1>11. QED
  BY <1>2, <1>7, <1>8, <1>10

\* A schedule that executes is paid in full: the pool covers all it owes.
LEMMA ExecutePromised ==
  ASSUME BookInv, Covered, NEW r \in Request, Execute(r)
  PROVE  /\ Promised[r] = payout[r] /\ payout[r] \in Nat /\ payout[r] <= capital
         /\ paid' = [paid EXCEPT ![r] = "paid"] /\ capital' = capital - payout[r]
         /\ Promised' = [Promised EXCEPT ![r] = 0]
         /\ Total(Promised') = Total(Promised) - payout[r]
<1>1. r \in Live /\ r \in Owed
  BY LiveIsOwed DEF Execute
<1>2. payout \in [Request -> Amount] /\ payout[r] \in Nat /\ capital \in Nat
  BY DEF BookInv, TypeOK, Amount
<1>3. Promised[r] = payout[r]
  BY <1>1 DEF Promised, Within
<1>4. Promised \in [Request -> Amount] /\ Total(Promised) \in Nat
  BY PromisedType DEF BookInv
<1>5. /\ Total([Promised EXCEPT ![r] = 0]) = Total(Promised) - Promised[r]
      /\ Promised[r] <= Total(Promised)
  BY <1>4, TotalDrop
<1>6. payout[r] <= capital
  BY <1>2, <1>3, <1>4, <1>5 DEF Covered
<1>7. paid' = [paid EXCEPT ![r] = "paid"] /\ capital' = capital - payout[r]
  BY <1>6 DEF Execute
<1>8. UNCHANGED <<now, row, payout, lapsesAt>>
  BY DEF Execute, bookVars
<1>9. r \notin Owed' /\ \A q \in Request \ {r} : q \in Owed' <=> q \in Owed
  BY <1>7, <1>8 DEF BookInv, TypeOK, Owed, Counted
<1>10. Promised' = [Promised EXCEPT ![r] = 0]
  BY <1>8, <1>9 DEF Promised, Within
<1>11. QED
  BY <1>2, <1>3, <1>5, <1>6, <1>7, <1>10

\* As time passes promises lapse.
LEMMA TickPromised ==
  ASSUME BookInv, Tick
  PROVE  /\ \E S \in SUBSET Request : Promised' = Within(S, Promised)
         /\ Total(Promised') <= Total(Promised)
<1>1. UNCHANGED <<row, payout, lapsesAt, paid>> /\ now' = now + 1 /\ now \in Nat
  BY DEF Tick, bookVars, ledgerVars, BookInv, TypeOK
<1>2. Owed' \subseteq Owed
  BY <1>1 DEF BookInv, TypeOK, Owed, Counted
<1>3. Promised' = Within(Owed', Promised)
  BY <1>1, <1>2 DEF Promised, Within
<1>4. Promised \in [Request -> Amount] /\ Within(Owed', Promised) \in [Request -> Amount]
  BY PromisedType, WithinIsPromise DEF BookInv
<1>5. \A r \in Request : Within(Owed', Promised)[r] <= Promised[r]
  BY <1>4 DEF Within, Amount
<1>6. Total(Within(Owed', Promised)) <= Total(Promised)
  BY <1>4, <1>5, TotalMonotone
<1>7. Owed' \in SUBSET Request
  BY DEF Owed, Counted
<1>8. QED
  BY <1>3, <1>6, <1>7

-----------------------------------------------------------------------------
(* The invariant *)

\* What the pool holds and owes, by step: the part of the invariant that the
\* capacity check is there for.
LEMMA NextCovered ==
  ASSUME IssuanceInv, [Next]_vars
  PROVE  NeverBounces' /\ Covered' /\ Snapshot'
<1> USE DEF IssuanceInv
<1>0. /\ BookInv /\ BookInv' /\ TypeOK /\ TypeOK'
      /\ Total(Promised) \in Nat /\ Total(Promised') \in Nat
      /\ capital \in Nat /\ capital' \in Nat
      /\ call \in CallState /\ call' \in CallState
      /\ call.committed \in Nat /\ call.seen \in Nat
  <2>1. BookInv' /\ TypeOK /\ TypeOK'
    BY NextBookInv DEF BookInv
  <2>2. Total(Promised) \in Nat
    BY <2>1, PromisedType
  <2>3. Total(Promised') \in Nat
    <3>1. Promised' \in [Request -> Amount]
      BY <2>1, WithinIsPromise DEF TypeOK, Promised
    <3>2. QED
      BY <3>1, TotalIsNat
  <2>4. QED
    BY <2>1, <2>2, <2>3 DEF TypeOK, CallState
<1>1. ASSUME UNCHANGED <<now, row, payout, lapsesAt, paid, capital>>,
             call'.at \notin {"balance", "compare"}
      PROVE  NeverBounces' /\ Covered' /\ Snapshot'
  BY <1>1, PromisedUnchanged DEF NeverBounces, Covered, Snapshot
<1>2. CASE \/ \E r \in Request, d \in Days : Call(r, d)
           \/ \E u \in 1..MaxUnits : Quote(u)
           \/ Refuse \/ Crash \/ Send \/ Confirm
  <2>1. UNCHANGED <<now, row, payout, lapsesAt, paid, capital>>
    BY <1>2 DEF Call, Quote, Refuse, Crash, Send, Confirm, bookVars, ledgerVars
  <2>2. call'.at \notin {"balance", "compare"}
    <3>1. CASE \E r \in Request, d \in Days : Call(r, d)
      BY <3>1 DEF Call, Idle
    <3>2. CASE (\E u \in 1..MaxUnits : Quote(u)) \/ Send
      BY <1>0, <3>2 DEF Quote, Send, CallState
    <3>3. CASE Refuse \/ Crash
      BY <3>3 DEF Refuse, Crash, Ended, Idle
    <3>4. CASE Confirm
      BY <1>0, <3>4 DEF Confirm, CallState
    <3>5. QED
      BY <1>2, <3>1, <3>2, <3>3, <3>4
  <2>3. QED
    BY <1>1, <2>1, <2>2
<1>3. CASE \E S \in SUBSET Request : Reconcile(S)
  <2> PICK S \in SUBSET Request : Reconcile(S)
    BY <1>3
  <2>1. UNCHANGED <<paid, capital>> /\ call'.at = "balance"
    BY <1>0 DEF Reconcile, ledgerVars, CallState
  <2>2. Promised' = Promised /\ Total(Promised) <= call'.committed
    BY <1>0, ReconcilePromised
  <2>3. QED
    BY <2>1, <2>2 DEF NeverBounces, Covered, Snapshot
<1>4. CASE ReadBalance
  <2>1. /\ UNCHANGED <<now, row, payout, lapsesAt, paid, capital>>
        /\ call'.at = "compare" /\ call'.seen = capital /\ call'.committed = call.committed
        /\ call.at = "balance"
    BY <1>0, <1>4 DEF ReadBalance, bookVars, ledgerVars, CallState
  <2>2. Promised' = Promised
    BY <2>1, PromisedUnchanged
  <2>3. Total(Promised) <= call.committed
    BY <2>1 DEF Snapshot
  <2>4. Snapshot'
    BY <1>0, <2>1, <2>2, <2>3 DEF Snapshot
  <2>5. QED
    BY <2>1, <2>2, <2>4 DEF NeverBounces, Covered
<1>5. CASE Reserve
  <2>1. /\ UNCHANGED <<paid, capital>> /\ call'.at = "ledger" /\ call.at = "compare"
        /\ call.committed + call.offer <= call.seen
    BY <1>0, <1>5 DEF Reserve, ledgerVars, CallState
  <2>2. call.offer \in Nat /\ Total(Promised') = Total(Promised) + call.offer
    BY <1>0, <1>5, ReservePromised
  <2>3. Total(Promised) + call.seen <= call.committed + capital
    BY <2>1 DEF Snapshot
  <2>4. Total(Promised') <= capital'
    BY <1>0, <2>1, <2>2, <2>3
  <2>5. QED
    BY <2>1, <2>4 DEF NeverBounces, Covered, Snapshot
<1>6. CASE Interrupt \/ Record
  <2>1. UNCHANGED <<now, payout, lapsesAt, paid, capital>> /\ call'.at = "idle"
    BY <1>6 DEF Interrupt, Record, Ended, Idle, ledgerVars
  <2>2. /\ row[call.req] = "creating"
        /\ \E kept \in {"needs_review", "booked"} : row' = [row EXCEPT ![call.req] = kept]
    BY <1>0, <1>6 DEF Interrupt, Record, BookInv, CallShape
  <2>3. Owed' = Owed
    BY <1>0, <2>1, <2>2 DEF TypeOK, Owed, Counted
  <2>4. Promised' = Promised
    BY <2>1, <2>3 DEF Promised, Within
  <2>5. QED
    BY <2>1, <2>4 DEF NeverBounces, Covered, Snapshot
<1>7. CASE (\E r \in Request, k \in Op : Land(r, k) \/ Void(r, k)) \/ Grow
  <2>1. UNCHANGED <<now, row, payout, lapsesAt, paid, call>>
    BY <1>7 DEF Land, Void, Grow, bookVars
  <2>2. capital <= capital'
    BY <1>0, <1>7 DEF Land, Void, Grow
  <2>3. Promised' = Promised
    BY <2>1, PromisedUnchanged
  <2>4. Covered' /\ Snapshot'
    BY <1>0, <2>1, <2>2, <2>3 DEF Covered, Snapshot
  <2>5. QED
    BY <2>1, <2>4 DEF NeverBounces
<1>8. CASE \E r \in Request : Execute(r)
  <2> PICK r \in Request : Execute(r)
    BY <1>8
  <2>1. /\ payout[r] \in Nat /\ payout[r] <= capital
        /\ paid' = [paid EXCEPT ![r] = "paid"] /\ capital' = capital - payout[r]
        /\ Total(Promised') = Total(Promised) - payout[r]
    BY <1>0, ExecutePromised
  <2>2. call' = call
    BY DEF Execute
  <2>3. NeverBounces'
    BY <1>0, <2>1 DEF TypeOK, NeverBounces
  <2>4. Covered' /\ Snapshot'
    BY <1>0, <2>1, <2>2 DEF Covered, Snapshot
  <2>5. QED
    BY <2>3, <2>4
<1>9. CASE Tick
  <2>1. UNCHANGED <<paid, capital, call>>
    BY <1>9 DEF Tick, ledgerVars
  <2>2. Total(Promised') <= Total(Promised)
    BY <1>0, <1>9, TickPromised
  <2>3. QED
    BY <1>0, <2>1, <2>2 DEF NeverBounces, Covered, Snapshot
<1>10. CASE UNCHANGED vars
  BY <1>10, PromisedUnchanged DEF vars, NeverBounces, Covered, Snapshot
<1>11. QED
  BY <1>2, <1>3, <1>4, <1>5, <1>6, <1>7, <1>8, <1>9, <1>10 DEF Next, Work, World

\* The initial states satisfy the whole invariant.
LEMMA InitIssuanceInv == Init => IssuanceInv
<1> SUFFICES ASSUME Init PROVE IssuanceInv
  OBVIOUS
<1>1. BookInv
  BY InitBookInv
<1>2. NeverBounces /\ Snapshot
  BY DEF Init, Idle, NeverBounces, Snapshot
<1>3. Promised = [r \in Request |-> 0]
  BY DEF Init, Promised, Within, Owed, Counted
<1>4. Covered
  BY <1>3, TotalOfNothing DEF Init, Covered
<1>5. QED
  BY <1>1, <1>2, <1>4 DEF IssuanceInv

\* Every reachable state satisfies the inductive invariant.
THEOREM IssuanceInvariant == Spec => []IssuanceInv
<1>1. IssuanceInv /\ [Next]_vars => IssuanceInv'
  BY NextBookInv, NextCovered DEF IssuanceInv
<1>2. QED
  BY InitIssuanceInv, <1>1, PTL DEF Spec

\* Every variable keeps its type.
THEOREM IssuanceTyping == Spec => []TypeOK
<1>1. IssuanceInv => TypeOK
  BY DEF IssuanceInv, BookInv
<1>2. QED
  BY <1>1, IssuanceInvariant, PTL

\* The pool holds what its live schedules could draw together.
THEOREM IssuanceSolvency == Spec => []Solvency
<1>1. IssuanceInv => Solvency
  <2> SUFFICES ASSUME IssuanceInv PROVE Total(Within(Live, payout)) <= capital
    BY DEF Solvency
  <2>1. TypeOK /\ BookInv /\ Total(Promised) <= capital
    BY DEF IssuanceInv, BookInv, Covered
  <2>2. /\ Promised \in [Request -> Amount] /\ Total(Promised) \in Nat
        /\ Within(Live, payout) \in [Request -> Amount]
    BY <2>1, PromisedType, WithinIsPromise DEF TypeOK
  <2>3. \A r \in Request : Within(Live, payout)[r] <= Promised[r]
    BY <2>1, LiveIsOwed DEF TypeOK, Promised, Within, Amount
  <2>4. Total(Within(Live, payout)) <= Total(Promised)
    BY <2>2, <2>3, TotalMonotone
  <2>5. Total(Within(Live, payout)) \in Nat /\ capital \in Nat
    BY <2>1, <2>2, TotalIsNat DEF TypeOK
  <2>6. QED
    BY <2>1, <2>2, <2>4, <2>5
<1>2. QED
  BY <1>1, IssuanceInvariant, PTL

\* No payout fails for lack of funds.
THEOREM IssuanceNeverBounces == Spec => []NeverBounces
<1>1. IssuanceInv => NeverBounces
  BY DEF IssuanceInv
<1>2. QED
  BY <1>1, IssuanceInvariant, PTL

\* Every ledger write of an issuance is submitted at most once.
THEOREM IssuanceAtMostOnce == Spec => []AtMostOnce
<1>1. IssuanceInv => AtMostOnce
  BY DEF IssuanceInv, BookInv, SentOnce, AtMostOnce
<1>2. QED
  BY <1>1, IssuanceInvariant, PTL

\* Nothing is on the ledger that the book has no row for.
THEOREM IssuanceWriteAhead == Spec => []WriteAhead
<1>1. IssuanceInv => WriteAhead
  BY DEF IssuanceInv, BookInv
<1>2. QED
  BY <1>1, IssuanceInvariant, PTL

\* Whatever the book calls a policy is complete on the ledger.
THEOREM IssuanceBookedIsBacked == Spec => []BookedIsBacked
<1>1. IssuanceInv => BookedIsBacked
  BY DEF IssuanceInv, BookInv
<1>2. QED
  BY <1>1, IssuanceInvariant, PTL

-----------------------------------------------------------------------------
(* The refinement: the pool of PoolPromise *)

\* The sum of the abstract pool is the sum the code takes.
LEMMA PoolTotal ==
  ASSUME NEW f
  PROVE  Pool!Total(f) = Total(f)
BY Zenon DEF Pool!Total, Total, Pool!Units, Units, Pool!Cardinality, Cardinality

\* Every step of issuing is a step of the abstract pool, or leaves it as it is.
LEMMA PoolStep ==
  ASSUME IssuanceInv, IssuanceInv', [Next]_vars
  PROVE  [Pool!Next]_<<capital, Promised>>
<1> USE DEF IssuanceInv
<1>0. /\ BookInv /\ TypeOK /\ TypeOK'
      /\ capital \in Nat /\ capital' \in Nat
      /\ Promised \in [Request -> Amount] /\ Total(Promised) \in Nat
  BY PromisedType DEF BookInv, TypeOK
<1>1. CASE \/ \E r \in Request, d \in Days : Call(r, d)
           \/ \E u \in 1..MaxUnits : Quote(u)
           \/ Refuse \/ Crash \/ ReadBalance \/ Send \/ Confirm \/ UNCHANGED vars
  <2>1. UNCHANGED <<now, row, payout, lapsesAt, paid, capital>>
    BY <1>1 DEF Call, Quote, Refuse, Crash, ReadBalance, Send, Confirm, bookVars, ledgerVars, vars
  <2>2. QED
    BY <2>1, PromisedUnchanged
<1>2. CASE \E S \in SUBSET Request : Reconcile(S)
  <2>1. Promised' = Promised /\ capital' = capital
    BY <1>0, <1>2, ReconcilePromised DEF Reconcile, ledgerVars
  <2>2. QED
    BY <2>1
<1>3. CASE Reserve
  <2>1. /\ call.req \in Request /\ call.offer \in 1..MaxUnits
        /\ Promised[call.req] = 0
        /\ Promised' = [Promised EXCEPT ![call.req] = call.offer]
        /\ Total(Promised') = Total(Promised) + call.offer
    BY <1>0, <1>3, ReservePromised
  <2>2. Total(Promised) + call.offer <= capital /\ capital' = capital
    BY <1>3, <2>1 DEF Reserve, ledgerVars, Covered
  <2>3. Pool!Promise(call.req, call.offer)
    BY <2>1, <2>2, PoolTotal DEF Pool!Promise
  <2>4. QED
    BY <2>1, <2>3 DEF Pool!Next
<1>4. CASE Interrupt \/ Record
  <2>1. UNCHANGED <<now, payout, lapsesAt, paid, capital>>
    BY <1>4 DEF Interrupt, Record, ledgerVars
  <2>2. /\ row[call.req] = "creating"
        /\ \E kept \in {"needs_review", "booked"} : row' = [row EXCEPT ![call.req] = kept]
    BY <1>0, <1>4 DEF Interrupt, Record, BookInv, CallShape
  <2>3. Owed' = Owed
    BY <1>0, <2>1, <2>2 DEF TypeOK, Owed, Counted
  <2>4. QED
    BY <2>1, <2>3 DEF Promised, Within
<1>5. CASE (\E r \in Request, k \in Op : Land(r, k) \/ Void(r, k)) \/ Grow
  <2>1. UNCHANGED <<now, row, payout, lapsesAt, paid>> /\ capital <= capital'
    BY <1>0, <1>5 DEF Land, Void, Grow, bookVars
  <2>2. Pool!Grow
    BY <1>0, <2>1, PromisedUnchanged DEF Pool!Grow
  <2>3. QED
    BY <2>2 DEF Pool!Next
<1>6. CASE \E r \in Request : Execute(r)
  <2> PICK r \in Request : Execute(r)
    BY <1>6
  <2>1. /\ Promised[r] = payout[r] /\ payout[r] \in Nat /\ payout[r] <= capital
        /\ capital' = capital - payout[r]
        /\ Promised' = [Promised EXCEPT ![r] = 0]
    BY <1>0, ExecutePromised
  <2>2. CASE payout[r] = 0
    <3>1. Promised' = Promised /\ capital' = capital
      BY <1>0, <2>1, <2>2
    <3>2. QED
      BY <3>1
  <2>3. CASE payout[r] > 0
    <3>1. Pool!Keep(r)
      BY <2>1, <2>3 DEF Pool!Keep
    <3>2. QED
      BY <3>1 DEF Pool!Next
  <2>4. QED
    BY <2>1, <2>2, <2>3
<1>7. CASE Tick
  <2>1. \E S \in SUBSET Request : Promised' = Pool!Within(S, Promised)
    BY <1>0, <1>7, TickPromised DEF Pool!Within, Within
  <2>2. Pool!Lapse
    BY <1>7, <2>1 DEF Tick, ledgerVars, Pool!Lapse
  <2>3. QED
    BY <2>2 DEF Pool!Next
<1>8. QED
  BY <1>1, <1>2, <1>3, <1>4, <1>5, <1>6, <1>7 DEF Next, Work, World

\* Issuing policies implements the pool that never promises more than it has
\* and keeps what it promises in full.
THEOREM IssuanceKeepsPromises == Spec => PoolKeepsPromises
<1>1. Init => Pool!Init
  BY DEF Init, Pool!Init, Promised, Within, Owed, Counted
<1>2. IssuanceInv /\ IssuanceInv' /\ [Next]_vars => [Pool!Next]_<<capital, Promised>>
  BY PoolStep
<1>3. QED
  BY <1>1, <1>2, IssuanceInvariant, PTL DEF Spec, PoolKeepsPromises, Pool!Spec

\* All live schedules are covered and none ever fails, for any requests and payouts.
THEOREM IssuanceBacksPayouts == Spec => []PayoutsAreBacked
<1>1. QED
  BY IssuanceSolvency, IssuanceNeverBounces, PTL DEF PayoutsAreBacked

\* The book and the ledger agree in both directions, through lost receipts and crashes.
THEOREM IssuanceBookTells == Spec => []BookTellsTheLedger
<1>1. QED
  BY IssuanceWriteAhead, IssuanceBookedIsBacked, PTL DEF BookTellsTheLedger
=============================================================================
