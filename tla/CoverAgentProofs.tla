------------------------- MODULE CoverAgentProofs -------------------------
(***************************************************************************)
(* Theorems about the cover agent, for any number of cycles and any months *)
(* of positive length: AgentInv is an invariant, the safety properties     *)
(* follow from it, and the purchases are those of RenewalPlan.             *)
(***************************************************************************)
EXTENDS CoverAgent, FiniteSetTheorems, TLAPS

USE CalendarAssumption, NoCoverAssumption

\* A period has begun exactly when its month has: periodAt counts months, and
\* months are in order (src/cover-agent/rules.js:26).
LEMMA PeriodBegun ==
  ASSUME now \in Nat, mandate.anchor \in Nat
  PROVE  /\ periodAt \in 0..MaxCycles
         /\ \A c \in 1..MaxCycles : c <= periodAt <=> MonthAt(c) <= now
<1> DEFINE P == {i \in 1..MaxCycles : now >= MonthAt(i)}
<1>1. \A n \in Nat : IsFiniteSet(1..n) /\ Cardinality(1..n) = n
  <2> TAKE n \in Nat
  <2>1. 1 \in Int /\ n \in Int
    OBVIOUS
  <2>2. IsFiniteSet(1..n) /\ Cardinality(1..n) = IF 1 > n THEN 0 ELSE n - 1 + 1
    BY <2>1, FS_Interval, Zenon
  <2>3. QED
    BY <2>2
<1>2. IsFiniteSet(P) /\ Cardinality(P) \in Nat /\ Cardinality(P) <= MaxCycles
  BY <1>1, FS_Subset, FS_CardinalityType
<1>3. \A i \in 0..MaxCycles : MonthAt(i) \in Nat
  BY DEF MonthAt
<1>4. \A i, j \in 0..MaxCycles : i < j => MonthAt(i) < MonthAt(j)
  BY DEF MonthAt
<1>5. ASSUME NEW c \in 1..MaxCycles, MonthAt(c) <= now
      PROVE  c <= Cardinality(P)
  <2> HIDE DEF P
  <2>1. \A i \in 1..c : i \in P
    <3> SUFFICES ASSUME NEW i \in 1..c PROVE i \in P
      OBVIOUS
    <3>1. i \in 1..MaxCycles /\ (i = c \/ i < c)
      OBVIOUS
    <3>2. MonthAt(i) <= MonthAt(c)
      BY <1>3, <1>4, <3>1
    <3>3. QED
      BY <1>3, <1>5, <3>1, <3>2 DEF P
  <2>2. Cardinality(1..c) = c
    BY <1>1
  <2>3. QED
    BY <1>2, <2>1, <2>2, FS_Subset
<1>6. ASSUME NEW c \in 1..MaxCycles, ~(MonthAt(c) <= now)
      PROVE  ~(c <= Cardinality(P))
  <2>1. ASSUME NEW i \in P PROVE i \in 1..(c - 1)
    <3>1. i \in 1..MaxCycles /\ MonthAt(i) <= now
      BY <1>3, <2>1
    <3>2. i # c /\ ~(c < i)
      BY <1>3, <1>4, <1>6, <3>1
    <3>3. QED
      BY <3>1, <3>2
  <2>2. IsFiniteSet(1..(c - 1)) /\ Cardinality(1..(c - 1)) = c - 1
    <3>1. c - 1 \in Nat
      OBVIOUS
    <3>2. QED
      BY <1>1, <3>1
  <2>3. Cardinality(P) <= c - 1
    BY <2>1, <2>2, FS_Subset
  <2>4. QED
    BY <1>2, <2>3
<1>7. QED
  BY <1>2, <1>5, <1>6 DEF periodAt

-----------------------------------------------------------------------------
(* The invariant *)

\* A mandate not yet approved has no attempts, and nothing was bought.
LEMMA InitAgentInv == Init => AgentInv
<1> SUFFICES ASSUME Init PROVE AgentInv
  OBVIOUS
<1>1. TypeOK
  <2>1. mandate \in [saved : BOOLEAN, anchor : Nat, enabled : BOOLEAN]
    BY DEF Init
  <2>2. worker \in [at : Point, cycle : Cycle, result : Result]
    BY DEF Init, Resting, Point, Cycle, Result
  <2>3. queue \in Seq(Cycle)
    BY DEF Init
  <2>4. /\ attempt \in [Cycle -> Status] /\ until \in [Cycle -> Nat]
        /\ action \in [Cycle -> {"none", "pending", "complete"}]
        /\ row \in [Cycle -> {"none", "reserved", "policy"}]
        /\ cover \in [Cycle -> [from : Nat, to : Nat] \cup {NoCover}]
        /\ \A c \in Cycle : row[c] = "none" /\ cover[c] = NoCover
    BY DEF Init, Status
  <2>5. QED
    BY <2>1, <2>2, <2>3, <2>4 DEF Init, TypeOK
<1>2. DeclinedSpentNothing /\ CompleteEverywhere
  BY DEF Init, DeclinedSpentNothing, CompleteEverywhere
<1>3. OneAttempt
  BY DEF Init, OneAttempt, Interrupted, AtWork, UnderReview, Resting
<1>4. Traces /\ Claimed
  BY DEF Init, Traces, Claimed, Interrupted, Resting, Cycle
<1>5. QED
  BY <1>1, <1>2, <1>3, <1>4 DEF AgentInv

\* What pausing, resuming and closing change is no part of a purchase, and a
\* mandate is approved while it has no attempts.
LEMMA OwnerKeepsAgentInv ==
  ASSUME AgentInv, Activate \/ Pause \/ ResumeCheck \/ ResumeCommit \/ Close
  PROVE  AgentInv'
<1> USE DEF AgentInv
<1>1. /\ UNCHANGED <<now, up, attempt, until, queue, worker, row, cover, action>>
      /\ worker.at # "reserve"
  BY DEF Activate, Pause, ResumeCheck, ResumeCommit, Close, Yielding, process, adapter, journal
<1>2. mandate' \in [saved : BOOLEAN, anchor : Nat, enabled : BOOLEAN]
  <2>1. now \in Nat /\ mandate \in [saved : BOOLEAN, anchor : Nat, enabled : BOOLEAN]
    BY DEF TypeOK
  <2>2. CASE Activate
    BY <2>1, <2>2 DEF Activate
  <2>3. CASE Pause
    BY <2>1, <2>3 DEF Pause
  <2>4. CASE ResumeCommit
    BY <2>1, <2>4 DEF ResumeCommit
  <2>5. CASE ResumeCheck \/ Close
    BY <2>1, <2>5 DEF ResumeCheck, Close, journal
  <2>6. QED
    BY <2>2, <2>3, <2>4, <2>5
<1>3. TypeOK'
  BY <1>1, <1>2 DEF TypeOK, Activate, Pause, ResumeCheck, ResumeCommit, Close, process
<1>4. DeclinedSpentNothing' /\ CompleteEverywhere'
  BY <1>1 DEF DeclinedSpentNothing, CompleteEverywhere
<1>5. OneAttempt'
  BY <1>1 DEF OneAttempt, Interrupted, AtWork, UnderReview
<1>6. Traces'
  BY <1>1 DEF Traces
<1>7. Claimed'
  <2>1. CASE Activate
    <3>1. /\ \A c \in Cycle : attempt'[c] = "none" /\ row'[c] = "none"
          /\ mandate'.anchor = now' /\ now' \in Nat
      BY <1>1, <2>1 DEF Activate, Claimed, DeclinedSpentNothing, TypeOK
    <3>2. QED
      BY <3>1 DEF Claimed, Interrupted, Done
  <2>2. CASE ~Activate
    <3>1. mandate'.saved = mandate.saved /\ mandate'.anchor = mandate.anchor
      BY <2>2 DEF TypeOK, Activate, Pause, ResumeCheck, ResumeCommit, Close, journal
    <3>2. QED
      BY <1>1, <3>1 DEF Claimed, Interrupted, Done, MonthAt
  <2>3. QED
    BY <2>1, <2>2
<1>8. QED
  BY <1>3, <1>4, <1>5, <1>6, <1>7

\* Time does not take back what was true of the past.
LEMMA TickKeepsAgentInv ==
  ASSUME AgentInv, Tick
  PROVE  AgentInv'
<1> USE DEF AgentInv
<1>1. /\ now' = now + 1 /\ now \in Nat
      /\ UNCHANGED <<up, stopping, mandate, attempt, until, queue, worker, stranded,
                     resuming, row, cover, action>>
  BY DEF Tick, process, journal, adapter, TypeOK
<1>2. TypeOK' /\ DeclinedSpentNothing' /\ CompleteEverywhere' /\ OneAttempt'
  BY <1>1 DEF TypeOK, DeclinedSpentNothing, CompleteEverywhere, OneAttempt,
              Interrupted, AtWork, UnderReview
<1>3. \A c \in Cycle : MonthAt(c) \in Nat /\ MonthAt(c)' = MonthAt(c)
  BY <1>1 DEF MonthAt, TypeOK, Cycle
<1>4. worker.cycle \in Cycle
  BY DEF TypeOK
<1>5. Traces'
  BY <1>1, <1>3, <1>4 DEF Traces
<1>6. Claimed'
  <2>1. mandate.anchor \in Nat /\ \A d \in Cycle : until[d] \in Nat
    BY DEF TypeOK
  <2>2. QED
    BY <1>1, <1>3, <2>1 DEF Claimed, Interrupted, Done
<1>7. QED
  BY <1>2, <1>5, <1>6

\* A cycle is claimed when nothing is at work or under review, and everything
\* bought before has lapsed and belongs to earlier cycles
\* (src/cover-agent/service.js:82-91).
LEMMA EnqueueKeepsAgentInv ==
  ASSUME AgentInv, Enqueue
  PROVE  AgentInv'
<1> USE DEF AgentInv
<1> DEFINE p == periodAt
<1>1. /\ UNCHANGED <<now, up, stopping, stranded, resuming, mandate, until, worker,
                     row, cover, action>>
      /\ up /\ ~AtWork /\ ~UnderReview /\ Due /\ mandate.saved
      /\ attempt[p] \in {"none", "declined"}
      /\ attempt' = [attempt EXCEPT ![p] = "queued"]
      /\ queue' = Append(queue, p)
  BY DEF Enqueue, adapter
<1>2. /\ now \in Nat /\ mandate.anchor \in Nat
      /\ p \in Cycle
  <2>1. now \in Nat /\ mandate.anchor \in Nat
    BY DEF TypeOK
  <2>2. p \in 0..MaxCycles /\ p < MaxCycles
    BY <2>1, PeriodBegun DEF Enqueue
  <2>3. QED
    BY <2>1, <2>2 DEF Cycle
<1> HIDE DEF p
<1>3. queue = <<>> /\ worker.at = "idle" /\ queue' = <<p>>
  <2>1. queue = <<>>
    BY <1>1 DEF OneAttempt, AtWork
  <2>2. worker.at = "idle"
    BY <1>1 DEF OneAttempt, AtWork, TypeOK
  <2>3. QED
    BY <1>1, <2>1, <2>2
<1>4. /\ attempt \in [Cycle -> Status]
      /\ \A c \in Cycle : attempt'[c] = IF c = p THEN "queued" ELSE attempt[c]
  BY <1>1 DEF TypeOK
<1>5. TypeOK'
  <2>1. attempt' \in [Cycle -> Status]
    BY <1>1, <1>2, <1>4 DEF Status
  <2>2. queue' \in Seq(Cycle)
    BY <1>2, <1>3
  <2>3. QED
    BY <1>1, <2>1, <2>2 DEF TypeOK
<1>6. DeclinedSpentNothing' /\ CompleteEverywhere'
  BY <1>1, <1>4 DEF DeclinedSpentNothing, CompleteEverywhere
<1>7. Interrupted' = {p} /\ Done' = Done
  BY <1>1, <1>2, <1>4 DEF Interrupted, AtWork, Done
<1>8. OneAttempt'
  <2>1. worker = Resting
    BY <1>3 DEF OneAttempt
  <2>2. QED
    BY <1>1, <1>2, <1>3, <1>4, <1>7, <2>1 DEF OneAttempt, AtWork, UnderReview, Resting
<1>9. Traces'
  BY <1>1, <1>3 DEF Traces
<1>10. Claimed'
  <2>1. ASSUME NEW d \in Done PROVE d < p /\ until[d] <= now
    <3>1. d \in Cycle /\ MonthAt(d) <= now /\ attempt[d] = "complete"
      BY <2>1 DEF Done, CompleteEverywhere, Claimed
    <3>2. ~(MaxCycles - 1 \in Done)
      <4>1. ASSUME MaxCycles - 1 \in Done PROVE p = MaxCycles - 1
        <5>1. MonthAt(MaxCycles - 1) <= now
          BY <4>1 DEF Done, CompleteEverywhere, Claimed
        <5>2. MaxCycles - 1 \in 1..MaxCycles => MaxCycles - 1 <= p
          BY <1>2, <5>1, PeriodBegun DEF p
        <5>3. QED
          BY <1>2, <5>2 DEF Cycle
      <4>2. QED
        BY <1>1, <4>1 DEF Done
    <3>3. until[d] <= now /\ MonthAt(d + 1) <= now
      BY <1>1, <2>1, <3>2 DEF Due
    <3>4. d + 1 \in 1..MaxCycles /\ d \in Nat
      BY <3>1 DEF Cycle
    <3>5. d + 1 <= p
      BY <1>2, <3>3, <3>4, PeriodBegun DEF p
    <3>6. QED
      BY <1>2, <3>3, <3>4, <3>5 DEF Cycle
  <2>2. QED
    BY <1>1, <1>4, <1>7, <2>1 DEF Claimed, MonthAt
<1>11. QED
  BY <1>5, <1>6, <1>8, <1>9, <1>10

\* The worker takes the claimed cycle from the queue: the attempt is running,
\* or what is left of it is the report that the journal could not be written
\* (src/cover-agent/service.js:68-70).
LEMMA BeginKeepsAgentInv ==
  ASSUME AgentInv, Begin \/ BeginFails
  PROVE  AgentInv'
<1> USE DEF AgentInv
<1>1. PICK c \in Cycle : queue = <<c>> /\ attempt[c] = "queued" /\ worker = Resting
  BY DEF OneAttempt, Begin, BeginFails
<1>2. Head(queue) = c /\ Tail(queue) = <<>>
  BY <1>1
<1>3. /\ UNCHANGED <<now, up, stopping, stranded, resuming, mandate, until, row, cover, action>>
      /\ queue' = <<>>
      /\ \/ /\ attempt' = [attempt EXCEPT ![c] = "running"]
            /\ worker' = [at |-> "check", cycle |-> c, result |-> "none"]
         \/ /\ attempt' = attempt
            /\ worker' = [at |-> "report", cycle |-> c, result |-> "error"]
  BY <1>2 DEF Begin, BeginFails, adapter, journal, Resting
<1>4. attempt \in [Cycle -> Status]
  BY DEF TypeOK
<1>5. TypeOK'
  <2>1. attempt' \in [Cycle -> Status]
    BY <1>3, <1>4 DEF Status
  <2>2. worker' \in [at : Point, cycle : Cycle, result : Result]
    BY <1>3 DEF Point, Result
  <2>3. queue' \in Seq(Cycle)
    BY <1>3
  <2>4. QED
    BY <1>3, <2>1, <2>2, <2>3 DEF TypeOK
<1>6. /\ \A d \in Cycle : d # c => attempt'[d] = attempt[d]
      /\ attempt'[c] \in {"queued", "running"}
      /\ row[c] = "none" /\ action[c] = "none"
  BY <1>1, <1>3, <1>4 DEF DeclinedSpentNothing
<1>7. DeclinedSpentNothing' /\ CompleteEverywhere'
  BY <1>3, <1>6 DEF DeclinedSpentNothing, CompleteEverywhere
<1>8. Interrupted' = Interrupted /\ Done' = Done /\ AtWork /\ UnderReview' = UnderReview
  BY <1>1, <1>6 DEF Interrupted, Done, AtWork, UnderReview
<1>9. OneAttempt'
  <2>1. worker'.cycle = c /\ worker'.at # "idle" /\ up
    BY <1>1, <1>3 DEF OneAttempt
  <2>2. \/ attempt'[c] = "running"
        \/ attempt'[c] = "queued" /\ worker'.at = "report" /\ worker'.result = "error"
    BY <1>1, <1>3, <1>4
  <2>3. QED
    BY <1>3, <1>8, <2>1, <2>2 DEF OneAttempt
<1>10. Traces'
  BY <1>3, <1>6 DEF Traces
<1>11. Claimed'
  <2>1. mandate.saved
    BY <1>1 DEF Claimed
  <2>2. QED
    BY <1>3, <1>8, <2>1 DEF Claimed, MonthAt
<1>12. QED
  BY <1>5, <1>7, <1>9, <1>10, <1>11

\* Between taking the job and reporting it, a purchase changes the rows of its
\* own cycle only, and those of a running attempt may be anything that Traces
\* allows at the next point (src/demo/purchase.js).
LEMMA PurchaseKeepsAgentInv ==
  ASSUME AgentInv,
         UNCHANGED <<now, process, journal>>,
         worker.at \notin {"idle", "report"},
         worker' \in [at : Point, cycle : Cycle, result : Result],
         worker'.cycle = worker.cycle,
         worker'.at # "idle",
         row' \in [Cycle -> {"none", "reserved", "policy"}],
         action' \in [Cycle -> {"none", "pending", "complete"}],
         cover' \in [Cycle -> [from : Nat, to : Nat] \cup {NoCover}],
         cover'[worker.cycle] = NoCover <=> row'[worker.cycle] = "none",
         row'[worker.cycle] # "none" => MonthAt(worker.cycle) <= now,
         \A c \in Cycle \ {worker.cycle} : /\ row'[c] = row[c]
                                           /\ cover'[c] = cover[c]
                                           /\ action'[c] = action[c],
         Traces'
  PROVE  AgentInv'
<1> USE DEF AgentInv
<1>1. UNCHANGED <<now, up, stopping, queue, stranded, resuming, mandate, attempt, until>>
  BY DEF process, journal
<1>2. attempt[worker.cycle] = "running"
  BY DEF OneAttempt
<1>3. TypeOK'
  <2>1. ASSUME NEW c \in Cycle PROVE cover'[c] = NoCover <=> row'[c] = "none"
    <3>1. CASE c = worker.cycle
      BY <3>1
    <3>2. CASE c # worker.cycle
      <4>1. cover'[c] = cover[c] /\ row'[c] = row[c]
        BY <3>2
      <4>2. cover[c] = NoCover <=> row[c] = "none"
        BY DEF TypeOK
      <4>3. QED
        BY <4>1, <4>2
    <3>3. QED
      BY <3>1, <3>2
  <2>2. QED
    BY <1>1, <2>1 DEF TypeOK
<1>4. DeclinedSpentNothing' /\ CompleteEverywhere'
  BY <1>1, <1>2 DEF DeclinedSpentNothing, CompleteEverywhere
<1>5. OneAttempt'
  <2>1. queue = <<>> /\ up
    BY DEF OneAttempt, Resting
  <2>2. QED
    BY <1>1, <1>2, <2>1 DEF OneAttempt, Interrupted, AtWork, UnderReview
<1>6. Claimed'
  BY <1>1 DEF Claimed, Interrupted, Done, MonthAt
<1>7. QED
  BY <1>3, <1>4, <1>5, <1>6

\* The steps of a purchase: what it finds at each point is what the next point
\* relies on (src/demo/purchase.js, src/cover-agent/service.js:71-75).
LEMMA StepKeepsAgentInv ==
  ASSUME AgentInv,
         \/ CheckFails \/ CheckPasses \/ Issue \/ QuotePasses \/ CapacityPasses
         \/ Decline \/ Admit \/ Reserve \/ Record \/ Finish \/ Fail
  PROVE  AgentInv'
<1> USE DEF AgentInv
<1> DEFINE w == worker.cycle
<1>1. /\ now \in Nat /\ mandate.anchor \in Nat /\ mandate.anchor <= now
      /\ worker \in [at : Point, cycle : Cycle, result : Result] /\ w \in Cycle
      /\ row \in [Cycle -> {"none", "reserved", "policy"}]
      /\ action \in [Cycle -> {"none", "pending", "complete"}]
      /\ cover \in [Cycle -> [from : Nat, to : Nat] \cup {NoCover}]
      /\ \A c \in Cycle : /\ cover[c] = NoCover <=> row[c] = "none"
                          /\ row[c] # "none" => MonthAt(c) <= now
  BY DEF TypeOK, Claimed
<1>2. worker.at \notin {"idle", "report"}
  BY <1>1 DEF CheckFails, CheckPasses, Issue, QuotePasses, CapacityPasses, Decline, Admit,
         Reserve, Record, Finish, Fail, Goto
<1>3. UNCHANGED <<now, process, journal>>
  BY DEF CheckFails, CheckPasses, Issue, QuotePasses, CapacityPasses, Decline, Admit,
         Reserve, Record, Finish, Fail
<1>4. UNCHANGED <<now, mandate>>
  BY <1>3 DEF journal
\* A step that only moves the worker.
<1>5. ASSUME UNCHANGED adapter,
             worker' \in [at : Point, cycle : Cycle, result : Result],
             worker'.cycle = w, worker'.at # "idle",
             Traces'
      PROVE  AgentInv'
  <2>1. UNCHANGED <<row, cover, action>>
    BY <1>5 DEF adapter
  <2>2. QED
    BY <1>1, <1>2, <1>3, <1>5, <2>1, PurchaseKeepsAgentInv
<1>6. CASE CheckFails \/ Decline
  <2>1. UNCHANGED <<row, cover, action>> /\ worker' = [worker EXCEPT !.at = "report", !.result = "declined"]
    BY <1>6 DEF CheckFails, Decline, Answer, adapter
  <2>2. row[w] = "none" /\ action[w] = "none"
    BY <1>6 DEF CheckFails, Decline, Traces
  <2>3. worker' \in [at : Point, cycle : Cycle, result : Result]
    BY <1>1, <2>1 DEF Point, Result
  <2>4. worker'.at = "report" /\ worker'.cycle = w /\ worker'.result = "declined"
    BY <1>1, <2>1
  <2>5. Traces'
    BY <2>1, <2>2, <2>4 DEF Traces
  <2>6. QED
    BY <1>5, <2>1, <2>3, <2>4, <2>5 DEF adapter
<1>7. CASE CheckPasses \/ QuotePasses \/ CapacityPasses
  <2>1. PICK to \in {"issue", "capacity", "admit"} : worker' = [worker EXCEPT !.at = to]
    BY <1>7 DEF CheckPasses, QuotePasses, CapacityPasses, Goto
  <2>2. UNCHANGED <<row, cover, action>> /\ row[w] = "none" /\ action[w] = "none"
    BY <1>7 DEF CheckPasses, QuotePasses, CapacityPasses, Goto, adapter, Traces
  <2>3. worker' \in [at : Point, cycle : Cycle, result : Result]
    BY <1>1, <2>1 DEF Point
  <2>4. worker'.at = to /\ worker'.cycle = w
    BY <1>1, <2>1
  <2>5. Traces'
    BY <2>1, <2>2, <2>4 DEF Traces
  <2>6. QED
    BY <1>5, <2>1, <2>2, <2>3, <2>4, <2>5 DEF adapter
<1>8. CASE Issue
  <2>1. UNCHANGED <<row, cover, action>> /\ row[w] = "none" /\ action[w] = "none"
    BY <1>1, <1>8 DEF Issue, Goto, adapter, Traces
  <2>2. worker' = [worker EXCEPT !.at = "quote"]
    BY <1>8, <2>1 DEF Issue, Goto
  <2>3. worker' \in [at : Point, cycle : Cycle, result : Result]
    BY <1>1, <2>2 DEF Point
  <2>4. worker'.at = "quote" /\ worker'.cycle = w
    BY <1>1, <2>2
  <2>5. Traces'
    BY <2>1, <2>4 DEF Traces
  <2>6. QED
    BY <1>5, <2>1, <2>3, <2>4, <2>5 DEF adapter
<1>9. CASE Admit
  <2>1. /\ row[w] = "none" /\ action[w] = "none" /\ mandate.enabled /\ periodAt = w
        /\ UNCHANGED <<row, cover>>
        /\ action' = [action EXCEPT ![w] = "pending"]
        /\ worker' = [worker EXCEPT !.at = "reserve"]
    BY <1>9 DEF Admit, Allowed, Goto, Traces
  <2>2. MonthAt(w) <= now
    <3>1. CASE w = 0
      BY <1>1, <3>1 DEF MonthAt
    <3>2. CASE w # 0
      <4>1. w \in 1..MaxCycles /\ w <= periodAt
        BY <1>1, <2>1, <3>2 DEF Cycle
      <4>2. QED
        BY <1>1, <4>1, PeriodBegun
    <3>3. QED
      BY <3>1, <3>2
  <2>3. /\ worker' \in [at : Point, cycle : Cycle, result : Result]
        /\ worker'.at = "reserve" /\ worker'.cycle = w
    BY <1>1, <2>1 DEF Point
  <2>4. Traces'
    BY <1>4, <2>1, <2>2, <2>3 DEF Traces, MonthAt
  <2>5. action' \in [Cycle -> {"none", "pending", "complete"}]
    BY <1>1, <2>1
  <2>6. QED
    BY <1>1, <1>2, <1>3, <2>1, <2>3, <2>4, <2>5, PurchaseKeepsAgentInv
<1>10. CASE Reserve
  <2>1. /\ row' = [row EXCEPT ![w] = "reserved"] /\ UNCHANGED action
        /\ cover' = [cover EXCEPT ![w] = [from |-> now, to |-> now + daysFor(w)]]
        /\ worker' = [worker EXCEPT !.at = "ledger"]
        /\ MonthAt(w) <= now
    BY <1>10 DEF Reserve, Goto, Traces
  <2>2. /\ worker' \in [at : Point, cycle : Cycle, result : Result]
        /\ worker'.at = "ledger" /\ worker'.cycle = w
    BY <1>1, <2>1 DEF Point
  <2>3. row' \in [Cycle -> {"none", "reserved", "policy"}] /\ row'[w] = "reserved"
    BY <1>1, <2>1
  <2>4. Traces'
    BY <2>2, <2>3 DEF Traces
  <2>5. daysFor(w) \in Nat
    BY <1>1 DEF daysFor, Cycle
  <2>6. /\ cover' \in [Cycle -> [from : Nat, to : Nat] \cup {NoCover}]
        /\ cover'[w] # NoCover
    BY <1>1, <2>1, <2>5
  <2>7. QED
    BY <1>1, <1>2, <1>3, <2>1, <2>2, <2>3, <2>4, <2>6, PurchaseKeepsAgentInv
<1>11. CASE Record
  <2>1. /\ row' = [row EXCEPT ![w] = "policy"] /\ UNCHANGED <<cover, action>>
        /\ worker' = [worker EXCEPT !.at = "finish"]
        /\ row[w] = "reserved"
    BY <1>11 DEF Record, Goto, Traces
  <2>2. /\ worker' \in [at : Point, cycle : Cycle, result : Result]
        /\ worker'.at = "finish" /\ worker'.cycle = w
    BY <1>1, <2>1 DEF Point
  <2>3. row' \in [Cycle -> {"none", "reserved", "policy"}] /\ row'[w] = "policy"
    BY <1>1, <2>1
  <2>4. Traces'
    BY <2>2, <2>3 DEF Traces
  <2>5. cover'[w] # NoCover /\ MonthAt(w) <= now
    BY <1>1, <2>1
  <2>6. QED
    BY <1>1, <1>2, <1>3, <2>1, <2>2, <2>3, <2>4, <2>5, PurchaseKeepsAgentInv
<1>12. CASE Finish
  <2>1. /\ action' = [action EXCEPT ![w] = "complete"] /\ UNCHANGED <<row, cover>>
        /\ worker' = [worker EXCEPT !.at = "report", !.result = "ok"]
        /\ row[w] = "policy"
    BY <1>12 DEF Finish, Answer, Traces
  <2>2. /\ worker' \in [at : Point, cycle : Cycle, result : Result]
        /\ worker'.at = "report" /\ worker'.cycle = w /\ worker'.result = "ok"
    BY <1>1, <2>1 DEF Point, Result
  <2>3. action' \in [Cycle -> {"none", "pending", "complete"}] /\ action'[w] = "complete"
    BY <1>1, <2>1
  <2>4. Traces'
    BY <2>1, <2>2, <2>3 DEF Traces
  <2>5. QED
    BY <1>1, <1>2, <1>3, <2>1, <2>2, <2>3, <2>4, PurchaseKeepsAgentInv
<1>13. CASE Fail
  <2>1. UNCHANGED adapter /\ worker' = [worker EXCEPT !.at = "report", !.result = "error"]
    BY <1>13 DEF Fail, Answer
  <2>2. /\ worker' \in [at : Point, cycle : Cycle, result : Result]
        /\ worker'.at = "report" /\ worker'.cycle = w /\ worker'.result = "error"
    BY <1>1, <2>1 DEF Point, Result
  <2>3. Traces'
    BY <2>2 DEF Traces
  <2>4. QED
    BY <1>5, <2>1, <2>2, <2>3
<1>14. QED
  BY <1>6, <1>7, <1>8, <1>9, <1>10, <1>11, <1>12, <1>13

\* A report ends the only attempt at work (src/cover-agent/service.js:60-67).
LEMMA ReportKeepsAgentInv ==
  ASSUME AgentInv, ReportPolicy \/ ReportTrouble \/ ReportFails
  PROVE  AgentInv'
<1> USE DEF AgentInv
<1> DEFINE w == worker.cycle
<1>1. /\ worker \in [at : Point, cycle : Cycle, result : Result] /\ w \in Cycle
      /\ attempt \in [Cycle -> Status] /\ until \in [Cycle -> Nat]
      /\ mandate \in [saved : BOOLEAN, anchor : Nat, enabled : BOOLEAN]
      /\ Resting \in [at : Point, cycle : Cycle, result : Result]
      /\ Resting.at = "idle"
  BY DEF TypeOK, Resting, Point, Result, Cycle
<1>2. worker.at = "report" /\ UNCHANGED <<now, up, stopping, queue, resuming, row, cover, action>>
  BY DEF ReportPolicy, ReportTrouble, ReportFails, process, adapter
<1>3. /\ queue = <<>> /\ up /\ w \in Interrupted /\ mandate.saved
      /\ \A c \in Interrupted : c = w
      /\ ~UnderReview
  BY <1>1, <1>2 DEF OneAttempt, Interrupted, AtWork, Resting, Claimed
<1>4. CASE ReportFails
  <2>1. UNCHANGED <<mandate, attempt, until>> /\ stranded' \in BOOLEAN
    BY <1>4 DEF ReportFails, journal, TypeOK
  <2>2. \/ worker' = Resting
        \/ /\ worker' = [worker EXCEPT !.at = "report", !.result = "error"]
           /\ worker.result # "error"
    BY <1>4 DEF ReportFails, Answer
  <2>3. worker' \in [at : Point, cycle : Cycle, result : Result]
    BY <1>1, <2>2 DEF Point, Result
  <2>4. TypeOK' /\ DeclinedSpentNothing' /\ CompleteEverywhere'
    BY <1>2, <2>1, <2>3 DEF TypeOK, DeclinedSpentNothing, CompleteEverywhere
  <2>5. OneAttempt'
    BY <1>1, <1>2, <1>3, <2>1, <2>2 DEF OneAttempt, Interrupted, AtWork, UnderReview
  <2>6. Traces'
    BY <1>1, <2>2 DEF Traces
  <2>7. Claimed'
    BY <1>2, <2>1 DEF Claimed, Interrupted, Done, MonthAt
  <2>8. QED
    BY <2>4, <2>5, <2>6, <2>7
<1>5. CASE ReportPolicy
  <2>1. /\ attempt' = [attempt EXCEPT ![w] = "complete"]
        /\ until' = [until EXCEPT ![w] = cover[w].to]
        /\ worker' = Resting /\ UNCHANGED <<mandate, stranded>>
        /\ row[w] = "policy" /\ action[w] = "complete" /\ cover[w].to \in Nat
    BY <1>1, <1>5 DEF ReportPolicy, process, Traces, TypeOK
  <2>2. TypeOK'
    <3>1. attempt' \in [Cycle -> Status] /\ until' \in [Cycle -> Nat]
      BY <1>1, <2>1 DEF Status
    <3>2. QED
      BY <1>1, <1>2, <2>1, <3>1 DEF TypeOK
  <2>3. DeclinedSpentNothing' /\ CompleteEverywhere'
    BY <1>1, <1>2, <2>1 DEF DeclinedSpentNothing, CompleteEverywhere
  <2>4. Interrupted' = {} /\ ~AtWork' /\ ~UnderReview'
    BY <1>1, <1>3, <2>1 DEF Interrupted, AtWork, UnderReview
  <2>5. OneAttempt' /\ Traces'
    BY <1>1, <1>2, <1>3, <2>1, <2>4 DEF OneAttempt, Traces
  <2>6. Claimed'
    BY <1>2, <1>3, <2>1, <2>4 DEF Claimed, MonthAt
  <2>7. QED
    BY <2>2, <2>3, <2>5, <2>6
<1>6. CASE ReportTrouble
  <2>1. /\ attempt' = [attempt EXCEPT ![w] = IF worker.result = "declined" THEN "declined" ELSE "needs_review"]
        /\ mandate' = [mandate EXCEPT !.enabled = FALSE]
        /\ worker' = Resting /\ UNCHANGED <<until, stranded>>
        /\ worker.result = "declined" => row[w] = "none" /\ action[w] = "none"
    BY <1>6 DEF ReportTrouble, process, Traces
  <2>2. /\ mandate' \in [saved : BOOLEAN, anchor : Nat, enabled : BOOLEAN]
        /\ mandate'.anchor = mandate.anchor /\ mandate'.saved = mandate.saved
    BY <1>1, <2>1
  <2>3. TypeOK'
    <3>1. attempt' \in [Cycle -> Status]
      BY <1>1, <2>1 DEF Status
    <3>2. QED
      BY <1>1, <1>2, <2>1, <2>2, <3>1 DEF TypeOK
  <2>4. DeclinedSpentNothing' /\ CompleteEverywhere'
    BY <1>1, <1>2, <2>1 DEF DeclinedSpentNothing, CompleteEverywhere
  <2>5. Interrupted' = {} /\ ~AtWork'
    BY <1>1, <1>3, <2>1 DEF Interrupted, AtWork
  <2>6. OneAttempt' /\ Traces'
    BY <1>1, <1>2, <1>3, <2>1, <2>5 DEF OneAttempt, Traces
  <2>7. Claimed'
    BY <1>2, <1>3, <2>1, <2>2, <2>5 DEF Claimed, MonthAt
  <2>8. QED
    BY <2>3, <2>4, <2>6, <2>7
<1>7. QED
  BY <1>4, <1>5, <1>6

\* What ends with the process is the queue and the worker: the attempt that was
\* at work stays so in the journal until the next start.
LEMMA ExitKeepsAgentInv ==
  ASSUME AgentInv, Crash \/ Closed
  PROVE  AgentInv'
<1> USE DEF AgentInv
<1>1. /\ UNCHANGED <<now, mandate, attempt, until, row, cover, action>>
      /\ up' = FALSE /\ stopping' = FALSE /\ stranded' = FALSE /\ resuming' = FALSE
      /\ queue' = <<>> /\ worker' = Resting /\ worker'.at = "idle"
  BY DEF Crash, Closed, Exit, journal, adapter, Resting
<1>2. TypeOK'
  <2>1. worker' \in [at : Point, cycle : Cycle, result : Result]
    BY <1>1 DEF Resting, Point, Result, Cycle
  <2>2. /\ up' \in BOOLEAN /\ stopping' \in BOOLEAN
        /\ stranded' \in BOOLEAN /\ resuming' \in BOOLEAN
    BY <1>1, Zenon
  <2>3. queue' \in Seq(Cycle)
    BY <1>1
  <2>4. QED
    BY <1>1, <2>1, <2>2, <2>3 DEF TypeOK
<1>3. DeclinedSpentNothing' /\ CompleteEverywhere'
  BY <1>1 DEF DeclinedSpentNothing, CompleteEverywhere
<1>4. OneAttempt'
  BY <1>1 DEF OneAttempt, Interrupted, AtWork, UnderReview
<1>5. Traces'
  BY <1>1 DEF Traces
<1>6. Claimed'
  BY <1>1 DEF Claimed, Interrupted, Done, MonthAt
<1>7. QED
  BY <1>2, <1>3, <1>4, <1>5, <1>6

\* The start of the server first finishes the account's actions of the policies
\* it finds in the book (src/cover-agent/service.js:104-107).
LEMMA ReconcileKeepsAgentInv ==
  ASSUME AgentInv, NEW c \in Cycle, Reconcile(c)
  PROVE  AgentInv'
<1> USE DEF AgentInv
<1>1. /\ UNCHANGED <<now, up, stopping, queue, stranded, resuming, mandate, attempt,
                     until, worker, row, cover>>
      /\ action' = [action EXCEPT ![c] = "complete"]
      /\ c \in Interrupted /\ row[c] = "policy"
      /\ worker = Resting /\ worker.at = "idle"
      /\ action \in [Cycle -> {"none", "pending", "complete"}]
  BY DEF Reconcile, process, journal, OneAttempt, Resting, TypeOK
<1>2. TypeOK'
  <2>1. action' \in [Cycle -> {"none", "pending", "complete"}]
    BY <1>1
  <2>2. QED
    BY <1>1, <2>1 DEF TypeOK
<1>3. DeclinedSpentNothing' /\ CompleteEverywhere'
  BY <1>1 DEF DeclinedSpentNothing, CompleteEverywhere, Interrupted
<1>4. OneAttempt'
  BY <1>1 DEF OneAttempt, Interrupted, AtWork, UnderReview
<1>5. Traces'
  BY <1>1 DEF Traces
<1>6. Claimed'
  BY <1>1 DEF Claimed, Interrupted, Done, MonthAt
<1>7. QED
  BY <1>2, <1>3, <1>4, <1>5, <1>6

\* The start leaves nothing at work: an attempt is complete if the book has its
\* policy, and otherwise under review (src/cover-agent/service.js:110-116).
LEMMA InitializeKeepsAgentInv ==
  ASSUME AgentInv, Initialize
  PROVE  AgentInv'
<1> USE DEF AgentInv
<1>1. /\ UNCHANGED <<now, stopping, queue, stranded, resuming, worker, row, cover, action>>
      /\ up' = TRUE /\ worker = Resting /\ worker.at = "idle" /\ queue = <<>>
      /\ mandate' = mandate \/ mandate' = [mandate EXCEPT !.enabled = FALSE]
      /\ mandate \in [saved : BOOLEAN, anchor : Nat, enabled : BOOLEAN]
      /\ attempt \in [Cycle -> Status] /\ until \in [Cycle -> Nat]
      /\ cover \in [Cycle -> [from : Nat, to : Nat] \cup {NoCover}]
      /\ \A c \in Cycle : cover[c] = NoCover <=> row[c] = "none"
  BY DEF Initialize, adapter, OneAttempt, Resting, TypeOK
<1>2. \A c \in Cycle :
        attempt'[c] = IF c \notin Interrupted THEN attempt[c]
                      ELSE IF row[c] = "policy" THEN "complete" ELSE "needs_review"
  BY DEF Initialize
<1>3. \A c \in Cycle :
        until'[c] = IF c \in Interrupted /\ row[c] = "policy" THEN cover[c].to ELSE until[c]
  BY DEF Initialize
<1>4. \A c \in Interrupted : row[c] = "policy" => action[c] = "complete"
  BY DEF Initialize
<1>5. /\ mandate' \in [saved : BOOLEAN, anchor : Nat, enabled : BOOLEAN]
      /\ mandate'.anchor = mandate.anchor /\ mandate'.saved = mandate.saved
  BY <1>1
<1>6. TypeOK'
  <2>1. attempt' \in [Cycle -> Status]
    BY <1>1 DEF Initialize, Status
  <2>2. until' \in [Cycle -> Nat]
    <3>1. \A c \in Cycle : row[c] = "policy" => cover[c].to \in Nat
      BY <1>1
    <3>2. QED
      BY <1>1, <3>1 DEF Initialize
  <2>3. QED
    BY <1>1, <1>5, <2>1, <2>2 DEF TypeOK
<1>7. DeclinedSpentNothing' /\ CompleteEverywhere'
  BY <1>1, <1>2, <1>3, <1>4 DEF DeclinedSpentNothing, CompleteEverywhere, Interrupted
<1>8. Interrupted' = {} /\ ~AtWork'
  BY <1>2 DEF Interrupted, AtWork
<1>9. OneAttempt'
  BY <1>1, <1>8 DEF OneAttempt
<1>10. Traces'
  BY <1>1 DEF Traces
<1>11. Claimed'
  <2>1. ~mandate.saved => \A c \in Cycle : attempt'[c] = "none"
    BY <1>2 DEF Claimed, Interrupted
  <2>2. QED
    BY <1>1, <1>5, <1>8, <2>1 DEF Claimed, MonthAt
<1>12. QED
  BY <1>6, <1>7, <1>9, <1>10, <1>11

\* Every step of the agent preserves the invariant.
LEMMA NextAgentInv ==
  ASSUME AgentInv, [Next]_vars
  PROVE  AgentInv'
<1>1. CASE Activate \/ Pause \/ ResumeCheck \/ ResumeCommit \/ Close
  BY <1>1, OwnerKeepsAgentInv
<1>2. CASE Enqueue
  BY <1>2, EnqueueKeepsAgentInv
<1>3. CASE Begin \/ BeginFails
  BY <1>3, BeginKeepsAgentInv
<1>4. CASE \/ CheckFails \/ CheckPasses \/ Issue \/ QuotePasses \/ CapacityPasses
           \/ Decline \/ Admit \/ Reserve \/ Record \/ Finish \/ Fail
  BY <1>4, StepKeepsAgentInv
<1>5. CASE ReportPolicy \/ ReportTrouble \/ ReportFails
  BY <1>5, ReportKeepsAgentInv
<1>6. CASE Crash \/ Closed
  BY <1>6, ExitKeepsAgentInv
<1>7. CASE Restart
  BY <1>7, ReconcileKeepsAgentInv, InitializeKeepsAgentInv DEF Restart
<1>8. CASE Tick
  BY <1>8, TickKeepsAgentInv
<1>9. CASE UNCHANGED vars
  BY <1>9 DEF vars, AgentInv, TypeOK, DeclinedSpentNothing, CompleteEverywhere, OneAttempt,
             Traces, Claimed, Interrupted, AtWork, UnderReview, Done, MonthAt
<1>10. QED
  BY <1>1, <1>2, <1>3, <1>4, <1>5, <1>6, <1>7, <1>8, <1>9 DEF Next, Work

-----------------------------------------------------------------------------
(* The theorems *)

\* The inductive invariant holds in every state the agent reaches.
THEOREM AgentInvariant == Spec => []AgentInv
<1>1. QED
  BY InitAgentInv, NextAgentInv, PTL DEF Spec

\* Every variable keeps its type.
THEOREM AgentTyping == Spec => []TypeOK
<1>1. AgentInv => TypeOK
  BY DEF AgentInv
<1>2. QED
  BY <1>1, AgentInvariant, PTL

\* An attempt called declined has left nothing in the book or the account's
\* journal, so that trying it again cannot buy twice.
THEOREM DeclinedSafe == Spec => []DeclinedSpentNothing
<1>1. AgentInv => DeclinedSpentNothing
  BY DEF AgentInv
<1>2. QED
  BY <1>1, AgentInvariant, PTL

\* A complete attempt has its policy and its finished action, through crashes.
THEOREM CompleteAgrees == Spec => []CompleteEverywhere
<1>1. AgentInv => CompleteEverywhere
  BY DEF AgentInv
<1>2. QED
  BY <1>1, AgentInvariant, PTL

\* The book's rows of the mandate change at the reservation and at the record.
LEMMA BookChanges ==
  ASSUME [Next]_vars, ~Reserve, ~Record
  PROVE  UNCHANGED <<row, cover>>
<1>1. CASE Activate \/ Enqueue \/ Pause \/ ResumeCheck \/ ResumeCommit \/ Tick
  BY <1>1 DEF Activate, Enqueue, Pause, ResumeCheck, ResumeCommit, Tick, adapter
<1>2. CASE Begin \/ BeginFails \/ CheckFails \/ CheckPasses \/ Issue \/ QuotePasses
  BY <1>2 DEF Begin, BeginFails, CheckFails, CheckPasses, Issue, QuotePasses, adapter
<1>3. CASE CapacityPasses \/ Decline \/ Admit \/ Finish \/ Fail
  BY <1>3 DEF CapacityPasses, Decline, Admit, Finish, Fail, adapter
<1>4. CASE ReportPolicy \/ ReportTrouble \/ ReportFails
  BY <1>4 DEF ReportPolicy, ReportTrouble, ReportFails, adapter
<1>5. CASE Crash \/ Close \/ Closed \/ Restart
  BY <1>5 DEF Crash, Close, Closed, Restart, Reconcile, Initialize, adapter
<1>6. CASE UNCHANGED vars
  BY <1>6 DEF vars, adapter
<1>7. QED
  BY <1>1, <1>2, <1>3, <1>4, <1>5, <1>6 DEF Next, Work

\* While an attempt is under review none is at work, so nothing is reserved and
\* no other action takes the attempt out of review.
THEOREM ReviewStopsSpending == Spec => NoSpendingUnderReview
<1>1. ASSUME AgentInv, [Next]_vars, UnderReview
      PROVE  UnderReview' /\ \A c \in Cycle : row[c] = "none" => row'[c] = "none"
  <2>1. ~AtWork /\ queue = <<>> /\ worker.at = "idle"
    BY <1>1 DEF AgentInv, OneAttempt, AtWork, TypeOK
  <2>2. ~Reserve /\ ~Record
    BY <2>1 DEF Reserve, Record, Goto
  <2>3. UnderReview'
    <3>1. \/ UNCHANGED attempt
          \/ Initialize
      BY <1>1, <2>1 DEF Next, Work, Restart, vars, Activate, Enqueue, Pause, ResumeCheck,
         ResumeCommit, Begin, BeginFails, ReportPolicy, ReportTrouble, ReportFails,
         CheckFails, CheckPasses, Issue, QuotePasses, CapacityPasses, Decline, Admit,
         Reserve, Record, Finish, Fail, Crash, Close, Closed, Reconcile, Tick, journal
    <3>2. QED
      BY <1>1, <3>1 DEF Initialize, UnderReview, Interrupted
  <2>4. QED
    BY <1>1, <2>2, <2>3, BookChanges
<1>2. QED
  BY <1>1, AgentInvariant, PTL DEF Spec, NoSpendingUnderReview

\* A reservation follows the look at the mandate without a pause between them.
THEOREM PauseStops == Spec => PauseStopsAdmission
<1>1. ASSUME AgentInv, [Next]_vars, NEW c \in Cycle, row[c] = "none", row'[c] # "none"
      PROVE  mandate.enabled
  <2>1. CASE Reserve
    BY <1>1, <2>1 DEF AgentInv, Traces, Reserve, Goto
  <2>2. CASE Record
    BY <1>1, <2>2 DEF AgentInv, TypeOK, Traces, Record, Goto
  <2>3. QED
    BY <1>1, <2>1, <2>2, BookChanges
<1>2. AgentInv /\ [Next]_vars =>
        \A c \in Cycle : row[c] = "none" /\ row'[c] # "none" => mandate.enabled
  BY <1>1
<1>3. QED
  BY <1>2, AgentInvariant, PTL DEF Spec, PauseStopsAdmission

\* The agent buys what the plan allows: each cycle once, in order, and nothing
\* that overlaps what it bought before.
THEOREM AgentFollowsPlan == Spec => PlanSpec
<1>1. Init => Plan!Init
  BY DEF Init, Plan!Init
<1>2. ASSUME AgentInv, [Next]_vars
      PROVE  [Plan!Next]_cover
  <2>1. CASE ~Reserve
    BY <1>2, <2>1, BookChanges DEF Record
  <2>2. CASE Reserve
    <3> DEFINE w == worker.cycle
    <3>1. /\ now \in Nat /\ w \in Cycle /\ row[w] = "none"
          /\ cover \in [Cycle -> [from : Nat, to : Nat] \cup {NoCover}]
          /\ \A d \in Cycle : cover[d] = NoCover <=> row[d] = "none"
      BY <1>2, <2>2 DEF AgentInv, TypeOK, Traces, Reserve, Goto
    <3>2. daysFor(w) \in Nat /\ 0 < daysFor(w)
      BY <3>1 DEF daysFor, Cycle
    <3>3. ASSUME NEW d \in Cycle, cover[d] # NoCover
          PROVE  d < w /\ cover[d].to <= now
      <4>1. w \in Interrupted
        BY <1>2, <2>2, <3>1 DEF AgentInv, OneAttempt, Reserve, Goto, Interrupted
      <4>2. attempt[d] = "complete"
        <5>1. row[d] # "none" /\ d # w
          BY <3>1, <3>3
        <5>2. attempt[d] \in {"running", "complete", "needs_review"}
          BY <1>2, <5>1 DEF AgentInv, DeclinedSpentNothing
        <5>3. d \notin Interrupted
          BY <1>2, <4>1, <5>1 DEF AgentInv, OneAttempt
        <5>4. ~UnderReview
          BY <1>2, <4>1 DEF AgentInv, OneAttempt, AtWork, Interrupted
        <5>5. QED
          BY <5>2, <5>3, <5>4 DEF Interrupted, UnderReview
      <4>3. QED
        BY <1>2, <4>1, <4>2 DEF AgentInv, Claimed, CompleteEverywhere, Done
    <3>4. cover' = [cover EXCEPT ![w] = [from |-> now, to |-> now + daysFor(w)]]
      BY <2>2 DEF Reserve
    <3>5. /\ cover'[w] # NoCover /\ cover'[w].from = now /\ cover'[w].to = now + daysFor(w)
          /\ now + daysFor(w) \in Nat /\ now < now + daysFor(w)
      BY <3>1, <3>2, <3>4
    <3>6. Plan!Buy(w, now, now + daysFor(w))
      BY <3>1, <3>3, <3>4, <3>5 DEF Plan!Buy
    <3>7. QED
      BY <3>1, <3>5, <3>6 DEF Plan!Next
  <2>3. QED
    BY <2>1, <2>2
<1>3. QED
  BY <1>1, <1>2, AgentInvariant, PTL DEF Spec, PlanSpec, Plan!Spec

\* The three files of a purchase agree, for any number of cycles and through crashes.
THEOREM AgentJournalsAgree == Spec => []JournalsAgree
<1>1. QED
  BY DeclinedSafe, CompleteAgrees, PTL DEF JournalsAgree

\* A review and a pause both stop the spending of a mandate.
THEOREM AgentSpendingStops == Spec => SpendingStops
<1>1. QED
  BY ReviewStopsSpending, PauseStops DEF SpendingStops
=============================================================================
