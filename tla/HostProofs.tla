----------------------------- MODULE HostProofs -----------------------------
(***************************************************************************)
(* What the parts of the host promise, for every number of visitors,       *)
(* operations, readers and scripts' crashes, every limit and every span:   *)
(* each part keeps an inductive invariant of its own, and a step of the    *)
(* host is a step of one part.  In order: saved operations, shared reads,  *)
(* chats, scripts, visitors, wallets, budgets, quotes; then the host.      *)
(***************************************************************************)
EXTENDS Host, FiniteSetTheorems, SequenceTheorems, WellFoundedInduction, TLAPS

USE HostAssumption

-----------------------------------------------------------------------------
\* An instance has the operators of the modules it extends under names of its own; they
\* are those of FiniteSets.
LEMMA ReadsSets == \A S : Reads!Cardinality(S) = Cardinality(S)
  BY DEF Reads!Cardinality, Cardinality, Reads!IsFiniteSet, IsFiniteSet

\* The same operators, as the chats' instance names them.
LEMMA ChatSets == \A S : Chat!Cardinality(S) = Cardinality(S) /\ Chat!IsFiniteSet(S) = IsFiniteSet(S)
  BY DEF Chat!Cardinality, Cardinality, Chat!IsFiniteSet, IsFiniteSet

\* The same, as the scripts' instance names them.
LEMMA ScriptsSets ==
  \A S : Scripts!Cardinality(S) = Cardinality(S) /\ Scripts!IsFiniteSet(S) = IsFiniteSet(S)
  BY DEF Scripts!Cardinality, Cardinality, Scripts!IsFiniteSet, IsFiniteSet

\* The same, as the budgets' instance names them.
LEMMA BudgetsSets ==
  \A S : Budgets!Cardinality(S) = Cardinality(S) /\ Budgets!IsFiniteSet(S) = IsFiniteSet(S)
  BY DEF Budgets!Cardinality, Cardinality, Budgets!IsFiniteSet, IsFiniteSet

-----------------------------------------------------------------------------
\* A set of naturals has a least one.
LEMMA LeastNat ==
  ASSUME NEW T, T \subseteq Nat, T # {}
  PROVE  \E k \in T : \A j \in T : k <= j
<1>1. PICK R : R = OpToRel(<, Nat)
  OBVIOUS
<1>2. IsWellFoundedOn(R, Nat)
  BY <1>1, NatLessThanWellFounded
<1>3. PICK k \in T : \A y \in T : ~(<<y, k>> \in R)
  BY <1>2, WFMin
<1>4. \A y \in Nat, z \in Nat : y < z => <<y, z>> \in R
  BY <1>1 DEF OpToRel
<1>5. \A y \in T : ~(y < k)
  BY <1>3, <1>4
<1>6. k \in Nat /\ \A y \in T : y \in Nat
  OBVIOUS
<1>7. \A y \in T : k <= y
  BY <1>5, <1>6
<1>8. QED
  BY <1>7

-----------------------------------------------------------------------------
(* What the browser saves of its deposits, transfers and wallet operations *)

\* The browser starts with a first id drawn and nothing saved.
LEMMA SavedInit == Saved!Init => Saved!SavedInv
<1> SUFFICES ASSUME Saved!Init PROVE Saved!SavedInv
  OBVIOUS
<1>1. wish \in OpIds
  BY DEF Saved!Init, Saved!SavedAssumption
<1>2. Saved!TypeOK
  <2>1. posted \in [OpIds -> 0..2] /\ action \in [OpIds -> {"none", "pending", "complete", "failed"}]
    BY DEF Saved!Init
  <2>2. outages \in 0..MaxOutages
    BY DEF Saved!Init, Saved!SavedAssumption
  <2>3. QED
    BY <1>1, <2>1, <2>2 DEF Saved!Init, Saved!TypeOK
<1>3. QED
  BY <1>1, <1>2 DEF Saved!Init, Saved!SavedInv, Saved!OneIdAtATime, Saved!AnswerIsOfTheWish,
       Saved!UnfinishedIsSaved

\* Steps of the browser (ui/src/app/FundPool.tsx, ui/src/app/DemoEvm.tsx,
\* ui/src/lib/evm-demo.ts): it lets an id go in the three cases of OneIdAtATime's comment.
LEMMA BrowserKeepsSaved ==
  ASSUME Saved!SavedInv,
         \/ Saved!Send \/ Saved!Lose \/ Saved!Hear \/ Saved!Poll
         \/ \E readable \in BOOLEAN : Saved!Check(readable)
  PROVE  Saved!SavedInv'
<1> USE DEF Saved!SavedInv, Saved!TypeOK, Saved!OneIdAtATime, Saved!AnswerIsOfTheWish,
            Saved!UnfinishedIsSaved, Saved!SavedAssumption
<1>1. CASE Saved!Send
  BY <1>1 DEF Saved!Send
<1>2. CASE Saved!Lose
  BY <1>2 DEF Saved!Lose
<1>3. CASE Saved!Hear
  BY <1>3 DEF Saved!Hear, Saved!LookUp, Saved!Forget, Saved!Keep
<1>4. CASE Saved!Poll
  BY <1>4 DEF Saved!Poll, Saved!Forget
<1>5. ASSUME NEW readable \in BOOLEAN, Saved!Check(readable) PROVE Saved!SavedInv'
  BY <1>5 DEF Saved!Check, Saved!Forget, Saved!Keep
<1>6. QED
  BY <1>1, <1>2, <1>3, <1>4, <1>5

\* Steps of the server, a POST's answer among them: the browser hears of the id it waits for.
LEMMA ServerKeepsSaved ==
  ASSUME Saved!SavedInv, (\E id \in OpIds : Saved!Serve(id)) \/ Saved!Outage
  PROVE  Saved!SavedInv'
<1> USE DEF Saved!SavedInv, Saved!TypeOK, Saved!OneIdAtATime, Saved!AnswerIsOfTheWish,
            Saved!UnfinishedIsSaved, Saved!SavedAssumption, Saved!Reply
<1>1. ASSUME NEW id \in OpIds, Saved!Refuse(id) PROVE Saved!SavedInv'
  BY <1>1 DEF Saved!Refuse
<1>2. ASSUME NEW id \in OpIds, Saved!Begin(id) PROVE Saved!SavedInv'
  BY <1>2 DEF Saved!Begin
<1>3. ASSUME NEW id \in OpIds, Saved!Finish(id) PROVE Saved!SavedInv'
  BY <1>3 DEF Saved!Finish
<1>4. ASSUME NEW id \in OpIds, Saved!Throw(id) PROVE Saved!SavedInv'
  BY <1>4 DEF Saved!Throw
<1>5. ASSUME NEW id \in OpIds, Saved!Accepted(id) PROVE Saved!SavedInv'
  BY <1>5 DEF Saved!Accepted
<1>6. ASSUME NEW id \in OpIds, Saved!Run(id) PROVE Saved!SavedInv'
  BY <1>6 DEF Saved!Run
<1>7. ASSUME NEW id \in OpIds, Saved!Known(id) PROVE Saved!SavedInv'
  BY <1>7 DEF Saved!Known
<1>8. CASE Saved!Outage
  BY <1>8 DEF Saved!Outage
<1>9. QED
  BY <1>1, <1>2, <1>3, <1>4, <1>5, <1>6, <1>7, <1>8 DEF Saved!Serve

\* Every step of this part.
LEMMA SavedNext == Saved!SavedInv /\ [Saved!Next]_o => Saved!SavedInv'
<1> SUFFICES ASSUME Saved!SavedInv, [Saved!Next]_o PROVE Saved!SavedInv'
  OBVIOUS
<1>1. CASE Saved!Next
  BY <1>1, BrowserKeepsSaved, ServerKeepsSaved DEF Saved!Next
<1>2. CASE UNCHANGED o
  BY <1>2 DEF o, Saved!SavedInv, Saved!TypeOK, Saved!OneIdAtATime, Saved!AnswerIsOfTheWish,
       Saved!UnfinishedIsSaved
<1>3. QED
  BY <1>1, <1>2

-----------------------------------------------------------------------------
(* The reads that many browsers share *)

\* At first nothing is kept, on its way or shown.
LEMMA ReadsInit == Reads!Init => Reads!ReadsInv
<1> SUFFICES ASSUME Reads!Init PROVE Reads!ReadsInv
  OBVIOUS
<1>1. Reads!Cardinality(cache) = 0
  BY FS_EmptySet, ReadsSets DEF Reads!Init
<1>2. Reads!TypeOK
  BY <1>1 DEF Reads!Init, Reads!TypeOK, Reads!ReadsAssumption
<1>3. QED
  BY <1>2 DEF Reads!Init, Reads!ReadsInv, Reads!OneFlight, Reads!InOrder

\* What one answer changes: shown and told, for those who wait for it.
LEMMA GiveIsTyped ==
  ASSUME Reads!TypeOK, NEW rs, NEW seen \in 0..MaxVersion, Reads!Give(rs, seen)
  PROVE  /\ shown' \in [Readers -> 0..MaxVersion] /\ told' \in 0..MaxVersion
         /\ told' = (IF seen > told THEN seen ELSE told)
         /\ \A p \in Readers : shown'[p] = IF p \in rs THEN seen ELSE shown[p]
  BY DEF Reads!Give, Reads!TypeOK

\* A browser asks: it is given what is kept, waits for the request there is, or starts one.
LEMMA AskKeepsReads ==
  ASSUME Reads!ReadsInv, NEW p \in Readers, Reads!Ask(p)
  PROVE  Reads!ReadsInv' /\ \A w \in Readers : shown'[w] # shown[w] => shown'[w] >= floor'[w]
<1> USE DEF Reads!ReadsInv, Reads!Ask, Reads!ReadsAssumption
<1>1. floor' \in [Readers -> 0..MaxVersion] /\ floor'[p] = told /\ \A w \in Readers \ {p} : floor'[w] = floor[w]
  BY DEF Reads!TypeOK
<1>2. CASE Reads!Fresh # {}
  <2>1. PICK kept1 \in Reads!Fresh : Reads!Give({p}, kept1.seen) /\ UNCHANGED flights
    BY <1>2
  <2>2. kept1 \in cache /\ kept1.seen = told /\ told \in 0..MaxVersion
    BY <2>1 DEF Reads!Fresh, Reads!InOrder, Reads!TypeOK
  <2>3. /\ shown' \in [Readers -> 0..MaxVersion] /\ told' = told
        /\ \A w \in Readers : shown'[w] = IF w \in {p} THEN told ELSE shown[w]
    BY <2>1, <2>2, GiveIsTyped DEF Reads!ReadsInv
  <2>4. QED
    BY <1>1, <2>1, <2>2, <2>3 DEF Reads!TypeOK, Reads!OneFlight, Reads!InOrder
<1>3. CASE Reads!Fresh = {}
  <2>1. Reads!AskOrJoin(p) /\ UNCHANGED <<shown, told>>
    BY <1>3
  <2>2. /\ flights' \subseteq [seen : 0..MaxVersion, for : SUBSET Readers]
        /\ \A f, g \in flights' : f = g
        /\ \A f \in flights' : f.seen = 0 \/ \E g \in flights : f.seen = g.seen
    <3>1. CASE flights = {}
      <4>1. flights' = {[seen |-> 0, for |-> {p}]}
        BY <2>1, <3>1 DEF Reads!AskOrJoin, Reads!Start
      <4>2. [seen |-> 0, for |-> {p}] \in [seen : 0..MaxVersion, for : SUBSET Readers]
        OBVIOUS
      <4>3. QED
        BY <4>1, <4>2
    <3>2. CASE flights # {}
      <4>1. PICK g \in flights : flights = {g}
        BY <3>2 DEF Reads!OneFlight
      <4>2. g \in [seen : 0..MaxVersion, for : SUBSET Readers]
        BY <4>1 DEF Reads!TypeOK
      <4>3. flights' = {[g EXCEPT !.for = @ \cup {p}]}
        BY <2>1, <3>2, <4>1 DEF Reads!AskOrJoin
      <4>4. [g EXCEPT !.for = @ \cup {p}] = [seen |-> g.seen, for |-> g.for \cup {p}]
        BY <4>2
      <4>5. QED
        BY <4>1, <4>2, <4>3, <4>4
    <3>3. QED
      BY <3>1, <3>2
  <2>3. QED
    BY <1>1, <2>1, <2>2 DEF Reads!TypeOK, Reads!OneFlight, Reads!InOrder
<1>4. QED
  BY <1>2, <1>3

\* The answer of a request arrives: it is no older than anything given, and so is what is kept.
LEMMA LandKeepsReads ==
  ASSUME Reads!ReadsInv, NEW f \in flights, Reads!Land(f)
  PROVE  Reads!ReadsInv' /\ \A p \in Readers : shown'[p] # shown[p] => shown'[p] >= floor'[p]
<1> USE DEF Reads!ReadsInv, Reads!Land, Reads!ReadsAssumption
<1>1. f \in [seen : 0..MaxVersion, for : SUBSET Readers] /\ told <= f.seen /\ f.seen <= version
      /\ version \in 1..MaxVersion /\ told \in 0..MaxVersion
  BY DEF Reads!TypeOK, Reads!InOrder
<1>2. /\ shown' \in [Readers -> 0..MaxVersion] /\ told' = f.seen
      /\ \A p \in Readers : shown'[p] = IF p \in f.for THEN f.seen ELSE shown[p]
  BY <1>1, GiveIsTyped
<1>3. flights' = {}
  BY DEF Reads!OneFlight
<1>4. Reads!TypeOK'
  <2>1. cache' \subseteq [seen : 1..MaxVersion, at : 0..Horizon]
    BY <1>1 DEF Reads!TypeOK
  <2>2. Reads!Cardinality(cache') = 1
    BY FS_Singleton, ReadsSets
  <2>3. QED
    BY <1>1, <1>2, <1>3, <2>1, <2>2 DEF Reads!TypeOK
<1>5. Reads!OneFlight' /\ Reads!InOrder'
  BY <1>1, <1>2, <1>3 DEF Reads!OneFlight, Reads!InOrder, Reads!TypeOK
<1>6. QED
  BY <1>1, <1>2, <1>4, <1>5 DEF Reads!InOrder, Reads!TypeOK

\* A request that fails leaves what was given; 'unavailable' is no version.
LEMMA FailKeepsReads ==
  ASSUME Reads!ReadsInv, NEW f \in flights, Reads!Fail(f)
  PROVE  Reads!ReadsInv' /\ \A p \in Readers : shown'[p] # shown[p] => shown'[p] = 0
<1> USE DEF Reads!ReadsInv, Reads!Fail, Reads!ReadsAssumption
<1>1. /\ shown' \in [Readers -> 0..MaxVersion] /\ told' = told
      /\ \A p \in Readers : shown'[p] # shown[p] => shown'[p] = 0
  <2>1. CASE resource = Reads!Policies
    <3>1. 0 \in 0..MaxVersion
      OBVIOUS
    <3>2. QED
      BY <2>1, <3>1, GiveIsTyped DEF Reads!TypeOK
  <2>2. CASE resource # Reads!Policies
    BY <2>2 DEF Reads!TypeOK
  <2>3. QED
    BY <2>1, <2>2
<1>2. QED
  BY <1>1 DEF Reads!TypeOK, Reads!OneFlight, Reads!InOrder

\* The steps that give nobody anything: time, the source, its answer, a new start.
LEMMA SourceKeepsReads ==
  ASSUME Reads!ReadsInv,
         Reads!Tick \/ Reads!Change \/ (\E f \in flights : Reads!Read(f)) \/ Reads!Restart
  PROVE  Reads!ReadsInv' /\ shown' = shown
<1> USE DEF Reads!ReadsInv, Reads!TypeOK, Reads!OneFlight, Reads!InOrder, Reads!ReadsAssumption
<1>1. CASE Reads!Tick
  BY <1>1 DEF Reads!Tick
<1>2. CASE Reads!Change
  BY <1>2 DEF Reads!Change
<1>3. ASSUME NEW f \in flights, Reads!Read(f) PROVE Reads!ReadsInv' /\ shown' = shown
  <2>1. flights' = {[f EXCEPT !.seen = version]}
    BY <1>3 DEF Reads!Read
  <2>2. [f EXCEPT !.seen = version] \in [seen : 0..MaxVersion, for : SUBSET Readers]
    OBVIOUS
  <2>3. [f EXCEPT !.seen = version].seen = version
    OBVIOUS
  <2>4. QED
    BY <1>3, <2>1, <2>2, <2>3 DEF Reads!Read
<1>4. CASE Reads!Restart
  <2>1. cache' = {} /\ Reads!Cardinality(cache') = 0
    BY <1>4, FS_EmptySet, ReadsSets DEF Reads!Restart
  <2>2. QED
    BY <1>4, <2>1 DEF Reads!Restart
<1>5. QED
  BY <1>1, <1>2, <1>3, <1>4

\* Every step of this part keeps the order, and gives nobody an older answer.
LEMMA ReadsNext ==
  Reads!ReadsInv /\ [Reads!Next]_r =>
      /\ Reads!ReadsInv'
      /\ \A p \in Readers : shown'[p] # shown[p] /\ shown'[p] # 0 => shown'[p] >= floor'[p]
<1> SUFFICES ASSUME Reads!ReadsInv, [Reads!Next]_r
             PROVE  /\ Reads!ReadsInv'
                    /\ \A p \in Readers : shown'[p] # shown[p] /\ shown'[p] # 0 => shown'[p] >= floor'[p]
  OBVIOUS
<1>1. CASE Reads!Next
  BY <1>1, AskKeepsReads, LandKeepsReads, FailKeepsReads, SourceKeepsReads DEF Reads!Next
<1>2. CASE UNCHANGED r
  BY <1>2 DEF r, Reads!ReadsInv, Reads!TypeOK, Reads!OneFlight, Reads!InOrder
<1>3. QED
  BY <1>1, <1>2

-----------------------------------------------------------------------------
(* What the two chats say *)

\* The latest policy of a set that has one is in it.
LEMMA LatestIsOne ==
  ASSUME NEW S \in SUBSET Serials, S # {}, Chat!HasLatest(S)
  PROVE  Chat!Latest(S) \in S
<1>1. \E x \in S : \A y \in S : y <= x
  BY DEF Chat!HasLatest
<1>2. QED
  BY <1>1 DEF Chat!Latest

\* One more policy: it is the latest, or the one before still is.
LEMMA LatestOfMore ==
  ASSUME NEW S \in SUBSET Serials, NEW x \in Serials, Chat!HasLatest(S)
  PROVE  Chat!HasLatest(S \cup {x})
<1>1. Serials \subseteq Nat
  BY DEF Chat!AnswersAssumption
<1>2. CASE S = {}
  BY <1>1, <1>2 DEF Chat!HasLatest
<1>3. CASE S # {}
  <2>1. PICK y \in S : \A z \in S : z <= y
    BY <1>3 DEF Chat!HasLatest
  <2>2. CASE x <= y
    BY <2>1, <2>2 DEF Chat!HasLatest
  <2>3. CASE ~(x <= y)
    <3>1. \A z \in S \cup {x} : z <= x
      BY <1>1, <2>1, <2>3
    <3>2. QED
      BY <3>1 DEF Chat!HasLatest
  <2>4. QED
    BY <2>2, <2>3
<1>4. QED
  BY <1>2, <1>3

\* A part of finitely many covers is counted with a number no greater.
LEMMA CoversAreCounted ==
  ASSUME NEW S, Chat!IsFiniteSet(S), NEW T \in SUBSET S
  PROVE  /\ Chat!IsFiniteSet(T) /\ Chat!Cardinality(S) \in Nat
         /\ Chat!Cardinality(T) \in Nat /\ Chat!Cardinality(T) <= Chat!Cardinality(S)
<1>1. IsFiniteSet(S)
  BY ChatSets
<1>2. IsFiniteSet(T) /\ Cardinality(T) <= Cardinality(S)
  BY <1>1, FS_Subset
<1>3. Cardinality(S) \in Nat /\ Cardinality(T) \in Nat
  BY <1>1, <1>2, FS_CardinalityType
<1>4. QED
  BY <1>2, <1>3, ChatSets

\* At first nothing has happened and nothing is said.
LEMMA ChatInit == Chat!Init => Chat!AnswersInv
<1> SUFFICES ASSUME Chat!Init PROVE Chat!AnswersInv
  OBVIOUS
<1> USE DEF Chat!Init
<1>1. Chat!TypeOK
  <2>1. moves \in 0..MaxMoves /\ turns \in 0..MaxAsked
    BY DEF Chat!AnswersAssumption
  <2>2. signed \in [Serials -> 0..3]
    OBVIOUS
  <2>3. QED
    BY <2>1, <2>2 DEF Chat!TypeOK, Chat!Pages
<1>2. Chat!IsFiniteSet(issued) /\ Chat!Cardinality(issued) = 0
  BY FS_EmptySet, ChatSets
<1>3. Chat!AnswersAreTrue
  BY <1>2 DEF Chat!AnswersAreTrue, Chat!NoAnswer, Chat!Elsewhere
<1>4. QED
  BY <1>1, <1>2, <1>3 DEF Chat!AnswersInv, Chat!QuestionsAreSound, Chat!HasLatest, Chat!NoAnswer

\* What happens in the world only adds to what an answer may rest on.
LEMMA WorldGrows ==
  ASSUME Chat!AnswersInv, Chat!World
  PROVE  /\ Chat!TypeOK'
         /\ bought \subseteq bought' /\ issued \subseteq issued' /\ ended \subseteq ended'
         /\ listed \subseteq listed' /\ receipts <= receipts' /\ (plan = "over" => plan' = "over")
         /\ \A x \in listed : signed'[x] >= signed[x]
         /\ Chat!IsFiniteSet(issued') /\ Chat!HasLatest(bought') /\ Chat!HasLatest(issued')
         /\ UNCHANGED <<companion, turns, look, questions, said>>
<1> USE DEF Chat!AnswersInv
<1>1. /\ moves' \in 0..MaxMoves /\ UNCHANGED <<companion, turns, look, questions, said>>
      /\ \/ \E x \in Serials : Chat!Issue(x) \/ Chat!Sign(x) \/ Chat!End(x) \/ Chat!Bought(x)
                               \/ Chat!AttemptCompletes(x)
         \/ \E to \in {"scheduled", "running", "halted", "review", "over"} : Chat!PlanMoves(to)
         \/ Chat!Record
  BY DEF Chat!World, Chat!TypeOK, Chat!AnswersAssumption
<1>2. ASSUME NEW x \in Serials, Chat!Issue(x) \/ Chat!Sign(x) \/ Chat!End(x)
      PROVE  /\ listed' \subseteq Serials /\ ended' \subseteq listed' /\ signed' \in [Serials -> 0..3]
             /\ listed \subseteq listed' /\ ended \subseteq ended'
             /\ \A y \in listed : signed'[y] >= signed[y]
             /\ UNCHANGED <<bought, plan, issued, receipts>>
  BY <1>2 DEF Chat!Issue, Chat!Sign, Chat!End, Chat!TypeOK
<1>3. ASSUME NEW x \in Serials, Chat!Bought(x)
      PROVE  /\ bought' \subseteq listed /\ bought \subseteq bought' /\ Chat!HasLatest(bought')
             /\ UNCHANGED <<listed, signed, ended, plan, issued, receipts>>
  BY <1>3, LatestOfMore DEF Chat!Bought, Chat!TypeOK
<1>4. ASSUME NEW x \in Serials, Chat!AttemptCompletes(x)
      PROVE  /\ issued' \subseteq listed /\ issued \subseteq issued' /\ Chat!HasLatest(issued')
             /\ Chat!IsFiniteSet(issued') /\ plan' \in {"scheduled", "over"} /\ plan = "running"
             /\ UNCHANGED <<listed, signed, ended, bought, receipts>>
  <2>1. issued' = issued \cup {x} /\ x \in listed /\ issued \subseteq Serials
    BY <1>4 DEF Chat!AttemptCompletes, Chat!TypeOK
  <2>2. Chat!IsFiniteSet(issued \cup {x})
    BY FS_AddElement, ChatSets
  <2>3. QED
    BY <1>4, <2>1, <2>2, LatestOfMore DEF Chat!AttemptCompletes, Chat!TypeOK
<1>5. ASSUME NEW to \in {"scheduled", "running", "halted", "review", "over"}, Chat!PlanMoves(to)
      PROVE  /\ plan' = to /\ plan # "over"
             /\ UNCHANGED <<listed, signed, ended, bought, issued, receipts>>
  BY <1>5 DEF Chat!PlanMoves, Chat!Becomes
<1>6. CASE Chat!Record
  BY <1>1, <1>6 DEF Chat!Record, Chat!TypeOK
<1>7. CASE \E x \in Serials : Chat!Issue(x) \/ Chat!Sign(x) \/ Chat!End(x)
  BY <1>1, <1>2, <1>7 DEF Chat!TypeOK
<1>8. CASE \E x \in Serials : Chat!Bought(x)
  BY <1>1, <1>3, <1>8 DEF Chat!TypeOK
<1>9. CASE \E x \in Serials : Chat!AttemptCompletes(x)
  BY <1>1, <1>4, <1>9 DEF Chat!TypeOK
<1>10. CASE \E to \in {"scheduled", "running", "halted", "review", "over"} : Chat!PlanMoves(to)
  BY <1>1, <1>5, <1>10 DEF Chat!TypeOK
<1>11. QED
  BY <1>1, <1>6, <1>7, <1>8, <1>9, <1>10

\* So a snapshot and an answer stay so.
LEMMA WorldKeepsAnswers ==
  ASSUME Chat!AnswersInv, Chat!World
  PROVE  Chat!AnswersInv'
<1> USE DEF Chat!AnswersInv
<1>1. /\ Chat!TypeOK'
      /\ bought \subseteq bought' /\ issued \subseteq issued' /\ ended \subseteq ended'
      /\ listed \subseteq listed' /\ receipts <= receipts' /\ (plan = "over" => plan' = "over")
      /\ \A x \in listed : signed'[x] >= signed[x]
      /\ Chat!IsFiniteSet(issued') /\ Chat!HasLatest(bought') /\ Chat!HasLatest(issued')
      /\ UNCHANGED <<companion, turns, look, questions, said>>
  BY WorldGrows
<1>2. signed \in [Serials -> 0..3] /\ signed' \in [Serials -> 0..3] /\ listed \subseteq Serials
      /\ receipts \in Nat /\ receipts' \in Nat /\ \A q1 \in questions : q1.took.covers \subseteq listed
  BY <1>1 DEF Chat!TypeOK
<1>3. Chat!Cardinality(issued) \in Nat /\ Chat!Cardinality(issued') \in Nat
      /\ Chat!Cardinality(issued) <= Chat!Cardinality(issued')
  BY <1>1, CoversAreCounted
<1>4. ASSUME NEW state, NEW x \in listed, Chat!StateIsSo(state, x) PROVE Chat!StateIsSo(state, x)'
  BY <1>1, <1>2, <1>4 DEF Chat!StateIsSo
<1>5. ASSUME NEW q1 \in questions
      PROVE  /\ q1.before <= Chat!Cardinality(issued')
             /\ Chat!SnapshotIsSo(q1)'
             /\ q1.current => q1.for = look'
  <2>1. q1 \in Chat!Question /\ q1.before <= Chat!Cardinality(issued) /\ Chat!SnapshotIsSo(q1)
        /\ (q1.current => q1.for = look)
    BY DEF Chat!QuestionsAreSound
  <2>2. q1.before \in Nat /\ q1.took.covers \in SUBSET Serials
    BY <2>1 DEF Chat!Question, Chat!Snapshot
  <2>3. q1.took.covers # {} => Chat!Latest(q1.took.covers) \in listed
    BY <1>2, <2>1, <2>2, LatestIsOne DEF Chat!SnapshotIsSo
  <2>4. q1.took.covers # {} => Chat!StateIsSo(q1.took.state, Chat!Latest(q1.took.covers))'
    BY <1>4, <2>1, <2>3 DEF Chat!SnapshotIsSo
  <2>5. q1.took.covers \subseteq Chat!Covers'
    BY <1>1, <2>1 DEF Chat!SnapshotIsSo, Chat!Covers
  <2>6. Chat!SnapshotIsSo(q1)'
    BY <1>1, <2>1, <2>4, <2>5 DEF Chat!SnapshotIsSo
  <2>7. QED
    BY <1>1, <1>3, <2>1, <2>2, <2>6
<1>6. Chat!QuestionsAreSound'
  BY <1>1, <1>5 DEF Chat!QuestionsAreSound
<1>7. Chat!AnswersAreTrue'
  <2> HIDE DEF Chat!AnswersInv
  <2>1. /\ said.for = look \/ said = Chat!NoAnswer
        /\ look # Chat!Elsewhere => said.of \in {0, look}
        /\ said.of # 0 /\ look = Chat!Elsewhere => said.own
        /\ said.says = "none yet" => said.before = 0
        /\ said.says \in {"over", "none yet"} => said.before <= said.count
    BY DEF Chat!AnswersInv, Chat!AnswersAreTrue
  <2>2. /\ said.own => said.of \in bought \cup issued
        /\ said.says = "expired" => said.of \in ended
        /\ said.says = "over" => plan = "over"
        /\ said.says = "payment" => receipts > 0
    BY DEF Chat!AnswersInv, Chat!AnswersAreTrue
  <2>3. /\ said.says \in {"paid", "active", "confirming"} => said.of \in listed
        /\ said.says = "paid" => signed[said.of] = 3
        /\ said.says \in {"active", "confirming"} => signed[said.of] > 0
    BY DEF Chat!AnswersInv, Chat!AnswersAreTrue
  <2>4. said.count \in Nat /\ said.count <= Chat!Cardinality(issued)
    BY DEF Chat!AnswersInv, Chat!AnswersAreTrue
  <2>5. /\ said.own => said.of \in bought' \cup issued'
        /\ said.says = "expired" => said.of \in ended'
        /\ said.says = "over" => plan' = "over"
        /\ said.says = "payment" => receipts' > 0
    BY <1>1, <1>2, <2>2
  <2>6. /\ said.says = "paid" => signed'[said.of] = 3
        /\ said.says \in {"active", "confirming"} => signed'[said.of] > 0
    <3>1. \A x \in listed : (signed[x] = 3 => signed'[x] = 3) /\ (signed[x] > 0 => signed'[x] > 0)
      BY <1>1, <1>2
    <3>2. QED
      BY <2>3, <3>1
  <2>7. said.count <= Chat!Cardinality(issued')
    BY <1>3, <2>4
  <2>8. QED
    BY <1>1, <2>1, <2>5, <2>6, <2>7 DEF Chat!AnswersAreTrue
<1>8. QED
  BY <1>1, <1>6, <1>7

\* Another page: what was asked before is of the page that was left.
LEMMA VisitKeepsAnswers ==
  ASSUME Chat!AnswersInv, NEW p \in Chat!Pages, Chat!Visit(p)
  PROVE  Chat!AnswersInv'
<1> USE DEF Chat!AnswersInv
<1>1. /\ companion = "quorum" /\ look' = p /\ said' = Chat!NoAnswer
      /\ questions' = {[q1 EXCEPT !.current = FALSE] : q1 \in questions}
      /\ UNCHANGED <<companion, listed, signed, ended, bought, plan, issued, receipts, moves, turns>>
  BY DEF Chat!Visit, Chat!world
<1>2. questions \subseteq Chat!Question
  BY DEF Chat!QuestionsAreSound
<1>3. ASSUME NEW q2 \in questions'
      PROVE  /\ q2 \in Chat!Question /\ ~q2.current
             /\ \E q1 \in questions : q2.for = q1.for /\ q2.before = q1.before /\ q2.took = q1.took
  <2>1. PICK q1 \in questions : q2 = [q1 EXCEPT !.current = FALSE]
    BY <1>1
  <2>2. q1 \in Chat!Question
    BY <1>2
  <2>3. QED
    BY <2>1, <2>2 DEF Chat!Question
<1>4. Chat!QuestionsAreSound'
  <2>1. ASSUME NEW q2 \in questions'
        PROVE  q2.before <= Chat!Cardinality(issued') /\ Chat!SnapshotIsSo(q2)'
    <3>1. PICK q1 \in questions : q2.before = q1.before /\ q2.took = q1.took
      BY <1>3
    <3>2. q1.before <= Chat!Cardinality(issued) /\ Chat!SnapshotIsSo(q1)
      BY DEF Chat!QuestionsAreSound
    <3>3. QED
      BY <1>1, <3>1, <3>2 DEF Chat!SnapshotIsSo, Chat!StateIsSo, Chat!Covers
  <2>2. QED
    BY <1>3, <2>1 DEF Chat!QuestionsAreSound
<1>5. Chat!TypeOK'
  BY <1>1, <1>3 DEF Chat!TypeOK
<1>6. Chat!Cardinality(issued) \in Nat
  BY CoversAreCounted
<1>7. Chat!AnswersAreTrue'
  <2>1. said' = [for |-> 0, of |-> 0, own |-> FALSE, says |-> "nothing", count |-> 0, before |-> 0]
    BY <1>1 DEF Chat!NoAnswer, Chat!Elsewhere
  <2>2. said'.of = 0 /\ said'.own = FALSE /\ said'.says = "nothing" /\ said'.count = 0
    BY <2>1
  <2> HIDE DEF Chat!AnswersInv
  <2>3. said'.count <= Chat!Cardinality(issued')
    BY <1>1, <1>6, <2>2
  <2>4. QED
    BY <1>1, <2>2, <2>3 DEF Chat!AnswersAreTrue
<1>8. QED
  BY <1>1, <1>4, <1>5, <1>7 DEF Chat!NoAnswer

\* A question remembers the page it was asked on, and how many covers were complete then.
LEMMA AskKeepsAnswers ==
  ASSUME Chat!AnswersInv, Chat!Ask
  PROVE  Chat!AnswersInv'
<1> DEFINE new == [for |-> look, before |-> Chat!Cardinality(issued), took |-> Chat!NotTaken, current |-> TRUE]
<1> USE DEF Chat!AnswersInv
<1>1. /\ questions' = questions \cup {new} /\ turns' \in 0..MaxAsked
      /\ UNCHANGED <<companion, listed, signed, ended, bought, plan, issued, receipts, moves, look, said>>
  BY DEF Chat!Ask, Chat!world, Chat!TypeOK, Chat!AnswersAssumption
<1>2. Chat!Cardinality(issued) \in Nat /\ look \in Chat!Pages
  BY CoversAreCounted DEF Chat!TypeOK
<1>3. new \in Chat!Question /\ new.took.covers = {}
  BY <1>2 DEF Chat!Question, Chat!Snapshot, Chat!NotTaken
<1>4. Chat!SnapshotIsSo(new)
  BY <1>3 DEF Chat!SnapshotIsSo, Chat!HasLatest, Chat!NotTaken
<1>5. Chat!QuestionsAreSound'
  <2> HIDE DEF new
  <2>1. new.for = look /\ new.before = Chat!Cardinality(issued)
    BY DEF new
  <2>2. /\ questions \subseteq Chat!Question
        /\ \A q1 \in questions :
              /\ q1.before <= Chat!Cardinality(issued) /\ Chat!SnapshotIsSo(q1)
              /\ q1.current => q1.for = look
    BY DEF Chat!QuestionsAreSound
  <2>3. \A q1 \in questions' :
          /\ q1.before <= Chat!Cardinality(issued) /\ Chat!SnapshotIsSo(q1)
          /\ q1.current => q1.for = look
    <3>1. ASSUME NEW q1 \in questions'
          PROVE  /\ q1.before <= Chat!Cardinality(issued) /\ Chat!SnapshotIsSo(q1)
                 /\ q1.current => q1.for = look
      <4>1. CASE q1 \in questions
        BY <2>2, <4>1
      <4>2. CASE q1 = new
        BY <1>2, <1>4, <2>1, <4>2
      <4>3. QED
        BY <1>1, <3>1, <4>1, <4>2
    <3>2. QED
      BY <3>1
  <2>4. \A q1 : Chat!SnapshotIsSo(q1) => Chat!SnapshotIsSo(q1)'
    BY <1>1 DEF Chat!SnapshotIsSo, Chat!StateIsSo, Chat!Covers
  <2>5. QED
    BY <1>1, <1>3, <2>2, <2>3, <2>4 DEF Chat!QuestionsAreSound
<1>6. Chat!TypeOK'
  BY <1>1, <1>2, <1>3 DEF Chat!TypeOK
<1>7. Chat!AnswersAreTrue'
  BY <1>1 DEF Chat!AnswersAreTrue
<1>8. QED
  BY <1>1, <1>5, <1>6, <1>7

\* What a read of a policy says has happened has.
LEMMA PolicyReadIsSo ==
  ASSUME Chat!TypeOK, NEW x \in listed, NEW state \in Chat!PolicyRead(x)
  PROVE  /\ Chat!StateIsSo(state, x)
         /\ state \in {"unread", "unsigned", "active", "confirming", "expired", "paid"}
<1>1. signed[x] \in 0..3
  BY DEF Chat!TypeOK
<1>2. CASE state = "unread"
  BY <1>2 DEF Chat!StateIsSo
<1>3. CASE state # "unread"
  <2>1. PICK n \in 0..signed[x], over \in {{}, ended} : state = Chat!StateOf(n, x \in over)
    BY <1>3 DEF Chat!PolicyRead
  <2>2. n \in 0..3 /\ (x \in over => x \in ended)
    BY <1>1, <2>1
  <2>3. QED
    BY <1>1, <2>1, <2>2 DEF Chat!StateOf, Chat!StateIsSo
<1>4. QED
  BY <1>2, <1>3

\* A snapshot is of the asker's own records, as they are when it is taken.
LEMMA TakeKeepsAnswers ==
  ASSUME Chat!AnswersInv, NEW q1 \in questions, Chat!Take(q1)
  PROVE  Chat!AnswersInv'
<1> USE DEF Chat!AnswersInv
<1>1. PICK t \in Chat!Snapshots : questions' = (questions \ {q1}) \cup {[q1 EXCEPT !.took = t]}
  BY DEF Chat!Take
<1>2. UNCHANGED <<companion, listed, signed, ended, bought, plan, issued, receipts, moves, turns, look, said>>
  BY DEF Chat!Take, Chat!world
<1>3. q1 \in Chat!Question /\ q1.before <= Chat!Cardinality(issued) /\ (q1.current => q1.for = look)
  BY DEF Chat!QuestionsAreSound
<1>4. plan \in {"none", "scheduled", "running", "halted", "review", "over"} /\ listed \subseteq Serials /\ bought \subseteq listed /\ issued \subseteq listed
  BY DEF Chat!TypeOK
<1>5. /\ t \in Chat!Snapshot /\ t.covers \subseteq Chat!Covers /\ Chat!HasLatest(t.covers)
      /\ (t.covers # {} => Chat!StateIsSo(t.state, Chat!Latest(t.covers)))
      /\ (t.plan = "over" => plan = "over")
      /\ (companion = "aivy" /\ t.plan # "none" => t.covers = issued)
  <2>1. CASE companion = "quorum"
    <3>1. PICK S \in {{}, bought} : t = [covers |-> S, plan |-> "none", state |-> "unread"]
      BY <2>1 DEF Chat!Snapshots
    <3>2. QED
      BY <1>4, <2>1, <3>1 DEF Chat!Snapshot, Chat!Covers, Chat!HasLatest, Chat!StateIsSo
  <2>2. CASE companion # "quorum" /\ t = [covers |-> {}, plan |-> "none", state |-> "unread"]
    BY <1>4, <2>2 DEF Chat!Snapshot, Chat!Covers, Chat!HasLatest, Chat!StateIsSo
  <2>3. CASE companion # "quorum" /\ t # [covers |-> {}, plan |-> "none", state |-> "unread"]
    <3>1. PICK state \in IF issued = {} THEN {"unread"} ELSE Chat!PolicyRead(Chat!Latest(issued)) :
            t = [covers |-> issued, plan |-> plan, state |-> state]
      BY <2>3 DEF Chat!Snapshots
    <3>2. issued # {} => Chat!Latest(issued) \in listed
      BY <1>4, LatestIsOne
    <3>3. /\ state \in {"unread", "unsigned", "active", "confirming", "expired", "paid"}
          /\ (issued # {} => Chat!StateIsSo(state, Chat!Latest(issued)))
      BY <3>1, <3>2, PolicyReadIsSo
    <3>4. t.covers = issued /\ t.plan = plan /\ t.state = state
      BY <3>1
    <3>5. t \in Chat!Snapshot
      BY <1>4, <3>1, <3>3 DEF Chat!Snapshot
    <3>6. QED
      BY <2>3, <3>3, <3>4, <3>5 DEF Chat!Covers
  <2>4. QED
    BY <2>1, <2>2, <2>3
<1> DEFINE new == [q1 EXCEPT !.took = t]
<1>6. new \in Chat!Question /\ new.took = t /\ new.before = q1.before /\ new.for = q1.for
      /\ new.current = q1.current
  BY <1>3, <1>5 DEF Chat!Question
<1>7. Chat!SnapshotIsSo(new)
  BY <1>3, <1>5, <1>6 DEF Chat!SnapshotIsSo
<1>8. t.covers \subseteq listed /\ q1.for \in Chat!Pages
  BY <1>3, <1>4, <1>5 DEF Chat!Covers, Chat!Question
<1> HIDE DEF new
<1>9. questions' = (questions \ {q1}) \cup {new}
  BY <1>1 DEF new
<1>10. Chat!QuestionsAreSound'
  BY <1>2, <1>3, <1>6, <1>7, <1>9 DEF Chat!QuestionsAreSound, Chat!SnapshotIsSo, Chat!StateIsSo, Chat!Covers
<1>11. Chat!TypeOK'
  BY <1>2, <1>6, <1>8, <1>9 DEF Chat!TypeOK
<1>12. Chat!AnswersAreTrue'
  BY <1>2 DEF Chat!AnswersAreTrue
<1>13. QED
  BY <1>2, <1>10, <1>11, <1>12

\* What the questions there are rest on, one by one.
LEMMA QuestionIsSound ==
  ASSUME Chat!AnswersInv, NEW q1 \in questions
  PROVE  /\ q1.for \in Chat!Pages /\ q1.before \in Nat /\ q1.before <= Chat!Cardinality(issued)
         /\ q1.took.covers \in SUBSET Serials /\ q1.took.covers \subseteq listed
         /\ q1.took.covers \subseteq Chat!Covers
         /\ Chat!IsFiniteSet(issued) /\ Chat!Cardinality(issued) \in Nat
         /\ (q1.took.covers # {} =>
               /\ Chat!Latest(q1.took.covers) \in q1.took.covers
               /\ Chat!StateIsSo(q1.took.state, Chat!Latest(q1.took.covers)))
         /\ (q1.took.covers = {} => Chat!Latest(q1.took.covers) = 0)
         /\ (q1.took.plan = "over" => plan = "over")
         /\ (companion = "aivy" /\ q1.took # Chat!NotTaken /\ q1.took.plan # "none" =>
               q1.before <= Chat!Cardinality(q1.took.covers))
         /\ q1.took.plan \in {"not taken", "none", "scheduled", "running", "halted", "review", "over"}
         /\ q1.took.state \in {"unread", "unsigned", "active", "confirming", "expired", "paid"}
         /\ (q1.current => q1.for = look)
<1>1. /\ q1 \in Chat!Question /\ q1.before <= Chat!Cardinality(issued) /\ Chat!SnapshotIsSo(q1)
      /\ q1.current => q1.for = look
  BY DEF Chat!AnswersInv, Chat!QuestionsAreSound
<1>2. /\ q1.for \in Chat!Pages /\ q1.before \in Nat
      /\ q1.took.covers \in SUBSET Serials
      /\ q1.took.plan \in {"not taken", "none", "scheduled", "running", "halted", "review", "over"}
      /\ q1.took.state \in {"unread", "unsigned", "active", "confirming", "expired", "paid"}
  BY <1>1 DEF Chat!Question, Chat!Snapshot
<1>3. q1.took.covers \subseteq listed
  BY DEF Chat!AnswersInv, Chat!TypeOK
<1>4. Chat!IsFiniteSet(issued) /\ Chat!Cardinality(issued) \in Nat
  BY CoversAreCounted DEF Chat!AnswersInv
<1>5. /\ q1.took.covers \subseteq Chat!Covers /\ Chat!HasLatest(q1.took.covers)
      /\ (q1.took.covers # {} => Chat!StateIsSo(q1.took.state, Chat!Latest(q1.took.covers)))
      /\ (q1.took.plan = "over" => plan = "over")
      /\ (companion = "aivy" /\ q1.took # Chat!NotTaken /\ q1.took.plan # "none" =>
               q1.before <= Chat!Cardinality(q1.took.covers))
  BY <1>1 DEF Chat!SnapshotIsSo
<1>6. q1.took.covers # {} => Chat!Latest(q1.took.covers) \in q1.took.covers
  BY <1>2, <1>5, LatestIsOne
<1>7. q1.took.covers = {} => Chat!Latest(q1.took.covers) = 0
  BY DEF Chat!Latest
<1>8. QED
  BY <1>1, <1>2, <1>3, <1>4, <1>5, <1>6, <1>7

\* What has to hold of an answer that is shown under its question.
IsSo(a) ==
  /\ a.for = look /\ a.count \in Nat /\ a.before \in Nat
  /\ look # Chat!Elsewhere => a.of \in {0, look}
  /\ a.own => a.of \in bought \cup issued
  /\ a.of # 0 /\ look = Chat!Elsewhere => a.own
  /\ a.says \in {"paid", "active", "confirming", "expired"} => a.of \in listed /\ Chat!StateIsSo(a.says, a.of)
  /\ a.says = "none yet" => a.before = 0
  /\ a.says = "over" => plan = "over"
  /\ a.says = "payment" => receipts > 0
  /\ a.count <= Chat!Cardinality(issued)
  /\ a.says \in {"over", "none yet"} => a.before <= a.count

\* Aivy's answers (src/cover-agent/companion.js, answerFor), from the snapshot alone.
LEMMA AivyIsRight ==
  ASSUME Chat!AnswersInv, companion = "aivy", NEW q1 \in questions, q1.took # Chat!NotTaken, q1.current,
         NEW topic, NEW a \in Chat!AivySays(q1, topic)
  PROVE  IsSo(a)
<1> DEFINE t == q1.took
           last == Chat!Latest(q1.took.covers)
           n == Chat!Cardinality(q1.took.covers)
<1>1. /\ q1.before \in Nat /\ t.covers \subseteq listed /\ t.covers \subseteq issued
      /\ Chat!IsFiniteSet(issued) /\ Chat!Cardinality(issued) \in Nat
      /\ (t.covers # {} => last \in t.covers /\ Chat!StateIsSo(t.state, last))
      /\ (t.covers = {} => last = 0)
      /\ (t.plan = "over" => plan = "over")
      /\ (t.plan # "none" => q1.before <= n)
      /\ t.state \in {"unread", "unsigned", "active", "confirming", "expired", "paid"}
      /\ q1.for = look
  BY QuestionIsSound DEF Chat!Covers
<1>2. look = Chat!Elsewhere
  BY DEF Chat!AnswersInv
<1>3. n \in Nat /\ n <= Chat!Cardinality(issued) /\ (t.covers = {} => n = 0)
  BY <1>1, CoversAreCounted, FS_EmptySet, ChatSets
<1>4. /\ a.for = q1.for /\ a.of = last /\ a.own = (t.covers # {}) /\ a.count = n /\ a.before = q1.before
      /\ a.says \in {"paid", "active", "confirming", "expired"} => t.covers # {} /\ a.says = t.state
      /\ a.says = "none yet" => t.covers = {} /\ t.plan # "none"
      /\ a.says = "over" => t.plan = "over"
      /\ a.says # "payment"
  <2> DEFINE claim ==
          IF topic \notin Chat!PolicyTopics \cup {"renewal"} THEN "nothing"
          ELSE IF t.plan = "none" THEN "no plan"
          ELSE IF topic = "renewal" THEN IF t.plan = "over" THEN "over" ELSE "nothing"
          ELSE IF t.covers = {} THEN IF t.plan \in {"running", "review"} THEN "unfinished" ELSE "none yet"
          ELSE IF topic = "evidence" THEN "nothing"
          ELSE IF topic = "payout" /\ t.state \notin {"unread", "paid"} THEN "not executed"
          ELSE t.state
  <2>1. a = [for |-> q1.for, of |-> last, own |-> t.covers # {}, says |-> claim, count |-> n,
             before |-> q1.before]
    BY DEF Chat!AivySays
  <2>2. a.says = claim
    <3> HIDE DEF claim, t, last, n
    <3>1. QED
      BY <2>1
  <2>3. t.state \in {"unread", "unsigned", "active", "confirming", "expired", "paid"}
    BY <1>1
  <2> HIDE DEF t, last, n
  <2>4. a.says \in {"paid", "active", "confirming", "expired"} => t.covers # {} /\ a.says = t.state
    BY <2>2, <2>3
  <2>5. /\ a.says = "none yet" => t.covers = {} /\ t.plan # "none"
        /\ a.says = "over" => t.plan = "over"
        /\ a.says # "payment"
    BY <2>2, <2>3
  <2> HIDE DEF claim
  <2>6. a.for = q1.for /\ a.of = last /\ a.own = (t.covers # {}) /\ a.count = n /\ a.before = q1.before
    BY <2>1
  <2>7. QED
    BY <2>4, <2>5, <2>6
<1> HIDE DEF t, last, n
<1>5. a.says = "none yet" => a.before = 0 /\ a.before <= a.count
  <2>1. a.says = "none yet" => q1.before <= n /\ n = 0
    BY <1>1, <1>3, <1>4
  <2>2. a.before = q1.before /\ a.count = n /\ q1.before \in Nat
    BY <1>1, <1>4
  <2>3. ASSUME a.says = "none yet" PROVE a.before = 0 /\ a.before <= a.count
    <3>1. q1.before <= n /\ n = 0
      BY <2>1, <2>3
    <3>2. q1.before = 0
      BY <2>2, <3>1
    <3>3. a.before = 0 /\ a.count = 0
      BY <2>2, <3>1, <3>2
    <3>4. QED
      BY <3>3
  <2>4. QED
    BY <2>3
<1>6. a.says = "over" => plan = "over" /\ a.before <= a.count
  BY <1>1, <1>4
<1>7. a.says \in {"paid", "active", "confirming", "expired"} => a.of \in listed /\ Chat!StateIsSo(a.says, a.of)
  BY <1>1, <1>4
<1>8. (a.own => a.of \in bought \cup issued) /\ (a.of # 0 => a.own)
  BY <1>1, <1>4
<1>9. QED
  BY <1>1, <1>2, <1>3, <1>4, <1>5, <1>6, <1>7, <1>8 DEF IsSo

\* Quorum's answers (src/companion/quorum.js, render), of the policy as it is read now.
LEMMA QuorumIsRight ==
  ASSUME Chat!AnswersInv, companion # "aivy", NEW q1 \in questions, q1.current,
         NEW topic, NEW a \in Chat!QuorumSays(q1, topic)
  PROVE  IsSo(a)
<1>1. companion = "quorum" => Chat!Covers = bought
  BY DEF Chat!Covers
<1>2. /\ q1.for \in Chat!Pages /\ Chat!Cardinality(issued) \in Nat
      /\ q1.took.covers \subseteq bought \cup issued
      /\ (q1.took.covers # {} => Chat!Latest(q1.took.covers) \in q1.took.covers)
      /\ (q1.took.covers = {} => Chat!Latest(q1.took.covers) = 0)
      /\ q1.for = look
  BY QuestionIsSound DEF Chat!Covers
<1>3. a.for = look /\ a.count = 0 /\ a.before = 0
  <2>1. \E of, own, claim :
          a = [for |-> q1.for, of |-> of, own |-> own, says |-> claim, count |-> 0, before |-> 0]
    <3>1. CASE topic \in Chat!PolicyTopics
      BY <3>1 DEF Chat!QuorumSays
    <3>2. CASE topic \notin Chat!PolicyTopics
      BY <3>2 DEF Chat!QuorumSays
    <3>3. QED
      BY <3>1, <3>2
  <2>2. QED
    BY <1>2, <2>1
<1>4. receipts \in 0..1 /\ listed \subseteq Serials /\ 0 \notin Serials
  BY DEF Chat!AnswersInv, Chat!TypeOK, Chat!AnswersAssumption
<1> DEFINE x == Chat!Subject(q1)
<1>5. /\ look \in Serials => x = look
      /\ look \notin Serials /\ x # 0 => x \in q1.took.covers
  BY <1>2 DEF Chat!Subject
<1>6. CASE topic \in Chat!PolicyTopics /\ look # Chat!Story /\ x # 0 /\ x \in listed
  <2>1. /\ a.of = x /\ a.own = (x \in q1.took.covers)
        /\ a.says = "nothing" \/ a.says \in Chat!PolicyRead(x)
    BY <1>2, <1>6 DEF Chat!QuorumSays
  <2>2. /\ a.says \in {"nothing", "unread", "unsigned", "active", "confirming", "expired", "paid"}
        /\ Chat!StateIsSo(a.says, x)
    <3>1. CASE a.says = "nothing"
      BY <3>1 DEF Chat!StateIsSo
    <3>2. CASE a.says \in Chat!PolicyRead(x)
      BY <1>6, <3>2, PolicyReadIsSo DEF Chat!AnswersInv
    <3>3. QED
      BY <2>1, <3>1, <3>2
  <2>3. x \in Serials /\ look \in Serials \cup {Chat!Elsewhere}
    BY <1>2, <1>4, <1>6 DEF Chat!Pages
  <2> HIDE DEF x
  <2>4. look # Chat!Elsewhere => a.of = look
    BY <1>5, <2>1, <2>3
  <2>5. look = Chat!Elsewhere => a.own
    BY <1>4, <1>5, <1>6, <2>1 DEF Chat!Elsewhere
  <2>6. a.count <= Chat!Cardinality(issued)
    BY <1>2, <1>3
  <2>7. a.own => a.of \in bought \cup issued
    BY <1>2, <2>1
  <2>8. QED
    BY <1>3, <1>6, <2>1, <2>2, <2>4, <2>5, <2>6, <2>7 DEF IsSo
<1>7. CASE ~(topic \in Chat!PolicyTopics /\ look # Chat!Story /\ x # 0 /\ x \in listed)
  <2>1. /\ a.of = 0 /\ ~a.own
        /\ a.says \in {"recorded", "open a policy", "no record", "no payment", "payment", "nothing", "unread"}
        /\ a.says = "payment" => receipts # 0
    <3>1. \E claim \in {"recorded", "open a policy", "no record", "no payment", "payment", "nothing", "unread"} :
            /\ a = [for |-> q1.for, of |-> 0, own |-> FALSE, says |-> claim, count |-> 0, before |-> 0]
            /\ claim = "payment" => receipts # 0
      <4>1. CASE topic \in Chat!PolicyTopics
        BY <1>2, <1>7, <4>1 DEF Chat!QuorumSays
      <4>2. CASE topic \notin Chat!PolicyTopics
        BY <4>2 DEF Chat!QuorumSays
      <4>3. QED
        BY <4>1, <4>2
    <3>2. PICK claim \in {"recorded", "open a policy", "no record", "no payment", "payment", "nothing", "unread"} :
            /\ a = [for |-> q1.for, of |-> 0, own |-> FALSE, says |-> claim, count |-> 0, before |-> 0]
            /\ claim = "payment" => receipts # 0
      BY <3>1
    <3>3. a.of = 0 /\ a.says = claim
      BY <3>2
    <3>4. ~a.own
      BY <3>2
    <3>5. QED
      BY <3>2, <3>3, <3>4
  <2>2. a.says = "payment" => receipts > 0
    BY <1>4, <2>1
  <2>3. a.count <= Chat!Cardinality(issued)
    BY <1>2, <1>3
  <2>4. a.says \notin {"paid", "active", "confirming", "expired", "none yet", "over"}
    BY <2>1
  <2>5. a.says # "none yet" /\ a.says # "over" /\ a.says \notin {"over", "none yet"}
    BY <2>4
  <2>6. /\ look # Chat!Elsewhere => a.of \in {0, look}
        /\ a.own => a.of \in bought \cup issued
        /\ a.of # 0 /\ look = Chat!Elsewhere => a.own
    BY <2>1
  <2>7. a.says \in {"paid", "active", "confirming", "expired"} => a.of \in listed /\ Chat!StateIsSo(a.says, a.of)
    BY <2>4
  <2>8. a.count \in Nat /\ a.before \in Nat
    BY <1>3
  <2>9. a.says = "none yet" => a.before = 0
    BY <2>5
  <2>10. a.says \in {"over", "none yet"} => a.before <= a.count
    BY <2>5
  <2>11. a.says = "over" => plan = "over"
    BY <2>5
  <2>12. a.for = look
    BY <1>3
  <2>13. QED
    BY <2>2, <2>3, <2>6, <2>7, <2>8, <2>9, <2>10, <2>11, <2>12, Zenon DEF IsSo
<1>8. QED
  BY <1>6, <1>7

\* An answer is shown if its page is still the one it was asked on; else the last one stays.
LEMMA AnswerKeepsAnswers ==
  ASSUME Chat!AnswersInv, NEW q1 \in questions, Chat!Answer(q1)
  PROVE  Chat!AnswersInv'
<1>1. PICK topic \in Chat!Topics :
        \E a \in IF companion = "aivy" THEN Chat!AivySays(q1, topic) ELSE Chat!QuorumSays(q1, topic) :
            said' = IF Chat!Shown(q1) THEN a ELSE said
  BY DEF Chat!Answer
<1>2. /\ questions' = questions \ {q1} /\ q1.took # Chat!NotTaken
      /\ UNCHANGED <<companion, listed, signed, ended, bought, plan, issued, receipts, moves, turns, look>>
  BY DEF Chat!Answer, Chat!world
<1>3. said' = said \/ IsSo(said')
  BY <1>1, <1>2, AivyIsRight, QuorumIsRight DEF Chat!Shown
<1>4. /\ Chat!AnswersAreTrue' /\ {said'.count, said'.before} \subseteq Nat
      /\ said'.says \in {"paid", "active", "confirming"} => said'.of \in listed
  <2>1. CASE said' = said
    BY <1>2, <2>1 DEF Chat!AnswersInv, Chat!AnswersAreTrue
  <2>2. CASE IsSo(said')
    BY <1>2, <2>2 DEF IsSo, Chat!AnswersAreTrue, Chat!StateIsSo
  <2>3. QED
    BY <1>3, <2>1, <2>2
<1>5. Chat!QuestionsAreSound'
  BY <1>2 DEF Chat!AnswersInv, Chat!QuestionsAreSound, Chat!SnapshotIsSo, Chat!StateIsSo, Chat!Covers
<1>6. Chat!TypeOK'
  BY <1>2 DEF Chat!AnswersInv, Chat!TypeOK
<1>7. QED
  BY <1>2, <1>4, <1>5, <1>6 DEF Chat!AnswersInv

\* A question that fails shows nothing new.
LEMMA FailKeepsAnswers ==
  ASSUME Chat!AnswersInv, NEW q1 \in questions, Chat!Fail(q1)
  PROVE  Chat!AnswersInv'
<1>1. /\ questions' = questions \ {q1}
      /\ UNCHANGED <<companion, listed, signed, ended, bought, plan, issued, receipts, moves, turns, look, said>>
  BY DEF Chat!Fail, Chat!world
<1>2. Chat!QuestionsAreSound'
  BY <1>1 DEF Chat!AnswersInv, Chat!QuestionsAreSound, Chat!SnapshotIsSo, Chat!StateIsSo, Chat!Covers
<1>3. Chat!TypeOK'
  BY <1>1 DEF Chat!AnswersInv, Chat!TypeOK
<1>4. Chat!AnswersAreTrue
  BY DEF Chat!AnswersInv
<1>5. Chat!AnswersAreTrue'
  BY <1>1, <1>4 DEF Chat!AnswersAreTrue
<1>6. QED
  BY <1>1, <1>2, <1>3, <1>5 DEF Chat!AnswersInv

\* Every step of this part.
LEMMA ChatNext == Chat!AnswersInv /\ [Chat!Next]_c => Chat!AnswersInv'
<1> SUFFICES ASSUME Chat!AnswersInv, [Chat!Next]_c PROVE Chat!AnswersInv'
  OBVIOUS
<1>1. CASE Chat!Next
  BY <1>1, WorldKeepsAnswers, VisitKeepsAnswers, AskKeepsAnswers, TakeKeepsAnswers, AnswerKeepsAnswers,
     FailKeepsAnswers DEF Chat!Next
<1>2. CASE UNCHANGED c
  <2>1. Chat!QuestionsAreSound'
    BY <1>2 DEF c, Chat!AnswersInv, Chat!QuestionsAreSound, Chat!SnapshotIsSo, Chat!StateIsSo, Chat!Covers
  <2>2. Chat!TypeOK'
    BY <1>2 DEF c, Chat!AnswersInv, Chat!TypeOK
  <2>3. Chat!AnswersAreTrue
    BY DEF Chat!AnswersInv
  <2>4. Chat!AnswersAreTrue'
    BY <1>2, <2>3 DEF c, Chat!AnswersAreTrue
  <2>5. QED
    BY <1>2, <2>1, <2>2, <2>4 DEF c, Chat!AnswersInv
<1>3. QED
  BY <1>1, <1>2

-----------------------------------------------------------------------------
(* The operator's scripts and the assets they create *)

\* The five entries of the registry provisioning fills, by name.
LEMMA SlotIs == Scripts!Slot = {"pool", "share", "policy", "demo", "topic"}
<1>1. DOMAIN Scripts!Slots = 1..5
  BY DEF Scripts!Slots
<1>2. 1..5 = {1, 2, 3, 4, 5}
  OBVIOUS
<1>3. QED
  BY <1>1, <1>2 DEF Scripts!Slot, Scripts!Slots

\* ensure() goes through the slots in order.
LEMMA AfterIs ==
  /\ Scripts!After("pool") = "share" /\ Scripts!After("share") = "policy"
  /\ Scripts!After("policy") = "demo" /\ Scripts!After("demo") = "topic"
  /\ Scripts!After("topic") = "associate"
<1>1. DOMAIN Scripts!Slots = {1, 2, 3, 4, 5}
  BY DEF Scripts!Slots
<1> DEFINE At(x) == CHOOSE k \in DOMAIN Scripts!Slots : Scripts!Slots[k] = x
<1>2. At("pool") = 1 /\ At("share") = 2 /\ At("policy") = 3 /\ At("demo") = 4
  BY <1>1 DEF Scripts!Slots
<1>3. QED
  BY <1>2 DEF Scripts!After, Scripts!Slots

\* The bounds of the scripts are naturals.
LEMMA ScriptsNumbers ==
  Oracles \in Nat /\ MaxAssets \in Nat /\ MaxKeys \in Nat /\ MaxCrashes \in Nat
  BY DEF Scripts!ProvisioningAssumption

\* What is lost, counted: c dead scripts lost one asset each, or the oracles of one loop.
Counted(lost, dead) ==
    LET oracles == {x \in lost : x.kind = "oracle"}
    IN  /\ Cardinality(lost \ oracles) <= dead
        /\ Cardinality(oracles) <= Oracles * (dead - Cardinality(lost \ oracles))

Lost == {x \in made \ held : x.id \notin kept}

\* What the scripts promise of lost ids is a count of one set against the crashes.
LEMMA LostIsCounted == Scripts!OneLostPerCrash <=> Counted(Lost, crashes)
  BY ScriptsSets DEF Scripts!OneLostPerCrash, Counted, Lost

\* The sums behind the three lemmas below.
LEMMA FewerPerCrash ==
  ASSUME NEW O1 \in Nat, NEW d \in Nat, NEW n \in Nat, NEW m \in Nat, NEW n1 \in Nat, NEW m1 \in Nat,
         n <= d, m <= O1 * (d - n), n1 <= n, m1 <= m
  PROVE  n1 <= d /\ m1 <= O1 * (d - n1)
<1>1. PICK k \in Nat : k = n - n1
  OBVIOUS
<1>2. PICK e \in Nat : e = d - n
  OBVIOUS
<1>3. d - n1 = e + k /\ O1 * (e + k) = O1 * e + O1 * k /\ O1 * k \in Nat /\ O1 * e \in Nat
  BY <1>1, <1>2
<1>4. QED
  BY <1>2, <1>3

\* A crash pays for one entry more, or for as many as there are oracles, and no more.
LEMMA OneMorePerCrash ==
  ASSUME NEW O1 \in Nat, NEW d \in Nat, NEW n \in Nat, NEW m \in Nat,
         n <= d, m <= O1 * (d - n)
  PROVE  /\ n + 1 <= d + 1 /\ m <= O1 * (d + 1 - (n + 1))
         /\ n <= d + 1 /\ m + O1 <= O1 * (d + 1 - n)
<1>1. PICK e \in Nat : e = d - n
  OBVIOUS
<1>2. d + 1 - n = e + 1 /\ d + 1 - (n + 1) = e /\ O1 * (e + 1) = O1 * e + O1 /\ O1 * e \in Nat
  BY <1>1
<1>3. QED
  BY <1>1, <1>2

\* Losing fewer ids keeps within the count.
LEMMA CountedFewer ==
  ASSUME NEW L, NEW L1, NEW d \in Nat, IsFiniteSet(L), L1 \subseteq L, Counted(L, d)
  PROVE  Counted(L1, d)
<1> DEFINE Or(S) == {x \in S : x.kind = "oracle"}
<1>1. Or(L1) \subseteq Or(L) /\ L1 \ Or(L1) \subseteq L \ Or(L)
  OBVIOUS
<1>2. IsFiniteSet(Or(L)) /\ IsFiniteSet(L \ Or(L))
  BY FS_Subset
<1>3. /\ Cardinality(Or(L1)) <= Cardinality(Or(L))
      /\ Cardinality(L1 \ Or(L1)) <= Cardinality(L \ Or(L))
      /\ IsFiniteSet(Or(L1)) /\ IsFiniteSet(L1 \ Or(L1))
  BY <1>1, <1>2, FS_Subset
<1>4. /\ Cardinality(Or(L1)) \in Nat /\ Cardinality(Or(L)) \in Nat
      /\ Cardinality(L1 \ Or(L1)) \in Nat /\ Cardinality(L \ Or(L)) \in Nat
  BY <1>2, <1>3, FS_CardinalityType
<1>5. Cardinality(L \ Or(L)) <= d /\ Cardinality(Or(L)) <= Oracles * (d - Cardinality(L \ Or(L)))
  BY DEF Counted
<1> HIDE DEF Or
<1>6. Cardinality(L1 \ Or(L1)) <= d /\ Cardinality(Or(L1)) <= Oracles * (d - Cardinality(L1 \ Or(L1)))
  BY <1>3, <1>4, <1>5, ScriptsNumbers, FewerPerCrash
<1>7. QED
  BY <1>6 DEF Counted, Or

\* A script dies with one asset in hand, or with some of the oracles.
LEMMA CountedDead ==
  ASSUME NEW L, NEW H, NEW d \in Nat, IsFiniteSet(L), IsFiniteSet(H), Counted(L, d), H \cap L = {},
         \/ H = {}
         \/ \E x : H = {x} /\ x.kind # "oracle"
         \/ Cardinality(H) <= Oracles /\ \A x \in H : x.kind = "oracle"
  PROVE  Counted(L \cup H, d + 1)
<1> DEFINE Or(S) == {x \in S : x.kind = "oracle"}
<1>1. IsFiniteSet(Or(L)) /\ IsFiniteSet(L \ Or(L))
  BY FS_Subset
<1>2. PICK n \in Nat, m \in Nat : n = Cardinality(L \ Or(L)) /\ m = Cardinality(Or(L))
  BY <1>1, FS_CardinalityType
<1>3. n <= d /\ m <= Oracles * (d - n)
  BY <1>2 DEF Counted
<1>4. ASSUME NEW n1 \in Nat, NEW m1 \in Nat,
             n1 = Cardinality((L \cup H) \ Or(L \cup H)), m1 = Cardinality(Or(L \cup H)),
             n1 <= d + 1, m1 <= Oracles * (d + 1 - n1)
      PROVE  Counted(L \cup H, d + 1)
  BY <1>4 DEF Counted
<1>5. CASE \E x : H = {x} /\ x.kind # "oracle"
  <2>1. PICK x : H = {x} /\ x.kind # "oracle"
    BY <1>5
  <2>2. (L \cup H) \ Or(L \cup H) = (L \ Or(L)) \cup {x} /\ Or(L \cup H) = Or(L) /\ x \notin L \ Or(L)
    BY <2>1
  <2>3. Cardinality((L \cup H) \ Or(L \cup H)) = n + 1 /\ Cardinality(Or(L \cup H)) = m
    BY <1>1, <1>2, <2>2, FS_AddElement
  <2>4. n + 1 <= d + 1 /\ m <= Oracles * (d + 1 - (n + 1)) /\ n + 1 \in Nat
    BY <1>3, ScriptsNumbers, OneMorePerCrash
  <2>5. QED
    BY <1>4, <2>3, <2>4
<1>6. CASE Cardinality(H) <= Oracles /\ \A x \in H : x.kind = "oracle"
  <2>1. (L \cup H) \ Or(L \cup H) = L \ Or(L) /\ Or(L \cup H) = Or(L) \cup H /\ Or(L) \cap H = {}
    BY <1>6
  <2>2. Cardinality(Or(L) \cup H) = m + Cardinality(H) /\ Cardinality(H) \in Nat
    <3>1. Cardinality(Or(L) \cup H) = Cardinality(Or(L)) + Cardinality(H) - Cardinality(Or(L) \cap H)
      BY <1>1, FS_Union
    <3>2. Cardinality(Or(L) \cap H) = 0 /\ Cardinality(H) \in Nat
      BY <2>1, FS_EmptySet, FS_CardinalityType
    <3>3. QED
      BY <1>2, <3>1, <3>2
  <2>3. PICK h \in Nat : h = Cardinality(H)
    BY <2>2
  <2>4. h <= Oracles
    BY <1>6, <2>3
  <2>5. n <= d + 1 /\ m + Oracles <= Oracles * (d + 1 - n)
    BY <1>3, ScriptsNumbers, OneMorePerCrash
  <2>6. PICK z \in Int : z = Oracles * (d + 1 - n)
    BY ScriptsNumbers
  <2>7. m + h <= z /\ m + h \in Nat
    BY <2>4, <2>5, <2>6, ScriptsNumbers
  <2>8. Cardinality((L \cup H) \ Or(L \cup H)) = n /\ Cardinality(Or(L \cup H)) = m + h
    BY <1>2, <2>1, <2>2, <2>3
  <2>9. QED
    BY <1>4, <2>5, <2>6, <2>7, <2>8
<1>7. CASE H = {}
  BY <1>6, <1>7, FS_EmptySet, ScriptsNumbers
<1>8. QED
  BY <1>5, <1>6, <1>7

\* The assets are finitely many.
LEMMA AssetsAreFinite ==
  ASSUME Scripts!AssetsAreApart
  PROVE  IsFiniteSet(made) /\ Cardinality(made) \in Nat /\ Cardinality(made) <= MaxAssets
<1>1. IsFiniteSet(made) /\ Cardinality(made) <= MaxAssets
  BY ScriptsSets DEF Scripts!AssetsAreApart
<1>2. QED
  BY <1>1, FS_CardinalityType

\* Creating an asset: it has an id of its own.
LEMMA Creating ==
  ASSUME Scripts!TypeOK, Scripts!AssetsAreApart, NEW kind \in Scripts!Kinds, Scripts!Create(kind)
  PROVE  \E n :
            /\ n.kind = kind /\ n.id \notin Scripts!Ids(made) /\ n.id # 0 /\ n \notin made
            /\ n.keys = (IF kind = "pool" THEN keys ELSE 0)
            /\ made' = made \cup {n} /\ held' = held \cup {n}
            /\ IsFiniteSet(made') /\ Cardinality(made') = Cardinality(made) + 1
            /\ Cardinality(made') <= MaxAssets
            /\ made' \subseteq [kind : Scripts!Kinds, id : Nat, keys : Nat]
            /\ \A a1, a2 \in made' : a1.id = a2.id => a1 = a2
            /\ Scripts!Ids(made') = 1..Cardinality(made')
            /\ Scripts!Ids(made') = Scripts!Ids(made) \cup {n.id}
<1> DEFINE n == Scripts!New(kind)
<1>1. Cardinality(made) \in Nat /\ IsFiniteSet(made) /\ keys \in Nat
  <2>1. keys \in 0..MaxKeys
    BY DEF Scripts!TypeOK
  <2>2. QED
    BY <2>1, AssetsAreFinite, ScriptsNumbers
<1>2. n = [kind |-> kind, id |-> Cardinality(made) + 1, keys |-> IF kind = "pool" THEN keys ELSE 0]
  BY ScriptsSets DEF Scripts!New
<1>3. /\ n \in [kind : Scripts!Kinds, id : Nat, keys : Nat] /\ n.kind = kind
      /\ n.id = Cardinality(made) + 1 /\ n.keys = (IF kind = "pool" THEN keys ELSE 0)
  BY <1>1, <1>2
<1>4. Scripts!Ids(made) = 1..Cardinality(made)
  BY ScriptsSets DEF Scripts!TypeOK
<1>5. made' = made \cup {n} /\ held' = held \cup {n} /\ Cardinality(made) < MaxAssets
  BY ScriptsSets DEF Scripts!Create
<1> HIDE DEF n
<1>6. n.id \notin Scripts!Ids(made) /\ n.id # 0
  BY <1>1, <1>3, <1>4
<1>7. n \notin made
  BY <1>6 DEF Scripts!Ids
<1>8. IsFiniteSet(made') /\ Cardinality(made') = Cardinality(made) + 1
  BY <1>1, <1>5, <1>7, FS_AddElement
<1>9. Cardinality(made') <= MaxAssets
  BY <1>1, <1>5, <1>8, ScriptsNumbers
<1>10. made' \subseteq [kind : Scripts!Kinds, id : Nat, keys : Nat]
  BY <1>3, <1>5 DEF Scripts!AssetsAreApart
<1>11. \A a1, a2 \in made' : a1.id = a2.id => a1 = a2
  BY <1>5, <1>6 DEF Scripts!AssetsAreApart, Scripts!Ids
<1>12. Scripts!Ids(made') = Scripts!Ids(made) \cup {n.id}
  BY <1>5 DEF Scripts!Ids
<1>13. Scripts!Ids(made') = 1..Cardinality(made')
  BY <1>1, <1>3, <1>4, <1>8, <1>12
<1>14. QED
  BY <1>3, <1>5, <1>6, <1>7, <1>8, <1>9, <1>10, <1>11, <1>12, <1>13

\* Writing what a script holds to the registry or the key file.
LEMMA Saving ==
  ASSUME Scripts!TypeOK, Scripts!AssetsAreApart, Scripts!Saved(held)
  PROVE  /\ held' = {} /\ kept' = kept \cup Scripts!Ids(held) /\ kept' \subseteq Scripts!Ids(made)
         /\ registry' \in [Scripts!Slot \cup {"payer"} -> 0..MaxAssets]
         /\ \A x \in DOMAIN registry' : registry'[x] \in Scripts!Ids(made) \cup {0}
         /\ \A x \in Scripts!Slot \cup {"payer"} :
                (\A y \in held : y.kind # x) => registry'[x] = registry[x]
         /\ \A x \in Scripts!Slot \cup {"payer"} : \A y :
                held = {y} /\ y.kind = x => registry'[x] = y.id
<1> DEFINE S == Scripts!Slot \cup {"payer"}
<1>1. DOMAIN registry = S /\ held \subseteq made
  BY DEF Scripts!TypeOK
<1>2. registry' = [x \in S |-> IF \E y \in held : y.kind = x THEN (CHOOSE y \in held : y.kind = x).id
                               ELSE registry[x]]
  BY <1>1 DEF Scripts!Saved
<1>3. held' = {} /\ kept' = kept \cup Scripts!Ids(held)
  BY DEF Scripts!Saved
<1>4. Scripts!Ids(held) \subseteq Scripts!Ids(made) /\ kept \subseteq Scripts!Ids(made)
  BY <1>1 DEF Scripts!Ids, Scripts!TypeOK
<1>5. Scripts!Ids(made) \subseteq 0..MaxAssets
  <2>1. Scripts!Ids(made) = 1..Cardinality(made)
    BY ScriptsSets DEF Scripts!TypeOK
  <2>2. QED
    BY <2>1, AssetsAreFinite, ScriptsNumbers
<1>6. \A x \in S : registry[x] \in Scripts!Ids(made) \cup {0}
  BY <1>1 DEF Scripts!AssetsAreApart, Scripts!Nobody
<1>7. \A x \in S : registry'[x] \in Scripts!Ids(made) \cup {0}
  <2> SUFFICES ASSUME NEW x \in S PROVE registry'[x] \in Scripts!Ids(made) \cup {0}
    OBVIOUS
  <2>1. CASE \E y \in held : y.kind = x
    <3>1. PICK y : y = CHOOSE z \in held : z.kind = x
      OBVIOUS
    <3>2. y \in held /\ registry'[x] = y.id
      BY <1>2, <2>1, <3>1
    <3>3. QED
      BY <1>4, <3>2 DEF Scripts!Ids
  <2>2. CASE ~\E y \in held : y.kind = x
    BY <1>2, <1>6, <2>2
  <2>3. QED
    BY <2>1, <2>2
<1>8. registry' \in [S -> 0..MaxAssets]
  <2>1. 0 \in 0..MaxAssets
    BY ScriptsNumbers
  <2>2. QED
    BY <1>2, <1>5, <1>7, <2>1
<1>9. \A x \in S : (\A y \in held : y.kind # x) => registry'[x] = registry[x]
  BY <1>2
<1>10. ASSUME NEW x \in S, NEW y, held = {y}, y.kind = x PROVE registry'[x] = y.id
  BY <1>2, <1>10
<1>11. DOMAIN registry' = S
  BY <1>2
<1>12. QED
  BY <1>3, <1>4, <1>7, <1>8, <1>9, <1>10, <1>11

\* The points of the scripts by name, and those an entry of the registry leads to.
LEMMA StepsAre ==
  /\ Scripts!Steps = {"pool", "share", "policy", "demo", "topic", "off", "keys", "associate", "lp",
                      "oracles", "payer", "join", "top up", "submitted", "noted", "sweep"}
  /\ {Scripts!After(x) : x \in Scripts!Slot} = {"share", "policy", "demo", "topic", "associate"}
  BY SlotIs, AfterIs DEF Scripts!Steps

\* Before a step and after it: what KeysAreThePools says of the keys is enough.
LEMMA KeysOpen ==
  /\ Scripts!KeysAreThePools => Scripts!KeysOpenThePool
  /\ Scripts!KeysAreThePools' => Scripts!KeysOpenThePool'
  BY StepsAre DEF Scripts!KeysAreThePools, Scripts!KeysOpenThePool, Scripts!Nobody

\* The loop over the oracles: where it starts, and the accounts it holds on the way.
LEMMA LoopNumbers ==
  /\ 1 \in 1..(Oracles + 1) /\ Cardinality({}) = 0 /\ Cardinality({}) < 1
  /\ \A n \in 1..(Oracles + 1) : n <= Oracles => n + 1 \in 1..(Oracles + 1)
  /\ \A n \in 1..(Oracles + 1) : \A S, x :
        IsFiniteSet(S) /\ Cardinality(S) < n => Cardinality(S) < n + 1 /\ Cardinality(S \cup {x}) < n + 1
<1>1. Cardinality({}) = 0
  BY FS_EmptySet
<1>2. ASSUME NEW n \in 1..(Oracles + 1), NEW S, NEW x, IsFiniteSet(S), Cardinality(S) < n
      PROVE  Cardinality(S) < n + 1 /\ Cardinality(S \cup {x}) < n + 1
  <2>1. Cardinality(S) \in Nat
    BY <1>2, FS_CardinalityType
  <2>2. Cardinality(S \cup {x}) = Cardinality(S) \/ Cardinality(S \cup {x}) = Cardinality(S) + 1
    BY <1>2, FS_AddElement
  <2>3. QED
    BY <1>2, <2>1, <2>2, ScriptsNumbers
<1>3. \A n \in 1..(Oracles + 1) : n <= Oracles => n + 1 \in 1..(Oracles + 1)
  BY ScriptsNumbers
<1>4. 1 \in 1..(Oracles + 1) /\ Cardinality({}) < 1
  BY <1>1, ScriptsNumbers
<1>5. QED
  BY <1>1, <1>2, <1>3, <1>4

\* Steps that only bring a script to its next point.
LEMMA MovesKeepScripts ==
  ASSUME Scripts!ScriptsInv,
         UNCHANGED <<made, associated, registry, keys, kept, held, crashes, torn,
                     topped, sent, noted, swept, named>>,
         pc' \in Scripts!Steps, recreate' \in BOOLEAN, at' \in 1..(Oracles + 1),
         pc # "submitted", pc' # "submitted",
         pc' = "top up" => registry["pool"] \in Scripts!Ids(made),
         Scripts!HeldIsAtHand', Scripts!KeysAreThePools'
  PROVE  Scripts!ScriptsInv'
<1>1. Scripts!TypeOK'
  BY DEF Scripts!ScriptsInv, Scripts!TypeOK
<1>2. Scripts!AssetsAreApart'
  BY DEF Scripts!ScriptsInv, Scripts!AssetsAreApart
<1>3. Scripts!OneLostPerCrash' /\ Scripts!SweepIsRight' /\ Scripts!SubmissionsAreNoted'
  BY DEF Scripts!ScriptsInv, Scripts!NothingIsStranded, Scripts!OneLostPerCrash, Scripts!SweepIsRight,
         Scripts!SubmissionsAreNoted
<1>4. QED
  BY <1>1, <1>2, <1>3, KeysOpen DEF Scripts!ScriptsInv, Scripts!NothingIsStranded

\* A script starts, goes on with what the mirror shows, or ends.
LEMMA PassingKeepsScripts ==
  ASSUME Scripts!ScriptsInv,
         \/ \E again \in BOOLEAN : Scripts!Provision(again)
         \/ \E x \in Scripts!Slot : Scripts!Reuse(x)
         \/ Scripts!RunAssociate \/ Scripts!ProvisionOracles \/ Scripts!OracleAccount(FALSE)
         \/ Scripts!RunReplenish \/ Scripts!ReplenishEnds \/ Scripts!RunSweep
  PROVE  Scripts!ScriptsInv'
<1> USE StepsAre, SlotIs, AfterIs, ScriptsNumbers DEF Scripts!upkeep
<1>1. /\ Scripts!TypeOK /\ Scripts!AssetsAreApart /\ Scripts!HeldIsAtHand /\ Scripts!KeysAreThePools
  BY DEF Scripts!ScriptsInv
<1>2. at \in 1..(Oracles + 1) /\ recreate \in BOOLEAN /\ associated \subseteq Scripts!Ids(made)
  BY <1>1 DEF Scripts!TypeOK
<1>3. Scripts!Slot = {"pool", "share", "policy", "demo", "topic"}
  OBVIOUS
<1>4. ASSUME NEW again \in BOOLEAN, Scripts!Provision(again) PROVE Scripts!ScriptsInv'
  <2>1. Scripts!HeldIsAtHand'
    BY <1>1, <1>4 DEF Scripts!Provision, Scripts!HeldIsAtHand
  <2>2. Scripts!KeysAreThePools'
    BY <1>1, <1>4 DEF Scripts!Provision, Scripts!KeysAreThePools, Scripts!PoolKeys
  <2>3. QED
    BY <1>2, <1>4, <2>1, <2>2, MovesKeepScripts DEF Scripts!Provision
<1>5. ASSUME NEW x \in Scripts!Slot, Scripts!Reuse(x) PROVE Scripts!ScriptsInv'
  <2>1. Scripts!HeldIsAtHand'
    BY <1>1, <1>5 DEF Scripts!Reuse, Scripts!HeldIsAtHand
  <2>2. Scripts!KeysAreThePools'
    BY <1>1, <1>5 DEF Scripts!Reuse, Scripts!KeysAreThePools, Scripts!PoolKeys, Scripts!Nobody
  <2>3. QED
    BY <1>2, <1>5, <2>1, <2>2, MovesKeepScripts DEF Scripts!Reuse
<1>6. CASE Scripts!RunAssociate
  <2>1. Scripts!HeldIsAtHand'
    BY <1>1, <1>6 DEF Scripts!RunAssociate, Scripts!HeldIsAtHand
  <2>2. Scripts!KeysAreThePools'
    BY <1>1, <1>6 DEF Scripts!RunAssociate, Scripts!KeysAreThePools, Scripts!PoolKeys
  <2>3. QED
    BY <1>2, <1>6, <2>1, <2>2, MovesKeepScripts DEF Scripts!RunAssociate
<1>7. CASE Scripts!ProvisionOracles
  <2>0. 1 \in 1..(Oracles + 1)
    BY LoopNumbers
  <2>1. Scripts!HeldIsAtHand'
    <3>1. held = {} /\ held' = {} /\ pc' = "oracles" /\ at' = 1 /\ named' = named
      BY <1>1, <1>7 DEF Scripts!ProvisionOracles, Scripts!HeldIsAtHand
    <3>2. Cardinality(held') < at'
      <4>1. Cardinality(held') = Cardinality({})
        BY <3>1
      <4>2. QED
        BY <3>1, <4>1, LoopNumbers
    <3>3. QED
      BY <3>1, <3>2, ScriptsSets DEF Scripts!HeldIsAtHand, Scripts!Ids
  <2>2. Scripts!KeysAreThePools'
    BY <1>1, <1>7 DEF Scripts!ProvisionOracles, Scripts!KeysAreThePools, Scripts!PoolKeys
  <2>3. QED
    BY <1>2, <1>7, <2>0, <2>1, <2>2, MovesKeepScripts DEF Scripts!ProvisionOracles
<1>8. CASE Scripts!OracleAccount(FALSE)
  <2>0. at + 1 \in 1..(Oracles + 1)
    BY <1>2, <1>8, LoopNumbers DEF Scripts!OracleAccount
  <2>1. Scripts!HeldIsAtHand'
    <3>1. /\ held' = held /\ pc = "oracles" /\ pc' = "oracles" /\ at' = at + 1 /\ named' = named
          /\ Cardinality(held) < at /\ IsFiniteSet(held)
      <4>1. IsFiniteSet(held)
        BY <1>1, AssetsAreFinite, FS_Subset DEF Scripts!TypeOK
      <4>2. QED
        BY <1>1, <1>8, <4>1, ScriptsSets DEF Scripts!OracleAccount, Scripts!HeldIsAtHand
    <3>2. Cardinality(held') < at'
      BY <1>2, <3>1, LoopNumbers
    <3>3. QED
      BY <1>1, <3>1, <3>2, ScriptsSets DEF Scripts!HeldIsAtHand, Scripts!Ids
  <2>2. Scripts!KeysAreThePools'
    BY <1>1, <1>8 DEF Scripts!OracleAccount, Scripts!KeysAreThePools, Scripts!PoolKeys
  <2>3. QED
    BY <1>2, <1>8, <2>0, <2>1, <2>2, MovesKeepScripts DEF Scripts!OracleAccount
<1>9. CASE Scripts!RunReplenish
  <2>1. Scripts!HeldIsAtHand'
    BY <1>1, <1>9 DEF Scripts!RunReplenish, Scripts!HeldIsAtHand
  <2>2. Scripts!KeysAreThePools'
    BY <1>1, <1>9 DEF Scripts!RunReplenish, Scripts!KeysAreThePools, Scripts!PoolKeys
  <2>3. QED
    BY <1>2, <1>9, <2>1, <2>2, MovesKeepScripts DEF Scripts!RunReplenish
<1>10. CASE Scripts!ReplenishEnds
  <2>1. Scripts!HeldIsAtHand'
    BY <1>1, <1>10 DEF Scripts!ReplenishEnds, Scripts!HeldIsAtHand
  <2>2. Scripts!KeysAreThePools'
    BY <1>1, <1>10 DEF Scripts!ReplenishEnds, Scripts!KeysAreThePools, Scripts!PoolKeys
  <2>3. QED
    BY <1>2, <1>10, <2>1, <2>2, MovesKeepScripts DEF Scripts!ReplenishEnds
<1>11. CASE Scripts!RunSweep
  <2>1. Scripts!HeldIsAtHand'
    BY <1>1, <1>11 DEF Scripts!RunSweep, Scripts!HeldIsAtHand
  <2>2. Scripts!KeysAreThePools'
    BY <1>1, <1>11 DEF Scripts!RunSweep, Scripts!KeysAreThePools, Scripts!PoolKeys
  <2>3. QED
    BY <1>2, <1>11, <2>1, <2>2, MovesKeepScripts DEF Scripts!RunSweep
<1>12. QED
  BY <1>4, <1>5, <1>6, <1>7, <1>8, <1>9, <1>10, <1>11

\* What a step that creates an asset keeps: everything but what it says of its own pc.
LEMMA CreatingKeepsScripts ==
  ASSUME Scripts!ScriptsInv, NEW kind \in Scripts!Kinds, Scripts!Create(kind),
         UNCHANGED <<pc, recreate, associated, registry, keys, kept, crashes, torn,
                     topped, sent, noted, swept, named>>,
         at' \in 1..(Oracles + 1), pc # "submitted",
         pc = "oracles" => Cardinality(held') < at',
         \/ kind = pc /\ pc \in Scripts!Slot \cup {"lp", "payer"} /\ held = {}
         \/ kind = "oracle" /\ pc = "oracles"
  PROVE  Scripts!ScriptsInv'
<1> USE StepsAre, SlotIs
<1>1. /\ Scripts!TypeOK /\ Scripts!AssetsAreApart /\ Scripts!HeldIsAtHand /\ Scripts!KeysAreThePools
      /\ Scripts!OneLostPerCrash /\ Scripts!SubmissionsAreNoted /\ Scripts!SweepIsRight
  BY DEF Scripts!ScriptsInv, Scripts!NothingIsStranded
<1>2. PICK n :
            /\ n.kind = kind /\ n.id \notin Scripts!Ids(made) /\ n.id # 0 /\ n \notin made
            /\ n.keys = (IF kind = "pool" THEN keys ELSE 0)
            /\ made' = made \cup {n} /\ held' = held \cup {n}
            /\ IsFiniteSet(made') /\ Cardinality(made') = Cardinality(made) + 1
            /\ Cardinality(made') <= MaxAssets
            /\ made' \subseteq [kind : Scripts!Kinds, id : Nat, keys : Nat]
            /\ \A a1, a2 \in made' : a1.id = a2.id => a1 = a2
            /\ Scripts!Ids(made') = 1..Cardinality(made')
            /\ Scripts!Ids(made') = Scripts!Ids(made) \cup {n.id}
  BY <1>1, Creating
<1>3. Scripts!Ids(made) \subseteq Scripts!Ids(made')
  BY <1>2
<1>4. Scripts!TypeOK'
  BY <1>1, <1>2, <1>3, ScriptsSets DEF Scripts!TypeOK
<1>5. Scripts!AssetsAreApart'
  <2>1. Scripts!IsFiniteSet(made') /\ Scripts!Cardinality(made') <= MaxAssets
    BY <1>2, ScriptsSets
  <2>2. sent' \in Seq(Scripts!Ids(made'))
    <3>1. sent \in Seq(Scripts!Ids(made))
      BY <1>1 DEF Scripts!AssetsAreApart
    <3>2. QED
      BY <1>3, <3>1, SeqMonotonic
  <2>3. \A x \in DOMAIN registry' : registry'[x] \in Scripts!Ids(made') \cup {Scripts!Nobody}
    BY <1>1, <1>3 DEF Scripts!AssetsAreApart
  <2>4. noted' \in Nat /\ crashes' \in Nat
    BY <1>1 DEF Scripts!AssetsAreApart
  <2>5. pc' # "top up" /\ pc' # "submitted"
    OBVIOUS
  <2>6. QED
    BY <1>2, <2>1, <2>2, <2>3, <2>4, <2>5 DEF Scripts!AssetsAreApart
<1>6. Scripts!HeldIsAtHand'
  <2>1. Scripts!Ids(held') = Scripts!Ids(held) \cup {n.id}
    BY <1>2 DEF Scripts!Ids
  <2>2. Scripts!Ids(held') \cap named' = {}
    <3>1. named \subseteq Scripts!Ids(made) /\ Scripts!Ids(held) \cap named = {}
      BY <1>1 DEF Scripts!HeldIsAtHand, Scripts!TypeOK
    <3>2. QED
      BY <1>2, <2>1, <3>1
  <2>3. CASE kind = pc /\ pc \in Scripts!Slot \cup {"lp", "payer"} /\ held = {}
    <3>1. held' = {n} /\ n.kind = pc' /\ pc' = pc
      BY <1>2, <2>3
    <3>2. QED
      BY <2>2, <2>3, <3>1 DEF Scripts!HeldIsAtHand
  <2>4. CASE kind = "oracle" /\ pc = "oracles"
    <3>1. Scripts!Cardinality(held') < at'
      BY <2>4, ScriptsSets
    <3>2. \A x \in held' : x.kind = "oracle"
      BY <1>1, <1>2, <2>4 DEF Scripts!HeldIsAtHand
    <3>3. QED
      BY <2>2, <2>4, <3>1, <3>2 DEF Scripts!HeldIsAtHand
  <2>5. QED
    BY <2>3, <2>4
<1>7. Scripts!KeysAreThePools'
  <2>1. registry["pool"] # Scripts!Nobody => Scripts!PoolKeys' = Scripts!PoolKeys
    <3>1. registry["pool"] # Scripts!Nobody => registry["pool"] \in Scripts!Ids(made)
      BY <1>1 DEF Scripts!AssetsAreApart, Scripts!TypeOK
    <3>2. QED
      BY <1>2, <3>1 DEF Scripts!PoolKeys
  <2>2. pc = "pool" => \A x \in held' : x.keys = keys
    BY <1>1, <1>2 DEF Scripts!KeysAreThePools
  <2>3. QED
    BY <1>1, <2>1, <2>2 DEF Scripts!KeysAreThePools
<1>8. Scripts!OneLostPerCrash'
  <2>1. made' \ held' = made \ held
    <3>1. held \subseteq made /\ n \notin made
      BY <1>1, <1>2 DEF Scripts!TypeOK
    <3>2. made' = made \cup {n} /\ held' = held \cup {n}
      BY <1>2
    <3>3. QED
      BY <3>1, <3>2
  <2>2. QED
    BY <1>1, <2>1 DEF Scripts!OneLostPerCrash
<1>9. Scripts!SubmissionsAreNoted'
  BY <1>1 DEF Scripts!SubmissionsAreNoted
<1>10. Scripts!SweepIsRight'
  <2>1. n.id \notin swept /\ n.id \notin named
    BY <1>1, <1>2 DEF Scripts!TypeOK
  <2>2. QED
    BY <1>1, <1>2, <2>1 DEF Scripts!SweepIsRight
<1>11. QED
  BY <1>4, <1>5, <1>6, <1>7, <1>8, <1>9, <1>10, KeysOpen DEF Scripts!ScriptsInv, Scripts!NothingIsStranded

\* A ledger entry made and not yet written down: it is at hand, and counted should the
\* script die before it is written (src/registry.js:53, src/accounts.js:29).
LEMMA MakingKeepsScripts ==
  ASSUME Scripts!ScriptsInv,
         \/ \E x \in Scripts!Slot : Scripts!Make(x)
         \/ Scripts!CreateLp \/ Scripts!OracleAccount(TRUE) \/ Scripts!CreatePayer
  PROVE  Scripts!ScriptsInv'
<1> USE StepsAre, SlotIs DEF Scripts!upkeep
<1>1. at \in 1..(Oracles + 1)
  BY DEF Scripts!ScriptsInv, Scripts!TypeOK
<1>2. Scripts!HeldIsAtHand
  BY DEF Scripts!ScriptsInv
<1>3. {"lp", "payer", "oracle"} \cup Scripts!Slot \subseteq Scripts!Kinds
  BY DEF Scripts!Kinds
<1>4. ASSUME NEW x \in Scripts!Slot, Scripts!Make(x) PROVE Scripts!ScriptsInv'
  <2>1. held = {} /\ pc = x
    BY <1>2, <1>4 DEF Scripts!Make, Scripts!HeldIsAtHand
  <2>2. QED
    BY <1>1, <1>3, <1>4, <2>1, CreatingKeepsScripts DEF Scripts!Make
<1>5. CASE Scripts!CreateLp
  BY <1>1, <1>3, <1>5, CreatingKeepsScripts DEF Scripts!CreateLp
<1>6. CASE Scripts!OracleAccount(TRUE)
  <2>1. /\ at <= Oracles /\ at' = at + 1 /\ Scripts!Create("oracle") /\ pc = "oracles"
        /\ Cardinality(held) < at /\ UNCHANGED <<pc, recreate, associated, registry, keys, kept, crashes, torn,
                     topped, sent, noted, swept, named>>
    BY <1>2, <1>6, ScriptsSets DEF Scripts!OracleAccount, Scripts!HeldIsAtHand
  <2>2. at' \in 1..(Oracles + 1)
    BY <1>1, <2>1, LoopNumbers
  <2>3. IsFiniteSet(held)
    BY AssetsAreFinite, FS_Subset DEF Scripts!ScriptsInv, Scripts!TypeOK
  <2>4. \E n : held' = held \cup {n}
    BY <2>1 DEF Scripts!Create
  <2>5. Cardinality(held') < at'
    BY <1>1, <2>1, <2>3, <2>4, LoopNumbers
  <2>6. QED
    BY <1>3, <2>1, <2>2, <2>5, CreatingKeepsScripts
<1>7. CASE Scripts!CreatePayer
  BY <1>1, <1>3, <1>7, CreatingKeepsScripts DEF Scripts!CreatePayer
<1>8. QED
  BY <1>4, <1>5, <1>6, <1>7

\* What a step that saves what a script holds keeps: everything but which pool the keys open.
LEMMA SavingKeepsScripts ==
  ASSUME Scripts!ScriptsInv, Scripts!Saved(held),
         UNCHANGED <<recreate, at, made, associated, keys, crashes, torn,
                     topped, sent, noted, swept, named>>,
         pc' \in Scripts!Steps \ {"oracles", "top up", "submitted"}, pc # "submitted",
         Scripts!KeysAreThePools'
  PROVE  Scripts!ScriptsInv'
<1>1. /\ Scripts!TypeOK /\ Scripts!AssetsAreApart /\ Scripts!HeldIsAtHand
      /\ Scripts!OneLostPerCrash /\ Scripts!SubmissionsAreNoted /\ Scripts!SweepIsRight
  BY DEF Scripts!ScriptsInv, Scripts!NothingIsStranded
<1>2. /\ held' = {} /\ kept' = kept \cup Scripts!Ids(held) /\ kept' \subseteq Scripts!Ids(made)
      /\ registry' \in [Scripts!Slot \cup {"payer"} -> 0..MaxAssets]
      /\ \A x \in DOMAIN registry' : registry'[x] \in Scripts!Ids(made) \cup {0}
  BY <1>1, Saving
<1>3. Scripts!TypeOK'
  BY <1>1, <1>2 DEF Scripts!TypeOK
<1>4. Scripts!AssetsAreApart'
  BY <1>1, <1>2 DEF Scripts!AssetsAreApart, Scripts!Nobody
<1>5. Scripts!HeldIsAtHand'
  BY <1>2 DEF Scripts!HeldIsAtHand, Scripts!Ids
<1>6. Scripts!OneLostPerCrash'
  <2>1. PICK L : L = Lost'
    OBVIOUS
  <2>2. L \subseteq Lost
    BY <1>2, <2>1 DEF Lost, Scripts!Ids
  <2>3. IsFiniteSet(Lost)
    BY <1>1, AssetsAreFinite, FS_Subset DEF Lost
  <2>4. crashes \in Nat /\ crashes' = crashes
    BY <1>1 DEF Scripts!AssetsAreApart
  <2>5. Counted(L, crashes)
    BY <1>1, <2>2, <2>3, <2>4, LostIsCounted, CountedFewer
  <2>6. Counted(L, crashes) <=> Scripts!OneLostPerCrash'
    BY <2>1, <2>4, ScriptsSets DEF Scripts!OneLostPerCrash, Counted, Lost
  <2>7. QED
    BY <2>5, <2>6
<1>7. Scripts!SubmissionsAreNoted'
  BY <1>1 DEF Scripts!SubmissionsAreNoted
<1>8. Scripts!SweepIsRight'
  <2>1. kept \subseteq kept' /\ \A x \in made : x.id \in named /\ x.id \in kept' => x.id \in kept
    BY <1>1, <1>2 DEF Scripts!HeldIsAtHand, Scripts!Ids
  <2>2. QED
    BY <1>1, <2>1 DEF Scripts!SweepIsRight
<1>9. QED
  BY <1>3, <1>4, <1>5, <1>6, <1>7, <1>8, KeysOpen DEF Scripts!ScriptsInv, Scripts!NothingIsStranded

\* Writing down what is at hand: nothing is lost by it, and the next step finds it saved
\* (src/registry.js:54, scripts/provision-oracles.js:51).
LEMMA WritingKeepsScripts ==
  ASSUME Scripts!ScriptsInv,
         \/ \E x \in Scripts!Slot : Scripts!Register(x)
         \/ Scripts!RememberLp \/ Scripts!SaveOracles \/ Scripts!SavePayer
  PROVE  Scripts!ScriptsInv'
<1> USE DEF Scripts!upkeep
<1>1. /\ Scripts!TypeOK /\ Scripts!AssetsAreApart /\ Scripts!HeldIsAtHand /\ Scripts!KeysAreThePools
  BY DEF Scripts!ScriptsInv
<1>2. Scripts!Saved(held)
  BY DEF Scripts!Register, Scripts!Save, Scripts!RememberLp, Scripts!SaveOracles, Scripts!SavePayer
<1>3. \A x \in Scripts!Slot \cup {"payer"} :
          /\ (\A y \in held : y.kind # x) => registry'[x] = registry[x]
          /\ \A y : held = {y} /\ y.kind = x => registry'[x] = y.id
  BY <1>1, <1>2, Saving
<1>4. UNCHANGED <<recreate, at, made, associated, keys, crashes, torn, topped, sent, noted, swept, named>>
  BY DEF Scripts!Register, Scripts!RememberLp, Scripts!SaveOracles, Scripts!SavePayer
<1>5. "pool" \in Scripts!Slot \cup {"payer"}
  BY SlotIs
<1>6. ASSUME registry'["pool"] = registry["pool"], pc' # "pool", pc # "pool",
             pc' \in {"share", "policy", "demo", "topic", "associate", "lp", "join"}
                => pc \in {"share", "policy", "demo", "topic", "associate", "lp", "join"}
      PROVE  Scripts!KeysAreThePools'
  <2>1. Scripts!PoolKeys' = Scripts!PoolKeys
    BY <1>4, <1>6 DEF Scripts!PoolKeys
  <2>2. QED
    BY <1>1, <1>4, <1>6, <2>1 DEF Scripts!KeysAreThePools, Scripts!Nobody
<1>7. ASSUME NEW x \in Scripts!Slot, Scripts!Register(x) PROVE Scripts!ScriptsInv'
  <2>1. PICK y : held = {y} /\ y.kind = x /\ y \in held
    BY <1>1, <1>7 DEF Scripts!Register, Scripts!HeldIsAtHand
  <2>2. /\ pc = x /\ pc' = Scripts!After(x) /\ pc # "submitted"
        /\ pc' \in {"share", "policy", "demo", "topic", "associate"}
    BY <1>7, AfterIs, SlotIs DEF Scripts!Register
  <2>3. Scripts!KeysAreThePools'
    <3>1. CASE x = "pool"
      <4>1. registry'["pool"] = y.id /\ y \in made /\ y.keys = keys /\ keys # 0
        BY <1>1, <1>3, <1>5, <2>1, <2>2, <3>1 DEF Scripts!TypeOK, Scripts!KeysAreThePools
      <4>2. {z \in made : z.id = y.id} = {y}
        BY <1>1, <4>1 DEF Scripts!AssetsAreApart
      <4>3. Scripts!PoolKeys' = {z.keys : z \in {y}}
        BY <1>4, <4>1, <4>2 DEF Scripts!PoolKeys
      <4>4. Scripts!PoolKeys' = {keys'} /\ keys' # 0
        BY <1>4, <4>1, <4>3
      <4>5. y.id # 0
        BY <1>1, <4>1, ScriptsSets, AssetsAreFinite DEF Scripts!TypeOK, Scripts!Ids
      <4>6. registry'["pool"] # 0 /\ pc' # "pool"
        BY <2>2, <4>1, <4>5
      <4>7. QED
        BY <4>4, <4>6 DEF Scripts!KeysAreThePools, Scripts!Nobody
    <3>2. CASE x # "pool"
      <4>1. registry'["pool"] = registry["pool"]
        BY <1>3, <1>5, <2>1, <3>2
      <4>2. QED
        BY <1>6, <2>2, <3>2, <4>1, SlotIs
    <3>3. QED
      BY <3>1, <3>2
  <2>4. pc' \in Scripts!Steps \ {"oracles", "top up", "submitted"}
    BY <2>2, StepsAre
  <2>5. QED
    BY <1>2, <1>4, <2>2, <2>3, <2>4, SavingKeepsScripts
<1>8. CASE Scripts!RememberLp
  <2>1. pc = "lp" /\ pc' = "off"
    BY <1>8 DEF Scripts!RememberLp
  <2>2. registry'["pool"] = registry["pool"]
    BY <1>1, <1>3, <1>5, <2>1 DEF Scripts!HeldIsAtHand
  <2>3. pc' \in Scripts!Steps \ {"oracles", "top up", "submitted"}
    BY <2>1, StepsAre
  <2>4. QED
    BY <1>2, <1>4, <1>6, <2>1, <2>2, <2>3, SavingKeepsScripts
<1>9. CASE Scripts!SaveOracles
  <2>1. pc = "oracles" /\ pc' = "payer"
    BY <1>9 DEF Scripts!SaveOracles
  <2>2. registry'["pool"] = registry["pool"]
    BY <1>1, <1>3, <1>5, <2>1 DEF Scripts!HeldIsAtHand
  <2>3. pc' \in Scripts!Steps \ {"oracles", "top up", "submitted"}
    BY <2>1, StepsAre
  <2>4. QED
    BY <1>2, <1>4, <1>6, <2>1, <2>2, <2>3, SavingKeepsScripts
<1>10. CASE Scripts!SavePayer
  <2>1. pc = "payer" /\ pc' = "off"
    BY <1>10 DEF Scripts!SavePayer
  <2>2. registry'["pool"] = registry["pool"]
    BY <1>1, <1>3, <1>5, <2>1 DEF Scripts!HeldIsAtHand
  <2>3. pc' \in Scripts!Steps \ {"oracles", "top up", "submitted"}
    BY <2>1, StepsAre
  <2>4. QED
    BY <1>2, <1>4, <1>6, <2>1, <2>2, <2>3, SavingKeepsScripts
<1>11. QED
  BY <1>7, <1>8, <1>9, <1>10

\* A script dies: what it held joins what no file names, and it is one more.
LEMMA DyingKeepsScripts ==
  ASSUME Scripts!ScriptsInv, Scripts!Die PROVE Scripts!ScriptsInv'
<1> USE DEF Scripts!upkeep
<1>1. /\ Scripts!TypeOK /\ Scripts!AssetsAreApart /\ Scripts!HeldIsAtHand /\ Scripts!KeysAreThePools
      /\ Scripts!OneLostPerCrash /\ Scripts!SubmissionsAreNoted /\ Scripts!SweepIsRight
  BY DEF Scripts!ScriptsInv, Scripts!NothingIsStranded
<1>2. /\ pc # "off" /\ pc' = "off" /\ held' = {} /\ at' = 1 /\ crashes' = crashes + 1
      /\ torn' = (torn \/ (recreate /\ pc = "pool"))
      /\ UNCHANGED <<recreate, made, associated, registry, keys, kept, topped, sent, noted, swept, named>>
  BY DEF Scripts!Die
<1>3. crashes \in Nat
  BY <1>1 DEF Scripts!AssetsAreApart
<1>4. Scripts!TypeOK'
  <2>1. at' \in 1..(Oracles + 1) /\ pc' \in Scripts!Steps
    BY <1>2, LoopNumbers, StepsAre
  <2>2. QED
    BY <1>1, <1>2, <2>1 DEF Scripts!TypeOK
<1>5. Scripts!AssetsAreApart'
  <2>1. crashes' \in Nat
    BY <1>2, <1>3
  <2>2. QED
    BY <1>1, <1>2, <2>1 DEF Scripts!AssetsAreApart
<1>6. Scripts!HeldIsAtHand'
  BY <1>2, SlotIs DEF Scripts!HeldIsAtHand, Scripts!Ids
<1>7. Scripts!KeysAreThePools'
  <2>2. Scripts!PoolKeys' = Scripts!PoolKeys
    BY <1>2 DEF Scripts!PoolKeys
  <2>3. ~torn' => ~torn /\ ~(recreate /\ pc = "pool")
    BY <1>2
  <2>4. QED
    BY <1>1, <1>2, <2>2, <2>3 DEF Scripts!KeysAreThePools
<1>8. Scripts!OneLostPerCrash'
  <2>1. PICK H : H = {x \in held : x.id \notin kept}
    OBVIOUS
  <2>2. PICK L : L = Lost
    OBVIOUS
  <2>3. Lost' = L \cup H /\ H \cap L = {}
    BY <1>1, <1>2, <2>1, <2>2 DEF Lost, Scripts!TypeOK
  <2>4. IsFiniteSet(L) /\ IsFiniteSet(held) /\ IsFiniteSet(H) /\ Cardinality(H) <= Cardinality(held)
    <3>1. IsFiniteSet(made) /\ held \subseteq made /\ L \subseteq made
      BY <1>1, <2>2, AssetsAreFinite DEF Lost, Scripts!TypeOK
    <3>2. IsFiniteSet(held)
      BY <3>1, FS_Subset
    <3>3. QED
      BY <2>1, <3>1, <3>2, FS_Subset
  <2>5. \/ H = {}
        \/ \E x : H = {x} /\ x.kind # "oracle"
        \/ Cardinality(H) <= Oracles /\ \A x \in H : x.kind = "oracle"
    <3>1. CASE pc \in Scripts!Slot \cup {"lp", "payer"}
      <4>1. \A x, y \in H : x = y /\ x.kind = pc
        BY <1>1, <2>1, <3>1 DEF Scripts!HeldIsAtHand
      <4>2. pc # "oracle"
        BY <3>1, SlotIs
      <4>3. QED
        BY <4>1, <4>2
    <3>2. CASE pc = "oracles"
      <4>1. Cardinality(held) < at /\ \A x \in H : x.kind = "oracle"
        BY <1>1, <2>1, <3>2, ScriptsSets DEF Scripts!HeldIsAtHand
      <4>2. at \in 1..(Oracles + 1)
        BY <1>1 DEF Scripts!TypeOK
      <4>3. Cardinality(held) \in Nat /\ Cardinality(H) \in Nat
        BY <2>4, FS_CardinalityType
      <4>4. Cardinality(H) <= Oracles
        BY <2>4, <4>1, <4>2, <4>3, ScriptsNumbers
      <4>5. QED
        BY <4>1, <4>4
    <3>3. CASE pc \notin Scripts!Slot \cup {"lp", "payer", "oracles"}
      BY <1>1, <2>1, <3>3 DEF Scripts!HeldIsAtHand
    <3>4. QED
      BY <3>1, <3>2, <3>3
  <2>6. Counted(L, crashes)
    BY <1>1, <2>2, LostIsCounted
  <2>7. Counted(L \cup H, crashes + 1)
    BY <1>3, <2>3, <2>4, <2>5, <2>6, CountedDead
  <2>8. Counted(L \cup H, crashes + 1) <=> Scripts!OneLostPerCrash'
    BY <1>2, <2>3, ScriptsSets DEF Scripts!OneLostPerCrash, Counted, Lost
  <2>9. QED
    BY <2>7, <2>8
<1>9. Scripts!SubmissionsAreNoted'
  <2>1. Len(sent) \in Nat /\ noted \in Nat
    <3>1. sent \in Seq(Scripts!Ids(made)) /\ noted \in Nat
      BY <1>1 DEF Scripts!AssetsAreApart
    <3>2. QED
      BY <3>1
  <2>2. Len(sent) - noted <= crashes + (IF pc = "submitted" THEN 1 ELSE 0)
    BY <1>1 DEF Scripts!SubmissionsAreNoted
  <2>3. Len(sent) - noted <= crashes + 1
    BY <1>3, <2>1, <2>2
  <2>4. QED
    BY <1>2, <1>3, <2>1, <2>3 DEF Scripts!SubmissionsAreNoted
<1>10. Scripts!SweepIsRight'
  BY <1>1, <1>2 DEF Scripts!SweepIsRight
<1>11. QED
  BY <1>4, <1>5, <1>6, <1>7, <1>8, <1>9, <1>10, KeysOpen DEF Scripts!ScriptsInv, Scripts!NothingIsStranded

\* The oracles' keys, new or the old ones.
LEMMA KeyingKeepsScripts ==
  ASSUME Scripts!ScriptsInv, Scripts!OracleKeys PROVE Scripts!ScriptsInv'
<1> USE DEF Scripts!upkeep
<1>1. /\ Scripts!TypeOK /\ Scripts!AssetsAreApart /\ Scripts!HeldIsAtHand /\ Scripts!KeysAreThePools
      /\ Scripts!OneLostPerCrash /\ Scripts!SubmissionsAreNoted /\ Scripts!SweepIsRight
  BY DEF Scripts!ScriptsInv, Scripts!NothingIsStranded
<1>2. /\ pc = "keys" /\ pc' = "pool"
      /\ keys' = (IF keys = 0 \/ recreate THEN keys + 1 ELSE keys) /\ keys' <= MaxKeys
      /\ UNCHANGED <<recreate, at, made, associated, registry, kept, held, crashes, torn,
                     topped, sent, noted, swept, named>>
  BY DEF Scripts!OracleKeys
<1>3. keys \in 0..MaxKeys
  BY <1>1 DEF Scripts!TypeOK
<1>4. keys' \in 0..MaxKeys /\ keys' # 0 /\ (~recreate /\ keys # 0 => keys' = keys)
  <2>1. keys \in Nat
    BY <1>3, ScriptsNumbers
  <2>2. keys' \in Nat /\ keys' # 0
    BY <1>2, <2>1
  <2>3. QED
    BY <1>2, <2>2, ScriptsNumbers
<1>5. Scripts!TypeOK'
  <2>1. pc' \in Scripts!Steps
    BY <1>2, StepsAre
  <2>2. QED
    BY <1>1, <1>2, <1>4, <2>1 DEF Scripts!TypeOK
<1>6. Scripts!AssetsAreApart'
  BY <1>1, <1>2 DEF Scripts!AssetsAreApart
<1>7. held = {}
  BY <1>1, <1>2, SlotIs DEF Scripts!HeldIsAtHand
<1>8. Scripts!HeldIsAtHand'
  BY <1>2, <1>7, SlotIs DEF Scripts!HeldIsAtHand, Scripts!Ids
<1>9. Scripts!KeysAreThePools'
  <2>1. Scripts!PoolKeys' = Scripts!PoolKeys
    BY <1>2 DEF Scripts!PoolKeys
  <2>2. QED
    BY <1>1, <1>2, <1>4, <1>7, <2>1 DEF Scripts!KeysAreThePools
<1>10. Scripts!OneLostPerCrash' /\ Scripts!SweepIsRight' /\ Scripts!SubmissionsAreNoted'
  BY <1>1, <1>2 DEF Scripts!OneLostPerCrash, Scripts!SweepIsRight, Scripts!SubmissionsAreNoted
<1>11. QED
  BY <1>5, <1>6, <1>8, <1>9, <1>10, KeysOpen DEF Scripts!ScriptsInv, Scripts!NothingIsStranded

\* What a step of a script that holds nothing keeps, when it leaves the assets, the keys and
\* the files alone.
LEMMA UpkeepKeepsScripts ==
  ASSUME Scripts!ScriptsInv, held = {},
         UNCHANGED <<recreate, at, made, registry, keys, kept, held, crashes, torn>>,
         pc' \in Scripts!Steps \ {"oracles"}, pc # "pool", pc' # "pool",
         pc' \in {"share", "policy", "demo", "topic", "associate", "lp", "join"}
            => pc \in {"share", "policy", "demo", "topic", "associate", "lp", "join"},
         associated' \subseteq Scripts!Ids(made), topped' \subseteq Scripts!Ids(made),
         swept' \cup named' \subseteq Scripts!Ids(made),
         sent' \in Seq(Scripts!Ids(made)), noted' \in Nat, noted' <= Len(sent'),
         pc' = "top up" => registry["pool"] \in Scripts!Ids(made),
         pc' = "submitted" => noted' < Len(sent'),
         Scripts!SubmissionsAreNoted', Scripts!SweepIsRight'
  PROVE  Scripts!ScriptsInv'
<1>1. /\ Scripts!TypeOK /\ Scripts!AssetsAreApart /\ Scripts!KeysAreThePools /\ Scripts!OneLostPerCrash
  BY DEF Scripts!ScriptsInv, Scripts!NothingIsStranded
<1>2. Scripts!TypeOK'
  BY <1>1 DEF Scripts!TypeOK
<1>3. Scripts!AssetsAreApart'
  <2>1. /\ Scripts!IsFiniteSet(made) /\ Scripts!Cardinality(made) <= MaxAssets
        /\ made \subseteq [kind : Scripts!Kinds, id : Nat, keys : Nat]
        /\ \A a1, a2 \in made : a1.id = a2.id => a1 = a2
        /\ \A x \in DOMAIN registry : registry[x] \in Scripts!Ids(made) \cup {Scripts!Nobody}
        /\ crashes \in Nat
    BY <1>1 DEF Scripts!AssetsAreApart
  <2>2. Scripts!Ids(made') = Scripts!Ids(made)
    OBVIOUS
  <2>3. QED
    BY <2>1, <2>2 DEF Scripts!AssetsAreApart
<1>4. Scripts!HeldIsAtHand'
  BY DEF Scripts!HeldIsAtHand, Scripts!Ids
<1>5. Scripts!KeysAreThePools'
  <2>1. Scripts!PoolKeys' = Scripts!PoolKeys
    BY DEF Scripts!PoolKeys
  <2>2. QED
    BY <1>1, <2>1 DEF Scripts!KeysAreThePools
<1>6. Scripts!OneLostPerCrash'
  BY <1>1 DEF Scripts!OneLostPerCrash
<1>7. QED
  BY <1>2, <1>3, <1>4, <1>5, <1>6, KeysOpen DEF Scripts!ScriptsInv, Scripts!NothingIsStranded

\* Associating a pool, filling it up, and the sweep.
LEMMA AftercareKeepsScripts ==
  ASSUME Scripts!ScriptsInv,
         \/ \E mirrored \in BOOLEAN : Scripts!AssociatePool(mirrored)
         \/ Scripts!Submit \/ Scripts!NoteId
         \/ (\E pool \in Scripts!Range(sent) : Scripts!Replenished(pool))
         \/ (\E x \in made : Scripts!SweepAccount(x)) \/ Scripts!EndSweep
  PROVE  Scripts!ScriptsInv'
<1> USE DEF Scripts!upkeep
<1>1. /\ Scripts!TypeOK /\ Scripts!AssetsAreApart /\ Scripts!HeldIsAtHand /\ Scripts!KeysAreThePools
      /\ Scripts!SubmissionsAreNoted /\ Scripts!SweepIsRight
  BY DEF Scripts!ScriptsInv, Scripts!NothingIsStranded
<1>2. /\ pc \in Scripts!Steps
      /\ pc \in {"associate", "join", "top up", "submitted", "noted", "sweep"} => held = {}
  BY <1>1, SlotIs DEF Scripts!TypeOK, Scripts!HeldIsAtHand
<1>3. /\ sent \in Seq(Scripts!Ids(made)) /\ noted \in Nat /\ Len(sent) \in Nat /\ noted <= Len(sent)
      /\ crashes \in Nat
  <2>1. sent \in Seq(Scripts!Ids(made)) /\ noted \in Nat /\ crashes \in Nat
    BY <1>1 DEF Scripts!AssetsAreApart
  <2>2. noted <= Len(sent)
    BY <1>1 DEF Scripts!TypeOK
  <2>3. QED
    BY <2>1, <2>2
<1>4. /\ associated \subseteq Scripts!Ids(made) /\ topped \subseteq Scripts!Ids(made)
      /\ swept \cup named \subseteq Scripts!Ids(made)
  BY <1>1 DEF Scripts!TypeOK
<1>5. /\ pc = "submitted" => Len(sent) - noted <= crashes + 1
      /\ pc # "submitted" => Len(sent) - noted <= crashes
  <2>1. Len(sent) - noted <= crashes + (IF pc = "submitted" THEN 1 ELSE 0)
    BY <1>1 DEF Scripts!SubmissionsAreNoted
  <2>2. QED
    BY <1>3, <2>1
<1>6. ASSUME NEW mirrored \in BOOLEAN, Scripts!AssociatePool(mirrored) PROVE Scripts!ScriptsInv'
  <2>1. /\ pc \in {"associate", "join"} /\ associated' = associated \cup {registry["pool"]}
        /\ pc' = (IF pc = "join" THEN "off" ELSE "lp")
        /\ UNCHANGED <<recreate, at, made, registry, keys, kept, held, crashes, torn,
                       topped, sent, noted, swept, named>>
    BY <1>6 DEF Scripts!AssociatePool
  <2>2. registry["pool"] # 0 /\ "pool" \in DOMAIN registry
    BY <1>1, <2>1, SlotIs DEF Scripts!KeysAreThePools, Scripts!Nobody, Scripts!TypeOK
  <2>3. registry["pool"] \in Scripts!Ids(made)
    BY <1>1, <2>2 DEF Scripts!AssetsAreApart, Scripts!Nobody
  <2>4. pc' \in {"off", "lp"} /\ pc' \in Scripts!Steps \ {"oracles"}
    BY <2>1, StepsAre
  <2>5. Scripts!SubmissionsAreNoted' /\ Scripts!SweepIsRight'
    BY <1>1, <2>1, <2>4 DEF Scripts!SubmissionsAreNoted, Scripts!SweepIsRight
  <2>6. QED
    BY <1>2, <1>3, <1>4, <2>1, <2>3, <2>4, <2>5, UpkeepKeepsScripts
<1>7. CASE Scripts!Submit
  <2>1. /\ pc = "top up" /\ pc' = "submitted" /\ sent' = Append(sent, registry["pool"])
        /\ UNCHANGED <<recreate, at, made, associated, registry, keys, kept, held, crashes, torn,
                       topped, noted, swept, named>>
    BY <1>7 DEF Scripts!Submit
  <2>2. registry["pool"] \in Scripts!Ids(made)
    BY <1>1, <2>1 DEF Scripts!AssetsAreApart
  <2>3. sent' \in Seq(Scripts!Ids(made)) /\ Len(sent') = Len(sent) + 1
    <3>1. sent \in Seq(Scripts!Ids(made)) /\ sent' = Append(sent, registry["pool"])
      BY <1>3, <2>1
    <3>2. QED
      BY <2>2, <3>1, AppendProperties
  <2>4. Len(sent) - noted <= crashes
    BY <1>5, <2>1
  <2>5. noted' < Len(sent') /\ noted' <= Len(sent') /\ Len(sent') - noted' <= crashes' + 1
    <3>1. noted' = noted /\ crashes' = crashes
      BY <2>1
    <3>2. QED
      BY <1>3, <2>3, <2>4, <3>1
  <2>6. pc' \in Scripts!Steps \ {"oracles"}
    BY <2>1, StepsAre
  <2>7. Scripts!SubmissionsAreNoted'
    BY <2>1, <2>5 DEF Scripts!SubmissionsAreNoted
  <2>8. Scripts!SweepIsRight'
    BY <1>1, <2>1 DEF Scripts!SweepIsRight
  <2>9. QED
    BY <1>2, <1>3, <1>4, <2>1, <2>3, <2>5, <2>6, <2>7, <2>8, UpkeepKeepsScripts
<1>8. CASE Scripts!NoteId
  <2>1. /\ pc = "submitted" /\ pc' = "noted" /\ noted' = noted + 1
        /\ UNCHANGED <<recreate, at, made, associated, registry, keys, kept, held, crashes, torn,
                       topped, sent, swept, named>>
    BY <1>8 DEF Scripts!NoteId
  <2>2. noted < Len(sent)
    BY <1>1, <2>1 DEF Scripts!AssetsAreApart
  <2>3. Len(sent) - noted <= crashes + 1
    BY <1>5, <2>1
  <2>4. noted' \in Nat /\ noted' <= Len(sent') /\ Len(sent') - noted' <= crashes'
    <3>1. noted' = noted + 1 /\ crashes' = crashes /\ sent' = sent
      BY <2>1
    <3>2. QED
      BY <1>3, <2>2, <2>3, <3>1
  <2>5. pc' \in Scripts!Steps \ {"oracles"}
    BY <2>1, StepsAre
  <2>6. crashes' + 0 = crashes'
    BY <1>3, <2>1
  <2>7. Scripts!SubmissionsAreNoted'
    BY <2>1, <2>4, <2>6 DEF Scripts!SubmissionsAreNoted
  <2>8. Scripts!SweepIsRight'
    BY <1>1, <2>1 DEF Scripts!SweepIsRight
  <2>9. QED
    BY <1>2, <1>3, <1>4, <2>1, <2>4, <2>5, <2>7, <2>8, UpkeepKeepsScripts
<1>9. ASSUME NEW pool \in Scripts!Range(sent), Scripts!Replenished(pool) PROVE Scripts!ScriptsInv'
  <2>1. /\ topped' = topped \cup {pool}
        /\ UNCHANGED <<pc, recreate, at, made, associated, registry, keys, kept, held, crashes, torn,
                       sent, noted, swept, named>>
    BY <1>9 DEF Scripts!Replenished
  <2>2. pool \in Scripts!Ids(made)
    BY <1>3 DEF Scripts!Range
  <2>3. Scripts!TypeOK'
    BY <1>1, <2>1, <2>2 DEF Scripts!TypeOK
  <2>4. Scripts!AssetsAreApart' /\ Scripts!HeldIsAtHand'
    BY <1>1, <2>1 DEF Scripts!AssetsAreApart, Scripts!HeldIsAtHand
  <2>5. Scripts!KeysAreThePools'
    BY <1>1, <2>1 DEF Scripts!KeysAreThePools, Scripts!PoolKeys
  <2>6. Scripts!OneLostPerCrash' /\ Scripts!SubmissionsAreNoted' /\ Scripts!SweepIsRight'
    BY <2>1 DEF Scripts!ScriptsInv, Scripts!NothingIsStranded, Scripts!OneLostPerCrash,
       Scripts!SubmissionsAreNoted, Scripts!SweepIsRight
  <2>7. QED
    BY <2>3, <2>4, <2>5, <2>6, KeysOpen DEF Scripts!ScriptsInv, Scripts!NothingIsStranded
<1>10. ASSUME NEW x \in made, Scripts!SweepAccount(x) PROVE Scripts!ScriptsInv'
  <2>1. /\ pc = "sweep" /\ x \in Scripts!KeyFile /\ swept' = swept \cup {x.id}
        /\ UNCHANGED <<pc, recreate, at, made, associated, registry, keys, kept, held, crashes, torn,
                       topped, sent, noted, named>>
    BY <1>10 DEF Scripts!SweepAccount
  <2>2. x.id \in Scripts!Ids(made) /\ x.kind = "lp" /\ x.id \in kept
    BY <2>1 DEF Scripts!KeyFile, Scripts!Ids
  <2>3. Scripts!SweepIsRight'
    BY <1>1, <2>1, <2>2 DEF Scripts!SweepIsRight, Scripts!AssetsAreApart
  <2>4. Scripts!SubmissionsAreNoted'
    BY <1>1, <2>1 DEF Scripts!SubmissionsAreNoted
  <2>5. QED
    BY <1>2, <1>3, <1>4, <2>1, <2>2, <2>3, <2>4, UpkeepKeepsScripts
<1>11. CASE Scripts!EndSweep
  <2>1. /\ pc = "sweep" /\ pc' = "off"
        /\ UNCHANGED <<recreate, at, made, associated, registry, keys, kept, held, crashes, torn,
                       topped, sent, noted, swept>>
    BY <1>11 DEF Scripts!EndSweep
  <2>2. PICK view1 \in {{}, made} : named' = named \cup Scripts!Stranded(view1)
    BY <1>11 DEF Scripts!EndSweep
  <2>3. \A n \in Scripts!Stranded(view1) :
           \E x \in made : x.id = n /\ (x.kind = "lp" => x.id \notin kept)
                           /\ x.kind \in {"pool", "lp", "oracle", "payer"}
    BY <2>2 DEF Scripts!Stranded, Scripts!KeyFile
  <2>4. Scripts!Stranded(view1) \subseteq Scripts!Ids(made)
    BY <2>3 DEF Scripts!Ids
  <2>5. Scripts!SweepIsRight'
    BY <1>1, <2>1, <2>2, <2>3 DEF Scripts!SweepIsRight, Scripts!AssetsAreApart
  <2>6. Scripts!SubmissionsAreNoted'
    BY <1>1, <2>1 DEF Scripts!SubmissionsAreNoted
  <2>7. pc' \in Scripts!Steps \ {"oracles"}
    BY <2>1, StepsAre
  <2>8. QED
    BY <1>2, <1>3, <1>4, <2>1, <2>2, <2>4, <2>5, <2>6, <2>7, UpkeepKeepsScripts
<1>12. QED
  BY <1>6, <1>7, <1>8, <1>9, <1>10, <1>11

\* Nothing is provisioned yet.
LEMMA ScriptsInit == Scripts!Init => Scripts!ScriptsInv
<1> SUFFICES ASSUME Scripts!Init PROVE Scripts!ScriptsInv
  OBVIOUS
<1>1. /\ pc = "off" /\ recreate = FALSE /\ at = 1
      /\ made = {} /\ associated = {} /\ kept = {} /\ held = {}
      /\ registry = [x \in Scripts!Slot \cup {"payer"} |-> 0]
      /\ keys = 0 /\ crashes = 0 /\ torn = FALSE
      /\ topped = {} /\ sent = <<>> /\ noted = 0 /\ swept = {} /\ named = {}
  BY DEF Scripts!Init, Scripts!Nobody
<1>2. Scripts!Ids({}) = {} /\ Cardinality({}) = 0 /\ IsFiniteSet({})
  BY FS_EmptySet DEF Scripts!Ids
<1>3. Scripts!TypeOK
  <2>1. Scripts!Ids(made) = 1..Scripts!Cardinality(made)
    <3>1. made = {} /\ Scripts!Cardinality({}) = 0
      BY <1>1, <1>2, ScriptsSets
    <3>2. Scripts!Ids(made) = {} /\ Scripts!Cardinality(made) = 0
      BY <1>2, <3>1
    <3>3. 1..0 = {}
      OBVIOUS
    <3>4. QED
      BY <3>2, <3>3
  <2>2. at \in 1..(Oracles + 1) /\ pc \in Scripts!Steps
    BY <1>1, LoopNumbers, StepsAre
  <2>3. keys \in 0..MaxKeys /\ registry \in [Scripts!Slot \cup {"payer"} -> 0..MaxAssets]
    BY <1>1, ScriptsNumbers
  <2>4. noted <= Len(sent)
    <3>1. noted = 0 /\ sent = <<>>
      BY <1>1
    <3>2. QED
      BY <3>1
  <2>5. /\ recreate \in BOOLEAN /\ kept \subseteq Scripts!Ids(made) /\ held \subseteq made
        /\ associated \subseteq Scripts!Ids(made) /\ topped \subseteq Scripts!Ids(made)
        /\ swept \cup named \subseteq Scripts!Ids(made)
    BY <1>1
  <2>6. QED
    BY <2>1, <2>2, <2>3, <2>4, <2>5 DEF Scripts!TypeOK
<1>4. Scripts!AssetsAreApart
  <2>1. Scripts!IsFiniteSet(made) /\ Scripts!Cardinality(made) <= MaxAssets
    BY <1>1, <1>2, ScriptsSets, ScriptsNumbers
  <2>2. sent \in Seq(Scripts!Ids(made)) /\ noted \in Nat /\ crashes \in Nat
    BY <1>1
  <2>3. QED
    BY <1>1, <2>1, <2>2 DEF Scripts!AssetsAreApart, Scripts!Nobody
<1>5. Scripts!HeldIsAtHand
  BY <1>1 DEF Scripts!HeldIsAtHand, Scripts!Ids
<1>6. Scripts!KeysAreThePools
  BY <1>1, SlotIs DEF Scripts!KeysAreThePools, Scripts!Nobody
<1>7. Scripts!OneLostPerCrash
  <2>1. Cardinality({}) <= 0 /\ Cardinality({}) <= Oracles * (0 - Cardinality({}))
    BY <1>2, ScriptsNumbers
  <2>2. Counted({}, 0)
    BY <2>1 DEF Counted
  <2>3. Lost = {}
    BY <1>1 DEF Lost
  <2>4. QED
    BY <1>1, <2>2, <2>3, LostIsCounted
<1>8. Scripts!SubmissionsAreNoted /\ Scripts!SweepIsRight
  BY <1>1 DEF Scripts!SubmissionsAreNoted, Scripts!SweepIsRight
<1>9. QED
  BY <1>3, <1>4, <1>5, <1>6, <1>7, <1>8, KeysOpen DEF Scripts!ScriptsInv, Scripts!NothingIsStranded

\* Every step of this part.
LEMMA ScriptsNext == Scripts!ScriptsInv /\ [Scripts!Next]_s => Scripts!ScriptsInv'
<1> SUFFICES ASSUME Scripts!ScriptsInv, [Scripts!Next]_s PROVE Scripts!ScriptsInv'
  OBVIOUS
<1>1. CASE Scripts!Next
  <2>1. \A flag \in BOOLEAN : flag = TRUE \/ flag = FALSE
    OBVIOUS
  <2>2. QED
    BY <1>1, <2>1, PassingKeepsScripts, MakingKeepsScripts, WritingKeepsScripts, DyingKeepsScripts,
       KeyingKeepsScripts, AftercareKeepsScripts, Zenon DEF Scripts!Next
<1>2. CASE UNCHANGED s
  <2>1. UNCHANGED <<pc, recreate, at, made, associated, registry, keys, kept, held, crashes, torn,
                   topped, sent, noted, swept, named>>
    BY <1>2 DEF s
  <2>2. Scripts!TypeOK' /\ Scripts!AssetsAreApart'
    BY <2>1 DEF Scripts!ScriptsInv, Scripts!TypeOK, Scripts!AssetsAreApart
  <2>3. Scripts!HeldIsAtHand' /\ Scripts!KeysAreThePools'
    BY <2>1 DEF Scripts!ScriptsInv, Scripts!HeldIsAtHand, Scripts!KeysAreThePools, Scripts!PoolKeys
  <2>4. Scripts!OneLostPerCrash' /\ Scripts!SubmissionsAreNoted' /\ Scripts!SweepIsRight'
    BY <2>1 DEF Scripts!ScriptsInv, Scripts!NothingIsStranded, Scripts!OneLostPerCrash,
       Scripts!SubmissionsAreNoted, Scripts!SweepIsRight
  <2>5. QED
    BY <2>2, <2>3, <2>4, KeysOpen DEF Scripts!ScriptsInv, Scripts!NothingIsStranded
<1>3. QED
  BY <1>1, <1>2

-----------------------------------------------------------------------------
(* The purchases of a visitor *)

\* A fresh browser and an idle server are typed.
LEMMA VisitorInit == Visitor!Init => Visitor!TypeOK
<1> SUFFICES ASSUME Visitor!Init PROVE Visitor!TypeOK
  OBVIOUS
<1>1. current \in Requests
  BY DEF Visitor!Init, Visitor!VisitorAssumption
<1>2. restarts \in 0..MaxRestarts
  BY DEF Visitor!Init, Visitor!VisitorAssumption
<1>3. QED
  BY <1>1, <1>2 DEF Visitor!Init, Visitor!TypeOK

\* Steps of the browser: the panel and the page.
LEMMA BrowserKeepsVisitor ==
  ASSUME Visitor!TypeOK,
         \/ Visitor!Buy \/ Visitor!Receive \/ Visitor!Interrupted \/ Visitor!QuoteAgain
         \/ \E x \in Requests : \/ Visitor!NewRequest(x) \/ Visitor!Ask(x) \/ Visitor!AskFails(x)
                                \/ Visitor!Show(x) \/ Visitor!Dismiss(x)
  PROVE  Visitor!TypeOK'
<1> USE DEF Visitor!TypeOK, Visitor!server
<1>1. CASE Visitor!Buy
  BY <1>1 DEF Visitor!Buy
<1>2. CASE Visitor!Receive
  BY <1>2 DEF Visitor!Receive
<1>3. CASE Visitor!Interrupted
  BY <1>3 DEF Visitor!Interrupted
<1>4. CASE Visitor!QuoteAgain
  BY <1>4 DEF Visitor!QuoteAgain
<1>5. ASSUME NEW x \in Requests, Visitor!NewRequest(x) PROVE Visitor!TypeOK'
  BY <1>5 DEF Visitor!NewRequest
<1>6. ASSUME NEW x \in Requests, Visitor!Ask(x) PROVE Visitor!TypeOK'
  BY <1>6 DEF Visitor!Ask, Visitor!Status
<1>7. ASSUME NEW x \in Requests, Visitor!AskFails(x) PROVE Visitor!TypeOK'
  BY <1>7 DEF Visitor!AskFails
<1>8. ASSUME NEW x \in Requests, Visitor!Show(x) PROVE Visitor!TypeOK'
  BY <1>8 DEF Visitor!Show
<1>9. ASSUME NEW x \in Requests, Visitor!Dismiss(x) PROVE Visitor!TypeOK'
  BY <1>9 DEF Visitor!Dismiss
<1>10. QED
  BY <1>1, <1>2, <1>3, <1>4, <1>5, <1>6, <1>7, <1>8, <1>9

\* Steps of the server.
LEMMA ServerKeepsVisitor ==
  ASSUME Visitor!TypeOK, (\E x \in Requests : Visitor!Serve(x)) \/ Visitor!Restart
  PROVE  Visitor!TypeOK'
<1> USE DEF Visitor!TypeOK, Visitor!browser, Visitor!Over
<1>1. ASSUME NEW x \in Requests, Visitor!Enter(x) PROVE Visitor!TypeOK'
  BY <1>1 DEF Visitor!Enter
<1>2. ASSUME NEW x \in Requests, Visitor!LockBusy(x) PROVE Visitor!TypeOK'
  BY <1>2 DEF Visitor!LockBusy
<1>3. ASSUME NEW x \in Requests, Visitor!Known(x) PROVE Visitor!TypeOK'
  BY <1>3 DEF Visitor!Known, Visitor!Leave
<1>4. ASSUME NEW x \in Requests, Visitor!Refuse(x) PROVE Visitor!TypeOK'
  BY <1>4 DEF Visitor!Refuse, Visitor!Leave
<1>5. ASSUME NEW x \in Requests, Visitor!Reserve(x) PROVE Visitor!TypeOK'
  BY <1>5 DEF Visitor!Reserve
<1>6. ASSUME NEW x \in Requests, Visitor!Throw(x) PROVE Visitor!TypeOK'
  BY <1>6 DEF Visitor!Throw, Visitor!Leave
<1>7. ASSUME NEW x \in Requests, Visitor!Issue(x) PROVE Visitor!TypeOK'
  BY <1>7 DEF Visitor!Issue
<1>8. ASSUME NEW x \in Requests, Visitor!Finish(x) PROVE Visitor!TypeOK'
  BY <1>8 DEF Visitor!Finish
<1>9. CASE Visitor!Restart
  <2>1. restarts' \in 0..MaxRestarts
    BY <1>9 DEF Visitor!Restart, Visitor!VisitorAssumption
  <2>2. QED
    BY <1>9, <2>1 DEF Visitor!Restart
<1>10. QED
  BY <1>1, <1>2, <1>3, <1>4, <1>5, <1>6, <1>7, <1>8, <1>9 DEF Visitor!Serve

\* Every step of this part.
LEMMA VisitorNext == Visitor!TypeOK /\ [Visitor!Next]_v => Visitor!TypeOK'
<1> SUFFICES ASSUME Visitor!TypeOK, [Visitor!Next]_v PROVE Visitor!TypeOK'
  OBVIOUS
<1>1. CASE Visitor!Next
  BY <1>1, BrowserKeepsVisitor, ServerKeepsVisitor DEF Visitor!Next
<1>2. CASE UNCHANGED v
  BY <1>2 DEF v, Visitor!TypeOK
<1>3. QED
  BY <1>1, <1>2

-----------------------------------------------------------------------------
(* What is handed to a wallet *)

\* A variant has the fields of the record it is made from.
LEMMA VariantFields ==
  ASSUME NEW good, NEW other, NEW w \in Wallets!Variants(good, other)
  PROVE  /\ w = [x \in DOMAIN good |-> w[x]]
         /\ \A x \in DOMAIN good : w[x] = good[x] \/ w[x] = other[x]
  BY DEF Wallets!Variants

\* Half a percent off, rounded.
LEMMA HalfPercent ==
  ASSUME NEW n \in Int, NEW m \in Int, m >= (n * 995) \div 1000
  PROVE  m * 1000 >= n * 995 - 1000
  OBVIOUS

\* Any native swap that passes, of any amount: it spends what was asked for and pays the
\* wallet.
LEMMA NativeSwapIsBounded ==
  ASSUME NEW tx, NEW w, NEW want, want.address = Wallets!Wallet, want.amount \in Int,
         Wallets!ValidSwap(tx, w, want, Wallets!Now)
  PROVE  /\ Wallets!NativeSpent(tx) = want.amount
         /\ Wallets!TokensSpent(tx) = 0 /\ Wallets!LeftInRouter(tx) = 0
         /\ Wallets!PaysTheWallet(tx, w)
<1>1. /\ tx.to = Router /\ tx.from = Wallets!Wallet /\ tx.value = want.amount /\ tx.amountIn = want.amount
      /\ tx.minOut = w.minimum /\ ~tx.payerIsUser /\ tx.recipient \in {Wallets!Wallet, Self}
      /\ tx.path = <<Weth, Usdc>> /\ w.recipient = Wallets!Wallet /\ w.tokenOut = Usdc
      /\ w.minimum * 10000 >= w.output * 9950 - 10000
  BY DEF Wallets!ValidSwap, Wallets!SwapQuoteMatches, Wallets!Protected
<1>2. tx.path[Len(tx.path)] = Usdc
  BY <1>1
<1>3. /\ Wallets!NativeSpent(tx) = want.amount /\ Wallets!TokensSpent(tx) = 0
      /\ Wallets!LeftInRouter(tx) = 0
  BY <1>1 DEF Wallets!NativeSpent, Wallets!TokensSpent, Wallets!LeftInRouter
<1>4. QED
  BY <1>1, <1>2, <1>3 DEF Wallets!PaysTheWallet, Wallets!Payee

\* Any swap of bridged tokens that passes, of any amount, with a permit or without.
LEMMA BridgedSwapIsBounded ==
  ASSUME NEW tx, NEW w, NEW permit, NEW want, want.address = Wallets!Wallet,
         Wallets!ValidBridgedTx(tx, w, want, permit, Wallets!Now)
  PROVE  /\ Wallets!NativeSpent(tx) = 0 /\ Wallets!TokensSpent(tx) = want.amount
         /\ Wallets!PaysTheWallet(tx, w)
         /\ permit # <<>> => tx.permit[1].signer = Wallets!Wallet
<1>1. /\ tx.to = Router /\ tx.from = Wallets!Wallet /\ tx.value = 0 /\ tx.amountIn = want.amount
      /\ tx.minOut = w.minimum /\ tx.payerIsUser /\ tx.recipient \in {Wallets!Wallet, Self}
      /\ tx.path = <<Bridged, Usdc>> /\ w.recipient = Wallets!Wallet /\ w.tokenOut = Usdc
      /\ w.minimum * 10000 >= w.output * 9950 - 10000
      /\ tx.permit = permit /\ (permit # <<>> => permit[1].signer = Wallets!Wallet)
  BY DEF Wallets!ValidBridgedTx, Wallets!BridgedQuoteMatches, Wallets!Protected
<1>2. tx.path[Len(tx.path)] = Usdc
  BY <1>1
<1>3. Wallets!NativeSpent(tx) = 0 /\ Wallets!TokensSpent(tx) = want.amount
  BY <1>1 DEF Wallets!NativeSpent, Wallets!TokensSpent
<1>4. QED
  BY <1>1, <1>2, <1>3 DEF Wallets!PaysTheWallet, Wallets!Payee

\* The request of the cases is one of them.
LEMMA SwapIsARequest ==
  Wallets!Swap.address = Wallets!Wallet /\ Wallets!Swap.amount \in Int
  BY DEF Wallets!Swap

\* What the validators of swaps let through spends what was asked for and pays the wallet
\* at least the protected minimum (src/settlement/testnetSwap.js:18, bridgedSwap.js:14).
LEMMA SwapsAreBounded ==
  /\ Wallets!NativeSwapsBounded /\ Wallets!PermitsBounded
  /\ Wallets!BridgedSwapsBounded /\ Wallets!PermittedSwapsBounded
<1>1. Wallets!NativeSwapsBounded
  BY SwapIsARequest, NativeSwapIsBounded DEF Wallets!NativeSwapsBounded
<1>2. Wallets!PermitsBounded
  <2>1. ASSUME NEW p \in Wallets!Permits, Wallets!ValidPermit(p, Wallets!Swap, Wallets!Now)
        PROVE  /\ p.spender = Router /\ p.token = Bridged /\ p.amount = Wallets!Swap.amount
               /\ p.expiration - Wallets!Now <= 31 * 86400
    <3>1. /\ p.spender = Router /\ p.token = Bridged /\ p.amount = Wallets!Swap.amount
          /\ p.expiration <= 1000 + 31 * 86400
      BY <2>1 DEF Wallets!ValidPermit, Wallets!Within, Wallets!Now
    <3>2. p.expiration = 1000 + 86400 \/ p.expiration = 1000 - 1
      <4>1. PICK good, other :
               /\ p \in Wallets!Variants(good, other) /\ "expiration" \in DOMAIN good
               /\ good.expiration = 1000 + 86400 /\ other.expiration = 1000 - 1
        BY DEF Wallets!Permits, Wallets!Now
      <4>2. QED
        BY <4>1, VariantFields
    <3>3. QED
      BY <3>1, <3>2 DEF Wallets!Now
  <2>2. QED
    BY <2>1 DEF Wallets!PermitsBounded
<1>3. Wallets!BridgedSwapsBounded
  BY SwapIsARequest, BridgedSwapIsBounded DEF Wallets!BridgedSwapsBounded
<1>4. Wallets!PermittedSwapsBounded
  <2>1. ASSUME NEW p, NEW tx, NEW w, Wallets!ValidBridgedTx(tx, w, Wallets!Swap, <<p>>, Wallets!Now)
        PROVE  /\ tx.permit[1].signer = Wallets!Wallet /\ Wallets!TokensSpent(tx) = Wallets!Swap.amount
               /\ Wallets!PaysTheWallet(tx, w)
    <3>1. <<p>> # <<>>
      OBVIOUS
    <3>2. QED
      BY <2>1, <3>1, SwapIsARequest, BridgedSwapIsBounded
  <2>2. QED
    BY <2>1 DEF Wallets!PermittedSwapsBounded
<1>5. QED
  BY <1>1, <1>2, <1>3, <1>4

\* Any change of a position that passes, of any amount or part.
LEMMA LpTxIsHarmless ==
  ASSUME NEW tx, NEW input1, input1.address = Wallets!Wallet, input1.position = "own",
         input1.action \in {"create", "increase", "collect", "remove"},
         NEW expected, NEW taken \in Int,
         \A x \in DOMAIN tx.calls : tx.calls[x].min0 \in Int /\ tx.calls[x].amount0 \in Int,
         input1.action = "remove" => expected.liquidity = taken /\ expected.amount0 = taken,
         Wallets!ValidLpTx(tx, input1, expected, Wallets!Now)
  PROVE  Wallets!LpHarmless(tx, input1, taken)
<1> DEFINE C == tx.calls
<1>1. /\ input1.address = Wallets!Wallet /\ input1.position = "own"
      /\ input1.action \in {"create", "increase", "collect", "remove"}
  OBVIOUS
<1>2. /\ [x \in DOMAIN C |-> C[x].name] = Wallets!LpCalls(input1.action)
      /\ \A x \in DOMAIN C : Wallets!ValidLpCall(C[x], input1, expected, Wallets!Now)
  BY DEF Wallets!ValidLpTx
<1>3. /\ input1.action = "create" => Wallets!LpCalls(input1.action) = <<"mint">>
      /\ input1.action = "increase" => Wallets!LpCalls(input1.action) = <<"increase">>
      /\ input1.action = "collect" => Wallets!LpCalls(input1.action) = <<"collect">>
      /\ input1.action = "remove" => Wallets!LpCalls(input1.action) = <<"decrease", "collect">>
  BY DEF Wallets!LpCalls
<1> HIDE DEF C
<1>4. PICK f : f = [x \in DOMAIN C |-> C[x].name]
  OBVIOUS
<1>5. /\ f \in {<<"mint">>, <<"increase">>, <<"collect">>, <<"decrease", "collect">>}
      /\ input1.action # "remove" => f # <<"decrease", "collect">>
      /\ DOMAIN f = DOMAIN C /\ \A x \in DOMAIN C : f[x] = C[x].name
  <2>1. \A x, y : <<x>> # <<"decrease", "collect">>
    OBVIOUS
  <2>2. QED
    BY <1>1, <1>2, <1>3, <1>4, <2>1
<1>6. \A x \in DOMAIN C : C[x].name = "decrease" => input1.action = "remove"
  <2>1. \A x \in DOMAIN C : C[x].name = "decrease" => f = <<"decrease", "collect">>
    BY <1>5
  <2>2. QED
    BY <1>5, <2>1
<1>7. C[Len(C)].name # "decrease"
  <2>1. \/ DOMAIN C = 1..1 /\ f[1] # "decrease"
        \/ DOMAIN C = 1..2 /\ f[2] # "decrease"
    BY <1>5
  <2>2. ASSUME NEW n \in {1, 2}, DOMAIN C = 1..n, f[n] # "decrease" PROVE C[Len(C)].name # "decrease"
    <3>1. Len(C) = n
      BY <2>2
    <3>2. n \in DOMAIN C
      BY <2>2
    <3>3. QED
      BY <1>5, <2>2, <3>1, <3>2
  <2>3. QED
    BY <2>1, <2>2
<1>8. ASSUME NEW x \in DOMAIN C
      PROVE  /\ C[x].name = "mint" \/ C[x].position = "own"
             /\ C[x].name \in {"mint", "collect"} => C[x].recipient = Wallets!Wallet
             /\ C[x].name \in {"mint", "increase"} =>
                   /\ C[x].amount1 <= input1.amount /\ C[x].amount0 <= 1000000
                   /\ C[x].min0 * 1000 >= C[x].amount0 * 995 - 1000
             /\ C[x].name = "decrease" =>
                   C[x].liquidity = taken /\ C[x].min0 * 1000 >= taken * 995 - 1000
             /\ C[x].name # "collect" => C[x].deadline <= Wallets!Now + 900
  <2>1. PICK c1 : c1 = C[x]
    OBVIOUS
  <2>2. Wallets!ValidLpCall(c1, input1, expected, Wallets!Now) /\ c1.min0 \in Int /\ c1.amount0 \in Int
    BY <1>2, <1>8, <2>1 DEF C
  <2>3. /\ c1.name = "mint" \/ c1.position = "own"
        /\ c1.name \in {"mint", "collect"} => c1.recipient = Wallets!Wallet
    BY <1>1, <2>2 DEF Wallets!ValidLpCall
  <2>4. /\ c1.name \in {"mint", "increase"} =>
             c1.amount1 <= input1.amount /\ c1.amount0 <= 1000000 /\ c1.min0 >= (c1.amount0 * 995) \div 1000
        /\ c1.name = "decrease" =>
             c1.liquidity = expected.liquidity /\ c1.min0 >= (expected.amount0 * 995) \div 1000
        /\ c1.name # "collect" => c1.deadline <= Wallets!Now + 900
    BY <2>2 DEF Wallets!ValidLpCall, Wallets!Minimums, Wallets!Within
  <2>5. c1.min0 >= (c1.amount0 * 995) \div 1000 => c1.min0 * 1000 >= c1.amount0 * 995 - 1000
    BY <2>2, HalfPercent
  <2>6. c1.name = "decrease" => c1.liquidity = taken /\ c1.min0 * 1000 >= taken * 995 - 1000
    <3>1. c1.name = "decrease" => expected.liquidity = taken /\ expected.amount0 = taken
      BY <1>6, <1>8, <2>1
    <3>2. c1.min0 >= (taken * 995) \div 1000 => c1.min0 * 1000 >= taken * 995 - 1000
      BY <2>2, HalfPercent
    <3>3. QED
      BY <2>4, <3>1, <3>2
  <2>7. QED
    BY <2>1, <2>3, <2>4, <2>5, <2>6
<1>9. QED
  BY <1>7, <1>8 DEF C, Wallets!LpHarmless

\* What validateLpTransaction lets through spends no more than the request and returns no
\* less than its minimums (src/settlement/liquidity.js:44).
LEMMA LiquidityIsBounded == Wallets!LiquidityBounded
<1>1. \A name : \A x \in Wallets!LpCallsOf(name) \cup {Wallets!Good(name)} :
          x.min0 \in Int /\ x.amount0 \in Int
  <2>1. \A name, x : x \in Wallets!LpCallsOf(name) => x.min0 \in Int /\ x.amount0 \in Int
    <3> SUFFICES ASSUME NEW name, NEW x \in Wallets!LpCallsOf(name) PROVE x.min0 \in Int /\ x.amount0 \in Int
      OBVIOUS
    <3>1. PICK good, other :
             /\ x \in Wallets!Variants(good, other) /\ {"min0", "amount0"} \subseteq DOMAIN good
             /\ {good.min0, good.amount0, other.min0, other.amount0} \subseteq Int
      BY DEF Wallets!LpCallsOf, Wallets!Good
    <3>2. QED
      BY <3>1, VariantFields
  <2>2. \A name : Wallets!Good(name).min0 \in Int /\ Wallets!Good(name).amount0 \in Int
    BY DEF Wallets!Good
  <2>3. QED
    BY <2>1, <2>2
<1>2. ASSUME NEW kind, NEW tx \in Wallets!LpTxs(kind)
      PROVE  \A x \in DOMAIN tx.calls : tx.calls[x].min0 \in Int /\ tx.calls[x].amount0 \in Int
  <2>1. \/ \E name : \E x \in Wallets!LpCallsOf(name) : tx = Wallets!LpTx(<<x>>)
        \/ \E n1, n2 : \E x \in Wallets!LpCallsOf(n1) \cup {Wallets!Good(n1)},
                          y \in Wallets!LpCallsOf(n2) \cup {Wallets!Good(n2)} : tx = Wallets!LpTx(<<x, y>>)
    BY DEF Wallets!LpTxs
  <2>2. \A x : Wallets!LpTx(x).calls = x
    BY DEF Wallets!LpTx
  <2>3. CASE \E name : \E x \in Wallets!LpCallsOf(name) : tx = Wallets!LpTx(<<x>>)
    <3>1. PICK x : tx.calls = <<x>> /\ x.min0 \in Int /\ x.amount0 \in Int
      BY <1>1, <2>2, <2>3
    <3>2. QED
      BY <3>1
  <2>4. CASE \E n1, n2 : \E x \in Wallets!LpCallsOf(n1) \cup {Wallets!Good(n1)},
                            y \in Wallets!LpCallsOf(n2) \cup {Wallets!Good(n2)} : tx = Wallets!LpTx(<<x, y>>)
    <3>1. PICK x, y : /\ tx.calls = <<x, y>> /\ x.min0 \in Int /\ x.amount0 \in Int
                      /\ y.min0 \in Int /\ y.amount0 \in Int
      BY <1>1, <2>2, <2>4
    <3>2. QED
      BY <3>1
  <2>5. QED
    BY <2>1, <2>3, <2>4
<1>3. ASSUME NEW input1 \in Wallets!LpInputs, NEW place \in Wallets!Positions
      PROVE  /\ Wallets!Share(input1, place) = place.liquidity \div 2
             /\ place.liquidity \div 2 \in Int
  <2>1. place.liquidity = 40001 \/ place.liquidity = 0
    <3>1. PICK good, other :
             /\ place \in Wallets!Variants(good, other) /\ "liquidity" \in DOMAIN good
             /\ good.liquidity = 40001 /\ other.liquidity = 0
      BY DEF Wallets!Positions
    <3>2. QED
      BY <3>1, VariantFields
  <2>2. input1.percentage = 50
    BY DEF Wallets!LpInputs
  <2>3. (40001 * 50) \div 100 = 40001 \div 2 /\ (0 * 50) \div 100 = 0 \div 2
    OBVIOUS
  <2>4. QED
    BY <2>1, <2>2, <2>3 DEF Wallets!Share
<1>4. ASSUME NEW input1 \in Wallets!LpInputs, NEW place \in Wallets!Positions,
             NEW tx \in Wallets!LpTxs(input1.action), NEW expected,
             input1.action = "remove" => expected = Wallets!RemoveExpected(input1, place),
             Wallets!ValidLpTx(tx, input1, expected, Wallets!Now)
      PROVE  Wallets!LpHarmless(tx, input1, place.liquidity \div 2)
  <2>1. input1.action = "remove" =>
          expected.liquidity = place.liquidity \div 2 /\ expected.amount0 = place.liquidity \div 2
    BY <1>3, <1>4 DEF Wallets!RemoveExpected
  <2>2. /\ input1.address = Wallets!Wallet /\ input1.position = "own"
        /\ input1.action \in {"create", "increase", "collect", "remove"}
    BY DEF Wallets!LpInputs
  <2>3. QED
    BY <1>2, <1>3, <1>4, <2>1, <2>2, LpTxIsHarmless
<1>5. QED
  BY <1>4 DEF Wallets!LiquidityBounded

\* A number of tinybars rounded up covers the fee, by less than one.
LEMMA GasCovers ==
  ASSUME NEW fee \in Nat
  PROVE  Wallets!GasTinybars(fee) * WeiPerTinybar \in fee..(fee + WeiPerTinybar - 1)
<1>1. WeiPerTinybar \in Nat \ {0}
  BY DEF Wallets!SettlementAssumption
<1>2. \A n \in Nat, w \in Nat \ {0} : (n \div w) * w <= n /\ n < (n \div w) * w + w /\ n \div w \in Nat
  OBVIOUS
<1>3. PICK n \in Nat : n = fee + WeiPerTinybar - 1
  BY <1>1
<1>4. PICK g \in Nat : g = n \div WeiPerTinybar
  BY <1>1, <1>2
<1>5. g * WeiPerTinybar \in Nat /\ g * WeiPerTinybar <= n /\ n < g * WeiPerTinybar + WeiPerTinybar
  BY <1>1, <1>2, <1>4
<1>6. Wallets!GasTinybars(fee) = g
  BY <1>3, <1>4 DEF Wallets!GasTinybars
<1>7. QED
  BY <1>1, <1>3, <1>5, <1>6

\* A corrected bridge transfer is the one asked for, of any amount and at any fee.
LEMMA TransferIsBounded ==
  ASSUME NEW cents \in Nat, NEW fee \in Nat, NEW want, want.cents = cents,
         NEW tx, tx = [x \in {"to", "payable", "recipient", "amount", "gasValue"} |-> tx[x]],
         Wallets!PluginBridge(tx, want, fee)
  PROVE  /\ Wallets!Corrected(tx).recipient = want.recipient
         /\ Wallets!Corrected(tx).amount = cents * 10000
         /\ Wallets!Corrected(tx).gasValue = Wallets!Corrected(tx).payable
         /\ Wallets!Corrected(tx).gasValue * WeiPerTinybar \in fee..(fee + WeiPerTinybar - 1)
<1>1. /\ tx.recipient = want.recipient /\ tx.amount = cents * 10000
      /\ tx.payable = Wallets!GasTinybars(fee)
  BY DEF Wallets!PluginBridge, Wallets!BridgeUnits
<1>2. /\ Wallets!Corrected(tx).recipient = tx.recipient /\ Wallets!Corrected(tx).amount = tx.amount
      /\ Wallets!Corrected(tx).gasValue = tx.payable /\ Wallets!Corrected(tx).payable = tx.payable
  BY DEF Wallets!Corrected
<1>3. QED
  BY <1>1, <1>2, GasCovers

\* A corrected bridge transaction hands out the amount asked for and the gas quoted
\* (src/settlement/axelarPlugin.js:23).
LEMMA BridgeIsBounded == Wallets!BridgeBounded
<1>1. ASSUME NEW tx \in Wallets!PluginTxs, Wallets!PluginBridge(tx, Wallets!Bridging, Wallets!Fee)
      PROVE  LET sent1 == Wallets!Corrected(tx) IN
             /\ sent1.recipient = Wallets!Wallet /\ sent1.amount = 70000
             /\ sent1.gasValue = sent1.payable
             /\ sent1.gasValue * WeiPerTinybar \in Wallets!Fee..(Wallets!Fee + WeiPerTinybar - 1)
  <2>1. tx = [x \in {"to", "payable", "recipient", "amount", "gasValue"} |-> tx[x]]
    <3>1. PICK good, other :
             /\ tx \in Wallets!Variants(good, other)
             /\ DOMAIN good = {"to", "payable", "recipient", "amount", "gasValue"}
      BY DEF Wallets!PluginTxs
    <3>2. QED
      BY <3>1, VariantFields
  <2>2. /\ Wallets!Bridging.cents = 7 /\ Wallets!Bridging.recipient = Wallets!Wallet
        /\ Wallets!Fee = 25 /\ 7 * 10000 = 70000
    BY DEF Wallets!Bridging, Wallets!Fee
  <2>3. PICK k \in Nat : k = 7 /\ Wallets!Bridging.cents = k
    BY <2>2
  <2>4. PICK fee \in Nat : fee = Wallets!Fee
    BY <2>2
  <2>5. /\ Wallets!Corrected(tx).recipient = Wallets!Bridging.recipient
        /\ Wallets!Corrected(tx).amount = k * 10000
        /\ Wallets!Corrected(tx).gasValue = Wallets!Corrected(tx).payable
        /\ Wallets!Corrected(tx).gasValue * WeiPerTinybar
             \in fee..(fee + WeiPerTinybar - 1)
    BY <1>1, <2>1, <2>3, <2>4, TransferIsBounded
  <2>6. QED
    BY <2>2, <2>3, <2>4, <2>5, SMT
<1>2. ASSUME NEW event, NEW arrival, Wallets!BridgeSource(event, Wallets!Bridging)
      PROVE  /\ Wallets!BridgeStatus(event, <<arrival>>, <<>>, Wallets!Bridging) = "delivered" =>
                   arrival.ok /\ arrival.recipient = Wallets!Wallet /\ arrival.amount = 70000
                     /\ arrival.sender = event.sender
             /\ Wallets!BridgeStatus(event, <<>>, <<arrival>>, Wallets!Bridging) = "ready-to-deliver" =>
                   arrival.recipient = Wallets!Wallet /\ arrival.amount = 70000
                     /\ arrival.sender = event.sender
  <2>1. event.amount = 70000 /\ Wallets!Bridging.recipient = Wallets!Wallet
    BY <1>2 DEF Wallets!BridgeSource, Wallets!Bridging, Wallets!BridgeUnits
  <2>2. Wallets!SameTransfer(arrival, event, Wallets!Bridging) =>
          arrival.recipient = Wallets!Wallet /\ arrival.amount = 70000 /\ arrival.sender = event.sender
    BY <2>1 DEF Wallets!SameTransfer
  <2>3. <<arrival>> # <<>> /\ <<arrival>>[1] = arrival
    OBVIOUS
  <2>4. Wallets!BridgeStatus(event, <<arrival>>, <<>>, Wallets!Bridging) = "delivered" =>
          arrival.ok /\ Wallets!SameTransfer(arrival, event, Wallets!Bridging)
    BY <2>3 DEF Wallets!BridgeStatus
  <2>5. Wallets!BridgeStatus(event, <<>>, <<arrival>>, Wallets!Bridging) = "ready-to-deliver" =>
          Wallets!SameTransfer(arrival, event, Wallets!Bridging)
    BY <2>3 DEF Wallets!BridgeStatus
  <2>6. QED
    BY <2>2, <2>4, <2>5
<1>3. QED
  BY <1>1, <1>2 DEF Wallets!BridgeBounded

\* The validators together.
LEMMA WalletsAreSafe == Wallets!HandedOutIsBounded
  BY SwapsAreBounded, LiquidityIsBounded, BridgeIsBounded DEF Wallets!HandedOutIsBounded

\* The validators of src/settlement, of requests of any amount and part, quotes, positions,
\* fees and records whatever: a swap that passes spends exactly what was asked for and pays
\* the wallet within half a percent of the quote; a change of a position touches the
\* wallet's own, takes no more than was asked, and collects what it frees; and a bridge
\* transfer is the one asked for, its gas paid in full and by less than a tinybar more.
THEOREM AnyTransactionIsBounded ==
  /\ \A tx, w, want :
        /\ want.address = Wallets!Wallet /\ want.amount \in Int
        /\ Wallets!ValidSwap(tx, w, want, Wallets!Now)
        => /\ Wallets!NativeSpent(tx) = want.amount /\ Wallets!TokensSpent(tx) = 0
           /\ Wallets!LeftInRouter(tx) = 0 /\ Wallets!PaysTheWallet(tx, w)
  /\ \A tx, w, want, permit :
        /\ want.address = Wallets!Wallet
        /\ Wallets!ValidBridgedTx(tx, w, want, permit, Wallets!Now)
        => /\ Wallets!NativeSpent(tx) = 0 /\ Wallets!TokensSpent(tx) = want.amount
           /\ Wallets!PaysTheWallet(tx, w)
           /\ permit # <<>> => tx.permit[1].signer = Wallets!Wallet
  /\ \A tx, want, place, offered :
        LET expected == IF want.action \in {"create", "increase"}
                        THEN Wallets!AddExpected(want, offered) ELSE Wallets!RemoveExpected(want, place)
        IN  /\ want.address = Wallets!Wallet /\ want.position = "own"
            /\ want.action \in {"create", "increase", "collect", "remove"}
            /\ place.liquidity \in Nat /\ want.percentage \in Nat
            /\ \A x \in DOMAIN tx.calls : tx.calls[x].min0 \in Int /\ tx.calls[x].amount0 \in Int
            /\ Wallets!ValidLpTx(tx, want, expected, Wallets!Now)
            => Wallets!LpHarmless(tx, want, Wallets!Share(want, place))
  /\ \A cents \in Nat, fee \in Nat : \A tx :
        /\ tx = [x \in {"to", "payable", "recipient", "amount", "gasValue"} |-> tx[x]]
        /\ Wallets!PluginBridge(tx, [cents |-> cents, recipient |-> Wallets!Wallet], fee)
        => /\ Wallets!Corrected(tx).recipient = Wallets!Wallet
           /\ Wallets!Corrected(tx).amount = cents * 10000
           /\ Wallets!Corrected(tx).gasValue = Wallets!Corrected(tx).payable
           /\ Wallets!Corrected(tx).gasValue * WeiPerTinybar \in fee..(fee + WeiPerTinybar - 1)
<1>1. ASSUME NEW tx, NEW want, NEW place, NEW expected,
             want.address = Wallets!Wallet, want.position = "own",
             want.action \in {"create", "increase", "collect", "remove"},
             place.liquidity \in Nat, want.percentage \in Nat,
             want.action = "remove" => expected = Wallets!RemoveExpected(want, place),
             \A x \in DOMAIN tx.calls : tx.calls[x].min0 \in Int /\ tx.calls[x].amount0 \in Int,
             Wallets!ValidLpTx(tx, want, expected, Wallets!Now)
      PROVE  Wallets!LpHarmless(tx, want, Wallets!Share(want, place))
  <2>1. PICK taken \in Int : taken = Wallets!Share(want, place)
    <3>1. PICK n \in Nat, m \in Nat : n = place.liquidity /\ m = want.percentage
      BY <1>1
    <3>2. n * m \in Nat
      OBVIOUS
    <3>3. (n * m) \div 100 \in Int
      BY <3>2
    <3>4. QED
      BY <3>1, <3>3 DEF Wallets!Share
  <2>2. want.action = "remove" => expected.liquidity = taken /\ expected.amount0 = taken
    BY <1>1, <2>1 DEF Wallets!RemoveExpected
  <2>3. QED
    BY <1>1, <2>1, <2>2, LpTxIsHarmless
<1>2. ASSUME NEW cents \in Nat, NEW fee \in Nat, NEW tx,
             tx = [x \in {"to", "payable", "recipient", "amount", "gasValue"} |-> tx[x]],
             Wallets!PluginBridge(tx, [cents |-> cents, recipient |-> Wallets!Wallet], fee)
      PROVE  /\ Wallets!Corrected(tx).recipient = Wallets!Wallet
             /\ Wallets!Corrected(tx).amount = cents * 10000
             /\ Wallets!Corrected(tx).gasValue = Wallets!Corrected(tx).payable
             /\ Wallets!Corrected(tx).gasValue * WeiPerTinybar \in fee..(fee + WeiPerTinybar - 1)
  <2>1. PICK want : want = [cents |-> cents, recipient |-> Wallets!Wallet]
    OBVIOUS
  <2>2. want.cents = cents /\ want.recipient = Wallets!Wallet
    BY <2>1
  <2>3. QED
    BY <1>2, <2>1, <2>2, TransferIsBounded
<1>3. ASSUME NEW tx, NEW w, NEW want, want.address = Wallets!Wallet, want.amount \in Int,
             Wallets!ValidSwap(tx, w, want, Wallets!Now)
      PROVE  /\ Wallets!NativeSpent(tx) = want.amount /\ Wallets!TokensSpent(tx) = 0
             /\ Wallets!LeftInRouter(tx) = 0 /\ Wallets!PaysTheWallet(tx, w)
  BY <1>3, NativeSwapIsBounded
<1>4. ASSUME NEW tx, NEW w, NEW want, NEW permit, want.address = Wallets!Wallet,
             Wallets!ValidBridgedTx(tx, w, want, permit, Wallets!Now)
      PROVE  /\ Wallets!NativeSpent(tx) = 0 /\ Wallets!TokensSpent(tx) = want.amount
             /\ Wallets!PaysTheWallet(tx, w)
             /\ permit # <<>> => tx.permit[1].signer = Wallets!Wallet
  BY <1>4, BridgedSwapIsBounded
<1>5. \A tx, want, place, offered :
        LET expected == IF want.action \in {"create", "increase"}
                        THEN Wallets!AddExpected(want, offered) ELSE Wallets!RemoveExpected(want, place)
        IN  /\ want.address = Wallets!Wallet /\ want.position = "own"
            /\ want.action \in {"create", "increase", "collect", "remove"}
            /\ place.liquidity \in Nat /\ want.percentage \in Nat
            /\ \A x \in DOMAIN tx.calls : tx.calls[x].min0 \in Int /\ tx.calls[x].amount0 \in Int
            /\ Wallets!ValidLpTx(tx, want, expected, Wallets!Now)
            => Wallets!LpHarmless(tx, want, Wallets!Share(want, place))
  BY <1>1
<1>6. QED
  BY <1>2, <1>3, <1>4, <1>5

-----------------------------------------------------------------------------
(* What the server admits *)

\* The limits and spans are naturals, those that must let something through positive.
LEMMA BudgetsNumbers ==
  /\ Minute \in Nat \ {0} /\ Hour \in Nat \ {0} /\ Day \in Nat \ {0} /\ MaxTime \in Nat \ {0}
  /\ DraftLife \in Nat \ {0} /\ Gap \in Nat \ {0}
  /\ PerVisitor \in Nat /\ PerDay \in Nat /\ UsdPerDay \in Nat /\ AiPerDay \in Nat
  /\ ChatPerMinute \in Nat /\ ChatKeys \in Nat
  /\ WindowCap \in Nat \ {0} /\ MaxActive \in Nat \ {0} /\ DraftCap \in Nat \ {0}
  /\ Amounts \subseteq Nat
  BY DEF Budgets!BudgetsAssumption

\* One more member, and some of the members.
LEMMA OneMore ==
  ASSUME NEW S, NEW x, IsFiniteSet(S)
  PROVE  /\ IsFiniteSet(S \cup {x}) /\ Cardinality(S) \in Nat /\ Cardinality(S \cup {x}) \in Nat
         /\ Cardinality(S \cup {x}) <= Cardinality(S) + 1
<1>1. IsFiniteSet(S \cup {x}) /\ Cardinality(S) \in Nat /\ Cardinality(S \cup {x}) \in Nat
  BY FS_AddElement, FS_CardinalityType
<1>2. Cardinality(S \cup {x}) = Cardinality(S) \/ Cardinality(S \cup {x}) = Cardinality(S) + 1
  BY FS_AddElement
<1>3. QED
  BY <1>1, <1>2

\* Some members of a finite set are no more than all of them.
LEMMA SomeOf ==
  ASSUME NEW S, NEW T, IsFiniteSet(S), T \subseteq S
  PROVE  /\ IsFiniteSet(T) /\ Cardinality(S) \in Nat /\ Cardinality(T) \in Nat
         /\ Cardinality(T) <= Cardinality(S)
  BY FS_Subset, FS_CardinalityType

\* An event of so many dollars adds at most that to the total; fewer events total no more.
LEMMA TotalOfOneMore ==
  ASSUME NEW S, NEW x, IsFiniteSet(Budgets!Dollars(S)), x.usd \in Nat
  PROVE  /\ IsFiniteSet(Budgets!Dollars(S \cup {x}))
         /\ Budgets!Total(S) \in Nat /\ Budgets!Total(S \cup {x}) \in Nat
         /\ Budgets!Total(S \cup {x}) <= Budgets!Total(S) + x.usd
<1>1. PICK A, B : A = Budgets!Dollars(S) /\ B = {x} \X (1..x.usd)
  OBVIOUS
<1>2. Budgets!Dollars(S \cup {x}) = A \cup B
  BY <1>1 DEF Budgets!Dollars
<1>3. IsFiniteSet({x}) /\ Cardinality({x}) = 1 /\ IsFiniteSet(1..x.usd) /\ Cardinality(1..x.usd) = x.usd
  <2>1. PICK u \in Nat : u = x.usd
    OBVIOUS
  <2>2. IsFiniteSet(1..u) /\ Cardinality(1..u) = IF 1 > u THEN 0 ELSE u - 1 + 1
    BY FS_Interval
  <2>3. Cardinality(1..u) = u
    BY <2>2
  <2>4. QED
    BY <2>1, <2>2, <2>3, FS_Singleton
<1>4. IsFiniteSet(B) /\ Cardinality(B) = x.usd
  <2>1. IsFiniteSet(B) /\ Cardinality(B) = Cardinality({x}) * Cardinality(1..x.usd)
    BY <1>1, <1>3, FS_Product
  <2>2. QED
    BY <1>3, <2>1
<1>5. IsFiniteSet(A \cup B) /\ Cardinality(A \cup B) = Cardinality(A) + Cardinality(B) - Cardinality(A \cap B)
  BY <1>1, <1>4, FS_Union
<1>6. Cardinality(A) \in Nat /\ Cardinality(A \cap B) \in Nat /\ Cardinality(A \cup B) \in Nat
  BY <1>1, <1>5, FS_CardinalityType, FS_Intersection
<1>7. Cardinality(A \cup B) <= Cardinality(A) + x.usd
  BY <1>4, <1>5, <1>6
<1>8. QED
  BY <1>1, <1>2, <1>5, <1>6, <1>7, BudgetsSets DEF Budgets!Total

\* Some admissions spend no more than all of them.
LEMMA TotalOfSome ==
  ASSUME NEW S, NEW T, IsFiniteSet(Budgets!Dollars(S)), T \subseteq S
  PROVE  /\ IsFiniteSet(Budgets!Dollars(T))
         /\ Budgets!Total(S) \in Nat /\ Budgets!Total(T) \in Nat
         /\ Budgets!Total(T) <= Budgets!Total(S)
<1>1. Budgets!Dollars(T) \subseteq Budgets!Dollars(S)
  BY DEF Budgets!Dollars
<1>2. QED
  BY <1>1, SomeOf, BudgetsSets DEF Budgets!Total

\* The empty log, as the server and its restarts find it.
LEMMA NothingAdmitted ==
  /\ IsFiniteSet({}) /\ Cardinality({}) = 0
  /\ Budgets!Dollars({}) = {} /\ Budgets!Total({}) = 0
  BY FS_EmptySet, BudgetsSets DEF Budgets!Dollars, Budgets!Total

-----------------------------------------------------------------------------
\* The steps, by what they do to what was admitted.
Quiet == UNCHANGED <<clock, service, book, journal, log, chats, start, count>>

\* The ends of slow work change no books and admit nothing.
LEMMA QuietSteps ==
  ASSUME \/ Budgets!Interpret \/ Budgets!Finish
         \/ \E good \in BOOLEAN : Budgets!Prepared(good)
  PROVE  Quiet
  BY DEF Quiet, Budgets!Interpret, Budgets!Finish, Budgets!Prepared

\* The calls of a fixed window.
WindowStep ==
  \/ Budgets!SwapQuote \/ (\E k \in Budgets!Kinds : Budgets!LiquidityCall(k))
  \/ Budgets!CrossAssetQuote \/ Budgets!PrepareBridged \/ Budgets!BuildBridged

\* A step is a quiet one, or one of the few that a budget notices.
LEMMA StepIs ==
  ASSUME [Budgets!Next]_b
  PROVE  \/ Quiet \/ Budgets!Tick \/ Budgets!Restart
         \/ \E w \in Visitors, usd \in Amounts : Budgets!Admit(w, usd)
         \/ \E w \in Visitors : Budgets!ChatAdmit(w)
         \/ Budgets!ReserveAi \/ Budgets!LoseJournal
         \/ WindowStep \/ Budgets!SearchPlaces
<1>1. CASE Budgets!Next
  BY <1>1, QuietSteps DEF Budgets!Next, WindowStep
<1>2. CASE UNCHANGED b
  BY <1>2 DEF b, Quiet
<1>3. QED
  BY <1>1, <1>2

\* The services, the ones with a journal and the ones with a window, by name.
LEMMA ServicesAre ==
  /\ Budgets!Services = {"writes", "ai", "swap", "bridged", "liquidity", "quote", "chat", "places"}
  /\ Budgets!Durable = {"writes", "ai"}
  /\ Budgets!Windowed = {"swap", "bridged", "liquidity", "quote"}
  /\ Budgets!Kinds = {"call", "read"}
  BY DEF Budgets!Services, Budgets!Durable, Budgets!Windowed, Budgets!Kinds

\* Which services a step is of.
LEMMA StepOfService ==
  /\ \A w, usd : Budgets!Admit(w, usd) => service = "writes"
  /\ \A w : Budgets!ChatAdmit(w) => service = "chat"
  /\ Budgets!ReserveAi \/ Budgets!LoseJournal => service = "ai"
  /\ WindowStep => service \in Budgets!Windowed
  /\ Budgets!SearchPlaces => service = "places"
<1>1. WindowStep => service \in Budgets!Windowed
  BY ServicesAre DEF WindowStep, Budgets!SwapQuote, Budgets!LiquidityCall, Budgets!CrossAssetQuote,
     Budgets!PrepareBridged, Budgets!BuildBridged
<1>2. QED
  BY <1>1 DEF Budgets!Admit, Budgets!ChatAdmit, Budgets!ReserveAi, Budgets!LoseJournal,
     Budgets!SearchPlaces

\* A call of a fixed window: one kind, charged or not, and outside only if it is charged and
\* the window has room.
Called(k, n, begins) ==
  /\ k \in Budgets!Kinds /\ n \in {0, 1}
  /\ Budgets!Call(k, n, begins)
  /\ begins => n = 1 /\ Budgets!Within(k) /\ Budgets!Free

\* Every admission of a windowed service is a charge of its window or a refusal.
LEMMA WindowStepIsCall ==
  ASSUME WindowStep PROVE \E k, n, begins : Called(k, n, begins)
<1> USE ServicesAre DEF Called
<1>1. CASE Budgets!SwapQuote
  <2>1. Called("call", IF Budgets!Free /\ Budgets!Within("call") THEN 1 ELSE 0, Budgets!Free /\ Budgets!Within("call"))
    BY <1>1 DEF Budgets!SwapQuote
  <2>2. QED
    BY <2>1
<1>2. ASSUME NEW k \in Budgets!Kinds, Budgets!LiquidityCall(k) PROVE \E n, begins : Called(k, n, begins)
  <2>1. Called(k, IF Budgets!Free THEN 1 ELSE 0, Budgets!Free /\ Budgets!Within(k))
    BY <1>2 DEF Budgets!LiquidityCall
  <2>2. QED
    BY <2>1
<1>3. CASE Budgets!CrossAssetQuote
  <2>1. Called("call", IF Budgets!Within("call") THEN 1 ELSE 0, Budgets!Within("call"))
    BY <1>3 DEF Budgets!CrossAssetQuote
  <2>2. QED
    BY <2>1
<1>4. CASE Budgets!PrepareBridged
  <2>1. PICK flag : flag \in BOOLEAN /\ Called("call", 1, flag)
    BY <1>4 DEF Budgets!PrepareBridged
  <2>2. QED
    BY <2>1
<1>5. CASE Budgets!BuildBridged
  <2>1. Called("call", 1, Budgets!Free /\ Budgets!Within("call"))
    BY <1>5 DEF Budgets!BuildBridged
  <2>2. QED
    BY <2>1
<1>6. QED
  BY <1>1, <1>2, <1>3, <1>4, <1>5 DEF WindowStep

-----------------------------------------------------------------------------
\* Types, and the caps of what is in flight.

\* What a window counts is a count.
LEMMA SpentIsCount ==
  ASSUME Budgets!TypeOK
  PROVE  \A k \in Budgets!Kinds : Budgets!Spent(k) \in 0..(WindowCap + 1)
<1>1. count \in [Budgets!Kinds -> 0..(WindowCap + 1)]
  BY DEF Budgets!TypeOK
<1>2. 0 \in 0..(WindowCap + 1)
  BY BudgetsNumbers
<1>3. QED
  BY <1>1, <1>2 DEF Budgets!Spent

\* The window after a call: its start and what it has charged.
LEMMA ChargeIsTyped ==
  ASSUME Budgets!TypeOK, NEW k, NEW n, NEW begins, Called(k, n, begins)
  PROVE  /\ start' \in Nat /\ count' \in [Budgets!Kinds -> 0..(WindowCap + 1)]
         /\ start' = (IF Budgets!Ended THEN clock ELSE start)
         /\ \A j \in Budgets!Kinds : count'[j] = Budgets!Spent(j) + IF j = k THEN n ELSE 0
<1>1. /\ k \in Budgets!Kinds /\ n \in {0, 1} /\ Budgets!Spent(k) <= WindowCap
      /\ start' = (IF Budgets!Ended THEN clock ELSE start)
      /\ count' = [j \in Budgets!Kinds |-> Budgets!Spent(j) + IF j = k THEN n ELSE 0]
  BY DEF Called, Budgets!Call, Budgets!Charge
<1>2. \A j \in Budgets!Kinds : Budgets!Spent(j) \in 0..(WindowCap + 1)
  BY SpentIsCount
<1>3. ASSUME NEW j \in Budgets!Kinds
      PROVE  Budgets!Spent(j) + (IF j = k THEN n ELSE 0) \in 0..(WindowCap + 1)
  <2>1. PICK m : m = Budgets!Spent(j)
    OBVIOUS
  <2>2. m \in 0..(WindowCap + 1) /\ (j = k => m <= WindowCap)
    BY <1>1, <1>2, <2>1
  <2>3. m + n \in 0..(WindowCap + 1) \/ (j # k /\ m + 0 \in 0..(WindowCap + 1))
    BY <1>1, <2>2, BudgetsNumbers
  <2>4. m + 0 \in 0..(WindowCap + 1)
    BY <2>2, BudgetsNumbers
  <2>5. QED
    BY <2>1, <2>3, <2>4
<1>4. start \in Nat /\ clock \in Nat
  BY BudgetsNumbers DEF Budgets!TypeOK
<1>5. QED
  BY <1>1, <1>3, <1>4

\* The numbers of CallsFit.
LEMMA CallsAre ==
  ASSUME Budgets!TypeOK, Budgets!CallsFit
  PROVE  /\ clock \in Nat /\ start \in Nat
         /\ active \in Nat /\ waiting \in Nat /\ preparing \in Nat /\ active <= MaxActive
         /\ waiting + preparing <= active
         /\ IsFiniteSet(drafts) /\ Cardinality(drafts) \in Nat
         /\ Cardinality(drafts) + preparing < DraftCap + MaxActive
<1>1. /\ clock \in 0..MaxTime /\ start \in Nat
      /\ active \in 0..MaxActive /\ waiting \in 0..MaxActive /\ preparing \in 0..MaxActive
  BY DEF Budgets!TypeOK
<1>2. /\ waiting + preparing <= active /\ IsFiniteSet(drafts)
      /\ Cardinality(drafts) + preparing < DraftCap + MaxActive
  BY BudgetsSets DEF Budgets!CallsFit
<1>3. QED
  BY <1>1, <1>2, BudgetsNumbers, FS_CardinalityType

\* Typed numbers in the form the type invariant has them.
LEMMA InCaps ==
  ASSUME NEW x \in Nat, NEW y \in Nat, NEW z \in Nat, NEW m \in Nat, x <= m, y + z <= x
  PROVE  x \in 0..m /\ y \in 0..m /\ z \in 0..m
  OBVIOUS

\* The other way round, of the next state.
LEMMA CallsKept ==
  ASSUME Budgets!TypeOK,
         clock' \in 0..MaxTime, service' = service, journal' \in {"fresh", "kept", "lost"},
         start' \in Nat, count' \in [Budgets!Kinds -> 0..(WindowCap + 1)],
         active' \in Nat, waiting' \in Nat, preparing' \in Nat, active' <= MaxActive,
         waiting' + preparing' <= active', IsFiniteSet(drafts'),
         Cardinality(drafts') + preparing' < DraftCap + MaxActive
  PROVE  Budgets!TypeOK' /\ Budgets!CallsFit'
<1>1. active' \in 0..MaxActive /\ waiting' \in 0..MaxActive /\ preparing' \in 0..MaxActive
  <2>1. MaxActive \in Nat
    BY BudgetsNumbers
  <2>2. QED
    BY <2>1, InCaps
<1>2. Budgets!TypeOK'
  BY <1>1 DEF Budgets!TypeOK
<1>3. Budgets!CallsFit'
  BY BudgetsSets DEF Budgets!CallsFit
<1>4. QED
  BY <1>2, <1>3

\* The types, and that drafts, active and waiting calls fit each other, are kept.
LEMMA BudgetsTyped ==
  ASSUME Budgets!TypeOK, Budgets!CallsFit, IsFiniteSet(log), [Budgets!Next]_b
  PROVE  Budgets!TypeOK' /\ Budgets!CallsFit'
<1>1. /\ clock \in 0..MaxTime /\ journal \in {"fresh", "kept", "lost"}
      /\ count \in [Budgets!Kinds -> 0..(WindowCap + 1)] /\ start \in Nat
  BY DEF Budgets!TypeOK
<1>2. /\ clock \in Nat /\ active \in Nat /\ waiting \in Nat /\ preparing \in Nat /\ active <= MaxActive
      /\ waiting + preparing <= active /\ IsFiniteSet(drafts) /\ Cardinality(drafts) \in Nat
      /\ Cardinality(drafts) + preparing < DraftCap + MaxActive
  BY CallsAre
<1>3. ASSUME UNCHANGED <<service, journal, active, waiting, preparing, drafts>>,
             clock' \in 0..MaxTime, start' \in Nat, count' \in [Budgets!Kinds -> 0..(WindowCap + 1)]
      PROVE  Budgets!TypeOK' /\ Budgets!CallsFit'
  BY <1>1, <1>2, <1>3, CallsKept
<1>4. CASE Budgets!Tick
  <2>1. clock' = clock + 1 /\ clock < MaxTime /\ UNCHANGED <<service, journal, start, count, active, waiting, preparing, drafts>>
    BY <1>4 DEF Budgets!Tick, Budgets!memory
  <2>2. clock' \in 0..MaxTime
    BY <1>2, <2>1, BudgetsNumbers
  <2>3. QED
    BY <1>1, <1>3, <2>1, <2>2
<1>5. CASE Budgets!Restart
  <2>1. /\ start' = clock /\ count' = [k \in Budgets!Kinds |-> 0] /\ active' = 0 /\ waiting' = 0 /\ preparing' = 0
        /\ drafts' = {} /\ UNCHANGED <<clock, service, journal>>
    BY <1>5 DEF Budgets!Restart
  <2>2. count' \in [Budgets!Kinds -> 0..(WindowCap + 1)]
    <3>1. 0 \in 0..(WindowCap + 1)
      BY BudgetsNumbers
    <3>2. QED
      BY <2>1, <3>1
  <2>3. IsFiniteSet(drafts') /\ Cardinality(drafts') = 0
    BY <2>1, NothingAdmitted
  <2>4. 0 + 0 <= 0 /\ 0 <= MaxActive /\ 0 + 0 < DraftCap + MaxActive /\ 0 \in Nat
    BY BudgetsNumbers
  <2>5. Cardinality(drafts') + preparing' < DraftCap + MaxActive /\ waiting' + preparing' <= active'
        /\ active' <= MaxActive /\ active' \in Nat /\ waiting' \in Nat /\ preparing' \in Nat
    BY <2>1, <2>3, <2>4
  <2>6. QED
    BY <1>1, <1>2, <2>1, <2>2, <2>3, <2>5, CallsKept
<1>6. ASSUME NEW w, NEW usd, Budgets!Admit(w, usd) PROVE Budgets!TypeOK' /\ Budgets!CallsFit'
  BY <1>1, <1>3, <1>6 DEF Budgets!Admit, Budgets!memory
<1>7. ASSUME NEW w, Budgets!ChatAdmit(w) PROVE Budgets!TypeOK' /\ Budgets!CallsFit'
  BY <1>1, <1>3, <1>7 DEF Budgets!ChatAdmit
<1>8. CASE Budgets!Interpret
  <2>1. /\ active < MaxActive /\ active' = active + 1 /\ waiting' = waiting + 1
        /\ UNCHANGED <<clock, service, journal, start, count, preparing, drafts>>
    BY <1>8 DEF Budgets!Interpret
  <2>2. /\ active' \in Nat /\ waiting' \in Nat /\ preparing' \in Nat /\ active' <= MaxActive
        /\ waiting' + preparing' <= active'
    BY <1>2, <2>1, BudgetsNumbers
  <2>3. QED
    BY <1>1, <1>2, <2>1, <2>2, CallsKept
<1>9. CASE Budgets!ReserveAi
  <2>1. /\ waiting > 0 /\ waiting' = waiting - 1 /\ (active' = active \/ active' = active - 1)
        /\ journal' \in {"fresh", "kept", "lost"}
        /\ UNCHANGED <<clock, service, start, count, preparing, drafts>>
    BY <1>1, <1>9 DEF Budgets!ReserveAi
  <2>2. /\ active' \in Nat /\ waiting' \in Nat /\ preparing' \in Nat /\ active' <= MaxActive
        /\ waiting' + preparing' <= active'
    <3>1. waiting > 0 /\ waiting' = waiting - 1 /\ (active' = active \/ active' = active - 1) /\ preparing' = preparing
      BY <2>1
    <3>2. QED
      BY <1>2, <3>1, BudgetsNumbers
  <2>3. QED
    BY <1>1, <1>2, <2>1, <2>2, CallsKept
<1>10. CASE Budgets!LoseJournal
  <2>1. /\ journal' = "lost" /\ UNCHANGED <<clock, service, start, count, active, waiting, preparing, drafts>>
    BY <1>10 DEF Budgets!LoseJournal, Budgets!memory
  <2>2. QED
    BY <1>1, <1>2, <2>1, CallsKept
<1>11. ASSUME NEW k, NEW n, NEW begins, Called(k, n, begins), UNCHANGED <<preparing, drafts>>
       PROVE  Budgets!TypeOK' /\ Budgets!CallsFit'
  <2>1. /\ active' = (IF begins THEN active + 1 ELSE active) /\ UNCHANGED <<clock, service, journal, waiting>>
        /\ begins => active < MaxActive
    BY <1>11 DEF Called, Budgets!Call, Budgets!Free
  <2>2. /\ active' \in Nat /\ active' <= MaxActive /\ waiting' + preparing' <= active'
    <3>1. (active' = active \/ (active' = active + 1 /\ active < MaxActive)) /\ waiting' = waiting /\ preparing' = preparing
      BY <1>11, <2>1
    <3>2. QED
      BY <1>2, <3>1, BudgetsNumbers
  <2>3. start' \in Nat /\ count' \in [Budgets!Kinds -> 0..(WindowCap + 1)]
    BY <1>11, ChargeIsTyped
  <2>4. QED
    BY <1>1, <1>2, <1>11, <2>1, <2>2, <2>3, CallsKept
<1>12. CASE WindowStep
  <2>1. CASE Budgets!PrepareBridged
    <3>1. PICK live, begins :
            /\ live \subseteq drafts /\ begins \in BOOLEAN /\ Called("call", 1, begins)
            /\ begins => Cardinality(live) < DraftCap
            /\ drafts' = live \/ (drafts' = drafts /\ ~begins)
            /\ preparing' = IF begins THEN preparing + 1 ELSE preparing
      <4>1. PICK live, allowed, begins :
              /\ live = {d \in drafts : d.until > clock}
              /\ allowed = (Budgets!Free /\ Budgets!Within("call"))
              /\ begins = (allowed /\ Cardinality(live) < DraftCap)
        OBVIOUS
      <4>2. /\ Budgets!Call("call", 1, begins) /\ drafts' = (IF allowed THEN live ELSE drafts)
            /\ preparing' = IF begins THEN preparing + 1 ELSE preparing
        BY <2>1, <4>1, BudgetsSets DEF Budgets!PrepareBridged
      <4>3. Called("call", 1, begins)
        BY <4>1, <4>2, ServicesAre DEF Called
      <4>4. begins \in BOOLEAN /\ live \subseteq drafts /\ (begins => Cardinality(live) < DraftCap)
        BY <4>1
      <4>5. drafts' = live \/ (drafts' = drafts /\ ~begins)
        BY <4>1, <4>2
      <4>6. QED
        BY <4>2, <4>3, <4>4, <4>5
    <3>2. /\ active' = (IF begins THEN active + 1 ELSE active) /\ UNCHANGED <<clock, service, journal, waiting>>
          /\ begins => active < MaxActive
      BY <3>1 DEF Called, Budgets!Call, Budgets!Free
    <3>3. drafts' \subseteq drafts
      BY <3>1
    <3>4. IsFiniteSet(drafts') /\ Cardinality(drafts') \in Nat /\ Cardinality(drafts') <= Cardinality(drafts)
      BY <1>2, <3>3, SomeOf
    <3>5. CASE begins
      <4>1. /\ drafts' = live /\ Cardinality(live) < DraftCap /\ preparing' = preparing + 1
            /\ active' = active + 1 /\ active < MaxActive /\ waiting' = waiting
        BY <3>1, <3>2, <3>5
      <4>2. /\ active' \in Nat /\ waiting' \in Nat /\ preparing' \in Nat /\ active' <= MaxActive
            /\ waiting' + preparing' <= active'
            /\ Cardinality(drafts') + preparing' < DraftCap + MaxActive
        BY <1>2, <3>4, <4>1, BudgetsNumbers
      <4>3. start' \in Nat /\ count' \in [Budgets!Kinds -> 0..(WindowCap + 1)]
        BY <3>1, ChargeIsTyped
      <4>4. QED
        BY <1>1, <3>2, <3>4, <4>2, <4>3, CallsKept
    <3>6. CASE ~begins
      <4>1. preparing' = preparing /\ active' = active /\ waiting' = waiting
        BY <3>1, <3>2, <3>6
      <4>2. Cardinality(drafts') + preparing' < DraftCap + MaxActive
        BY <1>2, <3>4, <4>1, BudgetsNumbers
      <4>3. start' \in Nat /\ count' \in [Budgets!Kinds -> 0..(WindowCap + 1)]
        BY <3>1, ChargeIsTyped
      <4>4. QED
        BY <1>1, <1>2, <3>2, <3>4, <4>1, <4>2, <4>3, CallsKept
    <3>7. QED
      BY <3>5, <3>6
  <2>2. CASE ~Budgets!PrepareBridged
    <3>1. UNCHANGED <<preparing, drafts>>
      BY <1>12, <2>2 DEF WindowStep, Budgets!SwapQuote, Budgets!LiquidityCall, Budgets!CrossAssetQuote,
         Budgets!BuildBridged
    <3>2. QED
      BY <1>11, <1>12, <3>1, WindowStepIsCall
  <2>3. QED
    BY <2>1, <2>2
<1>13. ASSUME NEW good \in BOOLEAN, Budgets!Prepared(good) PROVE Budgets!TypeOK' /\ Budgets!CallsFit'
  <2>1. /\ preparing > 0 /\ preparing' = preparing - 1 /\ active' = active - 1
        /\ (drafts' = drafts \/ \E d : drafts' = drafts \cup {d})
        /\ UNCHANGED <<clock, service, journal, start, count, waiting>>
    BY <1>13 DEF Budgets!Prepared
  <2>2. /\ IsFiniteSet(drafts') /\ Cardinality(drafts') \in Nat
        /\ Cardinality(drafts') <= Cardinality(drafts) + 1
    <3>1. CASE drafts' = drafts
      BY <1>2, <3>1
    <3>2. ASSUME NEW d, drafts' = drafts \cup {d}
          PROVE  /\ IsFiniteSet(drafts') /\ Cardinality(drafts') \in Nat
                 /\ Cardinality(drafts') <= Cardinality(drafts) + 1
      BY <1>2, <3>2, OneMore
    <3>3. QED
      BY <2>1, <3>1, <3>2
  <2>3. /\ active' \in Nat /\ waiting' \in Nat /\ preparing' \in Nat /\ active' <= MaxActive
        /\ waiting' + preparing' <= active'
        /\ Cardinality(drafts') + preparing' < DraftCap + MaxActive
    <3>1. preparing > 0 /\ preparing' = preparing - 1 /\ active' = active - 1 /\ waiting' = waiting
      BY <2>1
    <3>2. QED
      BY <1>2, <2>2, <3>1, BudgetsNumbers
  <2>4. QED
    BY <1>1, <2>1, <2>2, <2>3, CallsKept
<1>14. CASE Budgets!SearchPlaces
  <2>1. /\ active < MaxActive /\ active' = active + 1
        /\ start' = (IF start > clock THEN start ELSE clock) + Gap
        /\ UNCHANGED <<clock, service, journal, count, waiting, preparing, drafts>>
    BY <1>14 DEF Budgets!SearchPlaces, Budgets!Free
  <2>2. /\ start' \in Nat /\ active' \in Nat /\ active' <= MaxActive /\ waiting' + preparing' <= active'
    BY <1>1, <1>2, <2>1, BudgetsNumbers
  <2>3. QED
    BY <1>1, <1>2, <2>1, <2>2, CallsKept
<1>15. CASE Budgets!Finish
  <2>1. /\ active > waiting + preparing + Cardinality({e \in log : e.at > clock}) /\ active' = active - 1
        /\ UNCHANGED <<clock, service, journal, start, count, waiting, preparing, drafts>>
    BY <1>15, BudgetsSets DEF Budgets!Finish
  <2>2. PICK S : S = {e \in log : e.at > clock}
    OBVIOUS
  <2>3. Cardinality(S) \in Nat
    BY <2>2, SomeOf
  <2>4. active > waiting + preparing + Cardinality(S)
    BY <2>1, <2>2
  <2>5. active > waiting + preparing
    BY <1>2, <2>3, <2>4
  <2>6. active' \in Nat /\ active' <= MaxActive /\ waiting' + preparing' <= active'
    <3>1. active' = active - 1 /\ waiting' = waiting /\ preparing' = preparing
      BY <2>1
    <3>2. QED
      BY <1>2, <2>5, <3>1, BudgetsNumbers
  <2>7. QED
    BY <1>1, <1>2, <2>1, <2>6, CallsKept
<1>16. CASE UNCHANGED b
  <2>1. UNCHANGED <<clock, service, journal, start, count, active, waiting, preparing, drafts>>
    BY <1>16 DEF b
  <2>2. QED
    BY <1>1, <1>3, <2>1
<1>17. QED
  BY <1>4, <1>5, <1>6, <1>7, <1>8, <1>9, <1>10, <1>12, <1>13, <1>14, <1>15, <1>16 DEF Budgets!Next, WindowStep

-----------------------------------------------------------------------------
\* What was admitted, step by step.

\* The span over which a service is limited is positive.
LEMMA SpanIs == Budgets!Span \in Nat \ {0}
  BY BudgetsNumbers DEF Budgets!Span

\* One behaviour is about one service.
LEMMA ServiceStays ==
  ASSUME [Budgets!Next]_b PROVE service' = service /\ Budgets!Span' = Budgets!Span
<1>1. service' = service
  <2>1. Budgets!Tick \/ Budgets!Restart \/ Budgets!ReserveAi \/ Budgets!LoseJournal \/ Budgets!SearchPlaces
           => service' = service
    BY DEF Budgets!Tick, Budgets!Restart, Budgets!ReserveAi, Budgets!LoseJournal, Budgets!SearchPlaces
  <2>2. \A w, usd : Budgets!Admit(w, usd) => service' = service
    BY DEF Budgets!Admit
  <2>3. \A w : Budgets!ChatAdmit(w) => service' = service
    BY DEF Budgets!ChatAdmit
  <2>4. WindowStep => service' = service
    BY WindowStepIsCall DEF Called, Budgets!Call
  <2>5. Quiet => service' = service
    BY DEF Quiet
  <2>6. QED
    BY <2>1, <2>2, <2>3, <2>4, <2>5, StepIs
<1>2. QED
  BY <1>1 DEF Budgets!Span

\* The fields of an admission.
LEMMA EntryIs ==
  ASSUME NEW t, NEW w, NEW usd
  PROVE  /\ Budgets!Entry(t, w, usd).at = t /\ Budgets!Entry(t, w, usd).by = w
         /\ Budgets!Entry(t, w, usd).usd = usd
  BY DEF Budgets!Entry

\* The log grows by one entry at a time, or forgets, or is left alone.
Grown(x) ==
  /\ log' = log \cup {x} /\ clock' = clock /\ service' = service
  /\ x.usd \in Nat /\ x.at \in Nat /\ x.at >= clock /\ (service # "places" => x.at = clock)

\* An admission now is a new, recent entry of the log.
LEMMA GrownBy ==
  ASSUME clock \in Nat, NEW w, NEW usd \in Nat, log' = log \cup {Budgets!Entry(clock, w, usd)},
         clock' = clock, service' = service
  PROVE  Grown(Budgets!Entry(clock, w, usd))
  BY EntryIs DEF Grown

Forgets ==
  /\ log' \subseteq log /\ service' = service
  /\ clock' = clock \/ (clock' = clock + 1 /\ \A e \in log' : clock' - e.at < Budgets!Span)

\* A log that gains an admission made now stays one of recent admissions.
LEMMA LogGrows ==
  ASSUME Budgets!LogIsRecent, clock \in Nat, NEW x, Grown(x)
  PROVE  Budgets!LogIsRecent'
<1>1. /\ IsFiniteSet(log) /\ IsFiniteSet(Budgets!Dollars(log))
      /\ \A e \in log : e.at \in Nat /\ clock - e.at < Budgets!Span /\ (service # "places" => e.at <= clock)
  BY BudgetsSets DEF Budgets!LogIsRecent
<1>2. /\ log' = log \cup {x} /\ clock' = clock /\ service' = service
      /\ x.usd \in Nat /\ x.at \in Nat /\ x.at >= clock /\ (service # "places" => x.at = clock)
  BY DEF Grown
<1>3. IsFiniteSet(log')
  BY <1>1, <1>2, OneMore
<1>4. IsFiniteSet(Budgets!Dollars(log'))
  BY <1>1, <1>2, TotalOfOneMore
<1>5. Budgets!Span' = Budgets!Span
  BY <1>2 DEF Budgets!Span
<1>6. clock - x.at < Budgets!Span /\ (service # "places" => x.at <= clock)
  <2>1. PICK t, s1 : t = x.at /\ s1 = Budgets!Span
    OBVIOUS
  <2>2. t \in Nat /\ t >= clock /\ s1 \in Nat \ {0}
    BY <1>2, <2>1, SpanIs
  <2>3. clock - t < s1 /\ clock <= clock
    BY <2>2
  <2>4. QED
    BY <1>2, <2>1, <2>3
<1>7. \A e \in log' : e.at \in Nat /\ clock' - e.at < Budgets!Span' /\ (service' # "places" => e.at <= clock')
  BY <1>1, <1>2, <1>5, <1>6
<1>8. QED
  BY <1>3, <1>4, <1>7, BudgetsSets DEF Budgets!LogIsRecent, Budgets!Dollars

\* A log that drops what is past its span stays one of recent admissions.
LEMMA LogForgets ==
  ASSUME Budgets!LogIsRecent, clock \in Nat, Forgets
  PROVE  Budgets!LogIsRecent'
<1>1. /\ IsFiniteSet(log) /\ IsFiniteSet(Budgets!Dollars(log))
      /\ \A e \in log : e.at \in Nat /\ clock - e.at < Budgets!Span /\ (service # "places" => e.at <= clock)
  BY BudgetsSets DEF Budgets!LogIsRecent
<1>2. /\ log' \subseteq log /\ service' = service
      /\ clock' = clock \/ (clock' = clock + 1 /\ \A e \in log' : clock' - e.at < Budgets!Span)
  BY DEF Forgets
<1>3. IsFiniteSet(log')
  BY <1>1, <1>2, SomeOf
<1>4. IsFiniteSet(Budgets!Dollars(log'))
  BY <1>1, <1>2, TotalOfSome
<1>5. Budgets!Span' = Budgets!Span
  BY <1>2 DEF Budgets!Span
<1>6. ASSUME NEW e \in log'
      PROVE  e.at \in Nat /\ clock' - e.at < Budgets!Span' /\ (service' # "places" => e.at <= clock')
  <2>1. e.at \in Nat /\ clock - e.at < Budgets!Span /\ (service # "places" => e.at <= clock)
    BY <1>1, <1>2
  <2>2. clock' - e.at < Budgets!Span'
    BY <1>2, <1>5, <2>1
  <2>3. e.at <= clock => e.at <= clock'
    <3>1. clock' = clock \/ clock' = clock + 1
      BY <1>2
    <3>2. QED
      BY <2>1, <3>1
  <2>4. QED
    BY <1>2, <2>1, <2>2, <2>3
<1>7. QED
  BY <1>3, <1>4, <1>6, BudgetsSets DEF Budgets!LogIsRecent, Budgets!Dollars

\* The log is at all times the admissions of the last span.
LEMMA LogStep ==
  ASSUME Budgets!TypeOK, Budgets!LogIsRecent, [Budgets!Next]_b
  PROVE  Budgets!LogIsRecent'
<1>1. clock \in Nat /\ start \in Nat /\ 0 \in Nat
  BY BudgetsNumbers DEF Budgets!TypeOK
<1>2. service' = service
  BY ServiceStays
<1>3. CASE UNCHANGED <<clock, log>>
  BY <1>1, <1>2, <1>3, LogForgets DEF Forgets
<1>4. CASE Budgets!Tick
  <2>1. clock' = clock + 1 /\ log' = {e \in log : clock' - e.at < Budgets!Span}
    BY <1>4 DEF Budgets!Tick
  <2>2. QED
    BY <1>1, <1>2, <2>1, LogForgets DEF Forgets
<1>5. CASE Budgets!Restart
  <2>1. clock' = clock /\ log' \subseteq log
    BY <1>5 DEF Budgets!Restart
  <2>2. QED
    BY <1>1, <1>2, <2>1, LogForgets DEF Forgets
<1>6. ASSUME NEW w \in Visitors, NEW usd \in Amounts, Budgets!Admit(w, usd)
      PROVE  Budgets!LogIsRecent'
  <2>1. log' = log \cup {Budgets!Entry(clock, w, usd)} /\ clock' = clock
    BY <1>6 DEF Budgets!Admit
  <2>2. usd \in Nat
    BY BudgetsNumbers
  <2>3. QED
    BY <1>1, <1>2, <2>1, <2>2, GrownBy, LogGrows
<1>7. ASSUME NEW w \in Visitors, Budgets!ChatAdmit(w)
      PROVE  Budgets!LogIsRecent'
  <2>1. log' = log \cup {Budgets!Entry(clock, w, 0)} /\ clock' = clock
    BY <1>7 DEF Budgets!ChatAdmit
  <2>2. QED
    BY <1>1, <1>2, <2>1, GrownBy, LogGrows
<1>8. CASE Budgets!ReserveAi
  <2>1. clock' = clock /\ (log' = log \/ log' = log \cup {Budgets!Entry(clock, "model", 0)})
    <3>1. PICK charged : /\ charged = {Budgets!Entry(clock, "model", 0)} \/ charged = {}
                         /\ log' = log \cup charged /\ clock' = clock
      BY <1>8 DEF Budgets!ReserveAi
    <3>2. QED
      BY <3>1
  <2>2. QED
    BY <1>1, <1>2, <1>3, <2>1, GrownBy, LogGrows
<1>9. ASSUME NEW k, NEW n, NEW begins, Called(k, n, begins)
      PROVE  Budgets!LogIsRecent'
  <2>1. clock' = clock /\ (log' = log \/ log' = log \cup {Budgets!Entry(clock, k, 0)})
    BY <1>9 DEF Called, Budgets!Call
  <2>2. QED
    BY <1>1, <1>2, <1>3, <2>1, GrownBy, LogGrows
<1>10. CASE Budgets!SearchPlaces
  <2>1. PICK begin : /\ begin = (IF start > clock THEN start ELSE clock)
                     /\ log' = log \cup {Budgets!Entry(begin, "place", 0)} /\ clock' = clock
    BY <1>10 DEF Budgets!SearchPlaces
  <2>2. begin \in Nat /\ begin >= clock
    BY <1>1, <2>1
  <2>3. service = "places"
    BY <1>10, StepOfService
  <2>4. Grown(Budgets!Entry(begin, "place", 0))
    BY <1>1, <1>2, <2>1, <2>2, <2>3, EntryIs DEF Grown
  <2>5. QED
    BY <1>1, <2>4, LogGrows
<1>11. Quiet \/ Budgets!LoseJournal => UNCHANGED <<clock, log>>
  BY DEF Quiet, Budgets!LoseJournal
<1>12. QED
  BY <1>3, <1>4, <1>5, <1>6, <1>7, <1>8, <1>9, <1>10, <1>11, StepIs, WindowStepIsCall

-----------------------------------------------------------------------------
\* Every entry kept has its instant.
LEMMA DatedStep ==
  ASSUME Budgets!TypeOK, Budgets!Dated, [Budgets!Next]_b
  PROVE  Budgets!Dated'
<1>1. clock \in Nat
  BY BudgetsNumbers DEF Budgets!TypeOK
<1>2. /\ \A e \in book : e.at \in Nat
      /\ \A w \in Visitors : \A e \in chats[w] : e.at \in Nat
  BY DEF Budgets!Dated
<1>3. \A w, usd : Budgets!Entry(clock, w, usd).at \in Nat
  BY <1>1, EntryIs
<1>4. Budgets!Kept \subseteq book /\ Budgets!Recent(book, Day) \subseteq book
  BY DEF Budgets!Kept, Budgets!Recent
<1>5. CASE UNCHANGED <<book, chats>>
  BY <1>2, <1>5 DEF Budgets!Dated
<1>6. CASE Budgets!Restart
  <2>1. book' \subseteq book /\ chats' = [w \in Visitors |-> {}]
    BY <1>4, <1>6 DEF Budgets!Restart
  <2>2. QED
    BY <1>2, <2>1 DEF Budgets!Dated
<1>7. ASSUME NEW w \in Visitors, NEW usd \in Amounts, Budgets!Admit(w, usd)
      PROVE  Budgets!Dated'
  <2>1. book' = Budgets!Kept \cup {Budgets!Entry(clock, w, usd)} /\ chats' = chats
    BY <1>7 DEF Budgets!Admit, Budgets!memory
  <2>2. QED
    BY <1>2, <1>3, <1>4, <2>1 DEF Budgets!Dated
<1>8. ASSUME NEW w \in Visitors, Budgets!ChatAdmit(w)
      PROVE  Budgets!Dated'
  <2>1. PICK left : chats' = [y \in Visitors |->
                        IF y = w THEN Budgets!Recent(chats[w], Minute) \cup {Budgets!Entry(clock, w, 0)}
                        ELSE IF y \in left THEN chats[y] ELSE {}]
    BY <1>8 DEF Budgets!ChatAdmit
  <2>2. Budgets!Recent(chats[w], Minute) \subseteq chats[w] /\ book' = book
    BY <1>8 DEF Budgets!Recent, Budgets!ChatAdmit
  <2>3. ASSUME NEW y \in Visitors, NEW e \in chats'[y] PROVE e.at \in Nat
    <3>1. e \in chats[y] \/ e = Budgets!Entry(clock, w, 0)
      BY <2>1, <2>2, <2>3
    <3>2. QED
      BY <1>2, <1>3, <3>1
  <2>4. QED
    BY <1>2, <2>2, <2>3 DEF Budgets!Dated
<1>9. CASE Budgets!ReserveAi
  <2>1. PICK granted, charged :
          /\ charged = {Budgets!Entry(clock, "model", 0)} \/ charged = {}
          /\ book' = (IF granted THEN Budgets!Kept ELSE book) \cup charged /\ chats' = chats
    BY <1>9 DEF Budgets!ReserveAi
  <2>2. \A e \in book' : e \in book \/ e = Budgets!Entry(clock, "model", 0)
    BY <1>4, <2>1
  <2>3. QED
    BY <1>2, <1>3, <2>1, <2>2 DEF Budgets!Dated
<1>10. CASE Budgets!LoseJournal
  <2>1. book' = {} /\ chats' = chats
    BY <1>10 DEF Budgets!LoseJournal, Budgets!memory
  <2>2. QED
    BY <1>2, <2>1 DEF Budgets!Dated
<1>11. Quiet \/ Budgets!Tick \/ WindowStep \/ Budgets!SearchPlaces => UNCHANGED <<book, chats>>
  <2>1. WindowStep => UNCHANGED <<book, chats>>
    BY WindowStepIsCall DEF Called, Budgets!Call
  <2>2. QED
    BY <2>1 DEF Quiet, Budgets!Tick, Budgets!memory, Budgets!SearchPlaces
<1>12. QED
  BY <1>5, <1>6, <1>7, <1>8, <1>9, <1>10, <1>11, StepIs

-----------------------------------------------------------------------------
\* The write budget and the model's: what the journal keeps of the day is the log.

\* Admitting writes the journal what the log gains (src/guards.js:38).
LEMMA BookOfDay ==
  ASSUME NEW x, Budgets!LogIsRecent, clock \in Nat, Budgets!Span = Day, Budgets!Kept = log,
         Grown(x), book' = Budgets!Kept \cup {x}
  PROVE  Budgets!Kept' = log'
<1>1. \A e \in log : clock - e.at < Day
  BY DEF Budgets!LogIsRecent
<1>2. book' = log \cup {x} /\ log' = log \cup {x} /\ clock' = clock
  BY DEF Grown
<1>3. x.at \in Nat /\ x.at >= clock
  BY DEF Grown
<1>4. clock - x.at < Day
  <2>1. PICK t : t = x.at
    OBVIOUS
  <2>2. t \in Nat /\ t >= clock
    BY <1>3, <2>1
  <2>3. clock - t < Day
    BY <2>2, BudgetsNumbers
  <2>4. QED
    BY <2>1, <2>3
<1>5. \A e \in book' : clock' - e.at < Day
  BY <1>1, <1>2, <1>4
<1>6. QED
  BY <1>2, <1>5 DEF Budgets!Kept, Budgets!Recent

\* Time drops the same admissions from the journal's day as from the log.
LEMMA BookTicks ==
  ASSUME clock \in Nat, Budgets!Span = Day, Budgets!Kept = log, Budgets!Dated, Budgets!Tick
  PROVE  Budgets!Kept' = log'
<1>1. \A e \in book : e.at \in Nat
  BY DEF Budgets!Dated
<1>2. clock' = clock + 1 /\ log' = {e \in log : clock' - e.at < Day} /\ book' = book
  BY DEF Budgets!Tick
<1>3. ASSUME NEW e \in book, clock' - e.at < Day PROVE clock - e.at < Day
  <2>1. e.at \in Nat
    BY <1>1
  <2>2. QED
    BY <1>2, <1>3, <2>1, BudgetsNumbers
<1>4. log = {e \in book : clock - e.at < Day}
  BY DEF Budgets!Kept, Budgets!Recent
<1>5. log' = {e \in book : clock' - e.at < Day}
  BY <1>2, <1>3, <1>4
<1>6. QED
  BY <1>2, <1>5 DEF Budgets!Kept, Budgets!Recent

\* All the log is of the last Span.
LEMMA LogOfSpan ==
  /\ Budgets!LogIsRecent => Budgets!Admitted(Budgets!Span) = log
  /\ Budgets!LogIsRecent' => Budgets!Admitted(Budgets!Span)' = log'
  BY DEF Budgets!LogIsRecent, Budgets!Admitted, Budgets!Recent

\* The write guard: what check counts is the log, so its three limits hold
\* (src/guards.js:25-40).
LEMMA WritesStep ==
  ASSUME service = "writes", Budgets!TypeOK, Budgets!LogIsRecent, Budgets!Dated,
         Budgets!Kept = log, Budgets!WritesLimited, [Budgets!Next]_b
  PROVE  Budgets!Kept' = log' /\ Budgets!WritesLimited'
<1>1. clock \in Nat /\ Budgets!Span = Day /\ Budgets!Span' = Day
  BY BudgetsNumbers, ServiceStays, ServicesAre DEF Budgets!TypeOK, Budgets!Span
<1>2. Budgets!LogIsRecent'
  BY LogStep
<1>3. Budgets!Admitted(Day) = log /\ Budgets!Admitted(Day)' = log'
  BY <1>1, <1>2, LogOfSpan
<1>4. /\ IsFiniteSet(log) /\ IsFiniteSet(Budgets!Dollars(log)) /\ \A e \in log : e.at \in Nat
      /\ IsFiniteSet(log')
  BY <1>2, BudgetsSets DEF Budgets!LogIsRecent
<1>5. /\ Cardinality(log) <= PerDay /\ Budgets!Total(log) <= UsdPerDay
      /\ \A y \in Visitors : Cardinality({e \in log : clock - e.at < Hour /\ e.by = y}) <= PerVisitor
  <2>1. \A y : Budgets!By(y, Hour) = {e \in log : clock - e.at < Hour /\ e.by = y}
    BY DEF Budgets!By, Budgets!Admitted, Budgets!Recent
  <2>2. QED
    BY <1>3, <2>1, BudgetsSets DEF Budgets!WritesLimited
<1>6. ASSUME /\ Cardinality(log') <= PerDay /\ Budgets!Total(log)' <= UsdPerDay
             /\ \A y \in Visitors : Cardinality({e \in log' : clock' - e.at < Hour /\ e.by = y}) <= PerVisitor
      PROVE  Budgets!WritesLimited'
  <2>1. \A y : Budgets!By(y, Hour)' = {e \in log' : clock' - e.at < Hour /\ e.by = y}
    BY DEF Budgets!By, Budgets!Admitted, Budgets!Recent
  <2>2. Budgets!Total(Budgets!Admitted(Day))' = Budgets!Total(log)'
    BY <1>3 DEF Budgets!Total, Budgets!Dollars
  <2>3. Budgets!Cardinality(Budgets!Admitted(Day))' = Cardinality(log')
    BY <1>3, BudgetsSets
  <2>4. QED
    BY <1>6, <2>1, <2>2, <2>3, BudgetsSets DEF Budgets!WritesLimited
<1>7. ASSUME log' \subseteq log, clock' = clock \/ clock' = clock + 1
      PROVE  Budgets!WritesLimited'
  <2>1. Cardinality(log') <= Cardinality(log) /\ Cardinality(log) \in Nat /\ Cardinality(log') \in Nat
    BY <1>4, <1>7, SomeOf
  <2>2. Budgets!Total(log') <= Budgets!Total(log) /\ Budgets!Total(log) \in Nat /\ Budgets!Total(log') \in Nat
    BY <1>4, <1>7, TotalOfSome
  <2>3. ASSUME NEW y \in Visitors
        PROVE  Cardinality({e \in log' : clock' - e.at < Hour /\ e.by = y}) <= PerVisitor
    <3>1. PICK T, S : /\ T = {e \in log' : clock' - e.at < Hour /\ e.by = y}
                      /\ S = {e \in log : clock - e.at < Hour /\ e.by = y}
      OBVIOUS
    <3>2. \A e \in log' : clock' - e.at < Hour => clock - e.at < Hour
      BY <1>1, <1>4, <1>7, BudgetsNumbers
    <3>3. T \subseteq S /\ S \subseteq log
      BY <1>7, <3>1, <3>2
    <3>4. IsFiniteSet(S)
      BY <1>4, <3>3, SomeOf
    <3>5. Cardinality(T) <= Cardinality(S) /\ Cardinality(T) \in Nat /\ Cardinality(S) \in Nat
      BY <3>3, <3>4, SomeOf
    <3>6. Cardinality(S) <= PerVisitor
      BY <1>5, <3>1
    <3>7. Cardinality(T) <= PerVisitor
      BY <3>5, <3>6, BudgetsNumbers
    <3>8. QED
      BY <3>1, <3>7
  <2>4. Budgets!Total(log)' = Budgets!Total(log')
    BY DEF Budgets!Total, Budgets!Dollars
  <2>5. Cardinality(log') <= PerDay /\ Budgets!Total(log') <= UsdPerDay
    BY <1>5, <2>1, <2>2, BudgetsNumbers
  <2>6. QED
    BY <1>6, <2>3, <2>4, <2>5
<1>8. CASE Quiet
  <2>1. log' = log /\ clock' = clock /\ book' = book
    BY <1>8 DEF Quiet
  <2>2. Budgets!Kept' = log'
    BY <2>1 DEF Budgets!Kept, Budgets!Recent
  <2>3. QED
    BY <1>7, <2>1, <2>2
<1>9. CASE Budgets!Tick
  <2>1. log' \subseteq log /\ clock' = clock + 1
    BY <1>9 DEF Budgets!Tick
  <2>2. QED
    BY <1>1, <1>7, <1>9, <2>1, BookTicks
<1>10. CASE Budgets!Restart
  <2>1. log' = log /\ clock' = clock /\ book' = log
    BY <1>10, ServicesAre DEF Budgets!Restart, Budgets!Kept
  <2>2. Budgets!Kept' = log'
    <3>1. \A e \in log : clock - e.at < Day
      BY <1>1 DEF Budgets!LogIsRecent
    <3>2. QED
      BY <2>1, <3>1 DEF Budgets!Kept, Budgets!Recent
  <2>3. QED
    BY <1>7, <2>1, <2>2
<1>11. ASSUME NEW w \in Visitors, NEW usd \in Amounts, Budgets!Admit(w, usd)
       PROVE  Budgets!Kept' = log' /\ Budgets!WritesLimited'
  <2>1. PICK x : x = Budgets!Entry(clock, w, usd)
    OBVIOUS
  <2>2. usd \in Nat /\ x.at = clock /\ x.by = w /\ x.usd = usd
    BY <2>1, BudgetsNumbers, EntryIs
  <2>3. /\ book' = Budgets!Kept \cup {x} /\ log' = log \cup {x} /\ clock' = clock /\ service' = service
        /\ ~Budgets!Denied(w, usd)
    BY <1>11, <2>1 DEF Budgets!Admit
  <2>4. Grown(x)
    BY <1>1, <2>1, <2>2, <2>3, GrownBy
  <2>5. Budgets!Kept' = log'
    BY <1>1, <2>3, <2>4, BookOfDay
  <2>6. /\ ~(Cardinality({e \in log : clock - e.at < Hour /\ e.by = w}) >= PerVisitor)
        /\ ~(Cardinality(log) >= PerDay)
        /\ ~(Budgets!Total(log) + usd > UsdPerDay)
    <3>1. {e \in Budgets!Recent(Budgets!Kept, Hour) : e.by = w} = {e \in log : clock - e.at < Hour /\ e.by = w}
      BY DEF Budgets!Recent
    <3>2. QED
      BY <2>3, <3>1, BudgetsSets DEF Budgets!Denied
  <2>7. Cardinality(log') <= PerDay
    <3>1. Cardinality(log') \in Nat /\ Cardinality(log) \in Nat /\ Cardinality(log') <= Cardinality(log) + 1
      BY <1>4, <2>3, OneMore
    <3>2. QED
      BY <2>6, <3>1, BudgetsNumbers
  <2>8. Budgets!Total(log)' <= UsdPerDay
    <3>1. /\ Budgets!Total(log') \in Nat /\ Budgets!Total(log) \in Nat
          /\ Budgets!Total(log') <= Budgets!Total(log) + usd
      BY <1>4, <2>2, <2>3, TotalOfOneMore
    <3>2. Budgets!Total(log') <= UsdPerDay
      BY <2>2, <2>6, <3>1, BudgetsNumbers
    <3>3. QED
      BY <3>2 DEF Budgets!Total, Budgets!Dollars
  <2>9. ASSUME NEW y \in Visitors
        PROVE  Cardinality({e \in log' : clock' - e.at < Hour /\ e.by = y}) <= PerVisitor
    <3>1. PICK T, S : /\ T = {e \in log' : clock' - e.at < Hour /\ e.by = y}
                      /\ S = {e \in log : clock - e.at < Hour /\ e.by = y}
      OBVIOUS
    <3>2. IsFiniteSet(S) /\ Cardinality(S) \in Nat
      <4>1. S \subseteq log
        BY <3>1
      <4>2. QED
        BY <1>4, <4>1, SomeOf
    <3>3. CASE y = w
      <4>1. T \subseteq S \cup {x}
        BY <2>3, <3>1
      <4>2. /\ IsFiniteSet(S \cup {x}) /\ Cardinality(S \cup {x}) \in Nat
            /\ Cardinality(S \cup {x}) <= Cardinality(S) + 1
        BY <3>2, OneMore
      <4>3. Cardinality(T) \in Nat /\ Cardinality(T) <= Cardinality(S \cup {x})
        BY <4>1, <4>2, SomeOf
      <4>4. ~(Cardinality(S) >= PerVisitor)
        BY <2>6, <3>1, <3>3
      <4>5. Cardinality(T) <= PerVisitor
        BY <3>2, <4>2, <4>3, <4>4, BudgetsNumbers
      <4>6. QED
        BY <3>1, <4>5
    <3>4. CASE y # w
      <4>1. T = S
        BY <2>2, <2>3, <3>1, <3>4
      <4>2. QED
        BY <1>5, <3>1, <4>1
    <3>5. QED
      BY <3>3, <3>4
  <2>10. QED
    BY <1>6, <2>5, <2>7, <2>8, <2>9
<1>12. ~Budgets!ReserveAi /\ ~Budgets!LoseJournal /\ ~WindowStep /\ ~Budgets!SearchPlaces
       /\ \A w : ~Budgets!ChatAdmit(w)
  BY StepOfService, ServicesAre
<1>13. QED
  BY <1>8, <1>9, <1>10, <1>11, <1>12, StepIs

-----------------------------------------------------------------------------
\* The model's budget: of the day, its journal has the log until it is lost, and then the log
\* gets no entry.
LEMMA AiStep ==
  ASSUME service = "ai", Budgets!TypeOK, Budgets!LogIsRecent, Budgets!Dated,
         journal # "lost" => Budgets!Kept = log,
         Cardinality(Budgets!Admitted(Day)) <= AiPerDay, [Budgets!Next]_b
  PROVE  /\ journal' # "lost" => Budgets!Kept' = log'
         /\ Cardinality(Budgets!Admitted(Day)') <= AiPerDay
<1>1. clock \in Nat /\ Budgets!Span = Day /\ Budgets!Span' = Day
  BY BudgetsNumbers, ServiceStays, ServicesAre DEF Budgets!TypeOK, Budgets!Span
<1>2. Budgets!LogIsRecent'
  BY LogStep
<1>3. Budgets!Admitted(Day) = log /\ Budgets!Admitted(Day)' = log'
  BY <1>1, <1>2, LogOfSpan
<1>4. IsFiniteSet(log) /\ IsFiniteSet(log')
  BY <1>2, BudgetsSets DEF Budgets!LogIsRecent
<1>5. log' \subseteq log => Cardinality(log') <= AiPerDay
  <2>1. HAVE log' \subseteq log
  <2>2. Cardinality(log') <= Cardinality(log) /\ Cardinality(log) \in Nat /\ Cardinality(log') \in Nat
    BY <1>4, <2>1, SomeOf
  <2>3. Cardinality(log) <= AiPerDay
    BY <1>3
  <2>4. QED
    BY <2>2, <2>3, BudgetsNumbers
<1>6. CASE UNCHANGED <<log, clock, book, journal>>
  <2>1. log' = log /\ Budgets!Kept' = Budgets!Kept
    BY <1>6 DEF Budgets!Kept, Budgets!Recent
  <2>2. QED
    BY <1>3, <1>5, <1>6, <2>1
<1>7. CASE Budgets!Tick
  <2>1. log' \subseteq log /\ journal' = journal
    BY <1>7 DEF Budgets!Tick
  <2>2. journal # "lost" => Budgets!Kept' = log'
    BY <1>1, <1>7, BookTicks
  <2>3. QED
    BY <1>3, <1>5, <2>1, <2>2
<1>8. CASE Budgets!LoseJournal
  <2>1. log' = log /\ journal' = "lost"
    BY <1>8 DEF Budgets!LoseJournal
  <2>2. QED
    BY <1>3, <1>5, <2>1
<1>9. CASE Budgets!ReserveAi
  <2>1. PICK granted, charged :
          /\ granted = (journal # "lost" /\ Cardinality(Budgets!Kept) < AiPerDay)
          /\ charged = (IF granted THEN {Budgets!Entry(clock, "model", 0)} ELSE {})
          /\ book' = (IF granted THEN Budgets!Kept ELSE book) \cup charged /\ log' = log \cup charged
          /\ journal' = (IF granted THEN "kept" ELSE journal)
          /\ clock' = clock /\ service' = service
    BY <1>9, BudgetsSets DEF Budgets!ReserveAi
  <2>2. CASE ~granted
    <3>1. UNCHANGED <<log, clock, book, journal>>
      BY <2>1, <2>2
    <3>2. QED
      BY <1>6, <3>1
  <2>3. CASE granted
    <3>1. PICK x : x = Budgets!Entry(clock, "model", 0)
      OBVIOUS
    <3>2. /\ book' = Budgets!Kept \cup {x} /\ log' = log \cup {x} /\ clock' = clock /\ service' = service
          /\ Budgets!Kept = log /\ Cardinality(log) < AiPerDay
      BY <2>1, <2>3, <3>1
    <3>3. Grown(x)
      BY <1>1, <3>1, <3>2, GrownBy
    <3>4. Budgets!Kept' = log'
      BY <1>1, <3>2, <3>3, BookOfDay
    <3>5. Cardinality(log') \in Nat /\ Cardinality(log) \in Nat /\ Cardinality(log') <= Cardinality(log) + 1
      BY <1>4, <3>2, OneMore
    <3>6. Cardinality(log') <= AiPerDay
      BY <3>2, <3>5, BudgetsNumbers
    <3>7. QED
      BY <1>3, <3>4, <3>6
  <2>4. QED
    BY <2>2, <2>3
<1>10. Quiet \/ Budgets!Restart => UNCHANGED <<log, clock, book, journal>>
  BY ServicesAre DEF Quiet, Budgets!Restart
<1>11. ~WindowStep /\ ~Budgets!SearchPlaces
       /\ (\A w : ~Budgets!ChatAdmit(w)) /\ (\A w, usd : ~Budgets!Admit(w, usd))
  BY StepOfService, ServicesAre
<1>12. QED
  BY <1>6, <1>7, <1>8, <1>9, <1>10, <1>11, StepIs

-----------------------------------------------------------------------------
\* The chat gate: of the minute, a visitor's admissions are the log's by that visitor.

\* The visitors of a finite log are finitely many.
LEMMA VisitorsOfLog ==
  ASSUME NEW S, IsFiniteSet(S) PROVE IsFiniteSet({e.by : e \in S})
<1>1. PICK f, T : T = {e.by : e \in S} /\ f = [e \in S |-> e.by]
  OBVIOUS
<1>2. f \in Surjection(S, T)
  BY <1>1 DEF Surjection
<1>3. QED
  BY <1>1, <1>2, FS_Surjection

\* The companion's gate: each visitor's list of this minute is that visitor's part of the
\* log (src/cover-agent/companion.js:117).
LEMMA ChatStep ==
  ASSUME service = "chat", Budgets!TypeOK, Budgets!LogIsRecent, Budgets!Dated,
         \A e \in log : e.by \in Visitors,
         \A w \in Visitors : Budgets!Recent(chats[w], Minute) = {e \in log : e.by = w},
         Budgets!ChatLimited, [Budgets!Next]_b
  PROVE  /\ \A e \in log' : e.by \in Visitors
         /\ \A w \in Visitors : Budgets!Recent(chats[w], Minute)' = {e \in log' : e.by = w}
         /\ Budgets!ChatLimited'
<1>1. clock \in Nat /\ Budgets!Span = Minute /\ Budgets!Span' = Minute
  BY BudgetsNumbers, ServiceStays, ServicesAre DEF Budgets!TypeOK, Budgets!Span
<1>2. Budgets!LogIsRecent'
  BY LogStep
<1>3. Budgets!Admitted(Minute) = log /\ Budgets!Admitted(Minute)' = log'
  BY <1>1, <1>2, LogOfSpan
<1>4. IsFiniteSet(log) /\ IsFiniteSet(log')
  BY <1>2, BudgetsSets DEF Budgets!LogIsRecent
<1>5. /\ \A w \in Visitors : Cardinality({e \in log : e.by = w}) <= ChatPerMinute
      /\ Cardinality({e.by : e \in log}) <= ChatKeys
  BY <1>3, BudgetsSets DEF Budgets!ChatLimited, Budgets!By
<1>6. ASSUME /\ \A w \in Visitors : Cardinality({e \in log' : e.by = w}) <= ChatPerMinute
             /\ Cardinality({e.by : e \in log'}) <= ChatKeys
      PROVE  Budgets!ChatLimited'
  BY <1>3, <1>6, BudgetsSets DEF Budgets!ChatLimited, Budgets!By
<1>7. ASSUME log' \subseteq log PROVE Budgets!ChatLimited'
  <2>1. ASSUME NEW w \in Visitors PROVE Cardinality({e \in log' : e.by = w}) <= ChatPerMinute
    <3>1. PICK T, S : T = {e \in log' : e.by = w} /\ S = {e \in log : e.by = w}
      OBVIOUS
    <3>2. T \subseteq S /\ S \subseteq log
      BY <1>7, <3>1
    <3>3. IsFiniteSet(S)
      BY <1>4, <3>2, SomeOf
    <3>4. Cardinality(T) <= Cardinality(S) /\ Cardinality(T) \in Nat /\ Cardinality(S) \in Nat
      BY <3>2, <3>3, SomeOf
    <3>5. Cardinality(S) <= ChatPerMinute
      BY <1>5, <3>1
    <3>6. Cardinality(T) <= ChatPerMinute
      BY <3>4, <3>5, BudgetsNumbers
    <3>7. QED
      BY <3>1, <3>6
  <2>2. Cardinality({e.by : e \in log'}) <= ChatKeys
    <3>1. PICK T, S : T = {e.by : e \in log'} /\ S = {e.by : e \in log}
      OBVIOUS
    <3>2. T \subseteq S /\ IsFiniteSet(S)
      BY <1>4, <1>7, <3>1, VisitorsOfLog
    <3>3. Cardinality(T) <= Cardinality(S) /\ Cardinality(T) \in Nat /\ Cardinality(S) \in Nat
      BY <3>2, SomeOf
    <3>4. Cardinality(S) <= ChatKeys
      BY <1>5, <3>1
    <3>5. Cardinality(T) <= ChatKeys
      BY <3>3, <3>4, BudgetsNumbers
    <3>6. QED
      BY <3>1, <3>5
  <2>3. QED
    BY <1>6, <2>1, <2>2
<1>8. CASE Quiet
  <2>1. log' = log /\ clock' = clock /\ chats' = chats
    BY <1>8 DEF Quiet
  <2>2. \A w \in Visitors : Budgets!Recent(chats[w], Minute)' = Budgets!Recent(chats[w], Minute)
    BY <2>1 DEF Budgets!Recent
  <2>3. QED
    BY <1>7, <2>1, <2>2
<1>9. CASE Budgets!Tick
  <2>1. clock' = clock + 1 /\ log' = {e \in log : clock' - e.at < Minute} /\ chats' = chats
    BY <1>1, <1>9 DEF Budgets!Tick, Budgets!memory
  <2>2. ASSUME NEW w \in Visitors
        PROVE  Budgets!Recent(chats[w], Minute)' = {e \in log' : e.by = w}
    <3>1. \A e \in chats[w] : e.at \in Nat
      BY DEF Budgets!Dated
    <3>2. ASSUME NEW e \in chats[w], clock' - e.at < Minute PROVE clock - e.at < Minute
      <4>1. e.at \in Nat
        BY <3>1
      <4>2. QED
        BY <1>1, <2>1, <3>2, <4>1, BudgetsNumbers
    <3>3. {e \in chats[w] : clock - e.at < Minute} = {e \in log : e.by = w}
      BY DEF Budgets!Recent
    <3>4. {e \in chats[w] : clock' - e.at < Minute} = {e \in log' : e.by = w}
      BY <2>1, <3>2, <3>3
    <3>5. QED
      BY <2>1, <3>4 DEF Budgets!Recent
  <2>3. QED
    BY <1>7, <2>1, <2>2
<1>10. CASE Budgets!Restart
  <2>1. log' = {} /\ chats' = [w \in Visitors |-> {}]
    BY <1>10, ServicesAre DEF Budgets!Restart
  <2>2. \A w \in Visitors : Budgets!Recent(chats[w], Minute)' = {}
    BY <2>1 DEF Budgets!Recent
  <2>3. QED
    BY <1>7, <2>1, <2>2
<1>11. ASSUME NEW w \in Visitors, Budgets!ChatAdmit(w)
       PROVE  /\ \A e \in log' : e.by \in Visitors
              /\ \A y \in Visitors : Budgets!Recent(chats[y], Minute)' = {e \in log' : e.by = y}
              /\ Budgets!ChatLimited'
  <2>1. PICK left :
          /\ left = {y \in Visitors : Budgets!Recent(chats[y], Minute) # {}}
          /\ Cardinality(Budgets!Recent(chats[w], Minute)) < ChatPerMinute
          /\ Cardinality(left) < ChatKeys \/ w \in left
          /\ chats' = [y \in Visitors |->
                        IF y = w THEN Budgets!Recent(chats[w], Minute) \cup {Budgets!Entry(clock, w, 0)}
                        ELSE IF y \in left THEN chats[y] ELSE {}]
          /\ log' = log \cup {Budgets!Entry(clock, w, 0)}
          /\ clock' = clock
    BY <1>11, BudgetsSets DEF Budgets!ChatAdmit
  <2>2. PICK x : x = Budgets!Entry(clock, w, 0)
    OBVIOUS
  <2>3. x.at = clock /\ x.by = w
    BY <2>2, EntryIs
  <2>4. log' = log \cup {x} /\ \A e \in log' : e.by \in Visitors
    BY <2>1, <2>2, <2>3
  <2>5. clock - x.at < Minute
    BY <1>1, <2>3, BudgetsNumbers
  <2>6. ASSUME NEW y \in Visitors
        PROVE  Budgets!Recent(chats[y], Minute)' = {e \in log' : e.by = y}
    <3>1. Budgets!Recent(chats[y], Minute)' = {e \in chats'[y] : clock - e.at < Minute}
      BY <2>1 DEF Budgets!Recent
    <3>2. {e \in chats[y] : clock - e.at < Minute} = {e \in log : e.by = y}
      BY DEF Budgets!Recent
    <3>3. CASE y = w
      <4>1. chats'[y] = {e \in chats[w] : clock - e.at < Minute} \cup {x}
        BY <2>1, <2>2, <3>3 DEF Budgets!Recent
      <4>2. {e \in chats'[y] : clock - e.at < Minute} = {e \in log : e.by = y} \cup {x}
        BY <2>5, <3>2, <3>3, <4>1
      <4>3. {e \in log' : e.by = y} = {e \in log : e.by = y} \cup {x}
        BY <2>3, <2>4, <3>3
      <4>4. QED
        BY <3>1, <4>2, <4>3
    <3>4. CASE y # w /\ y \in left
      <4>1. chats'[y] = chats[y]
        BY <2>1, <3>4
      <4>2. {e \in log' : e.by = y} = {e \in log : e.by = y}
        BY <2>3, <2>4, <3>4
      <4>3. QED
        BY <3>1, <3>2, <4>1, <4>2
    <3>5. CASE y # w /\ y \notin left
      <4>1. chats'[y] = {} /\ {e \in log : e.by = y} = {}
        BY <2>1, <3>5
      <4>2. {e \in log' : e.by = y} = {e \in log : e.by = y}
        BY <2>3, <2>4, <3>5
      <4>3. QED
        BY <3>1, <4>1, <4>2
    <3>6. QED
      BY <3>3, <3>4, <3>5
  <2>7. ASSUME NEW y \in Visitors PROVE Cardinality({e \in log' : e.by = y}) <= ChatPerMinute
    <3>1. PICK T, S : T = {e \in log' : e.by = y} /\ S = {e \in log : e.by = y}
      OBVIOUS
    <3>2. IsFiniteSet(S) /\ Cardinality(S) <= ChatPerMinute
      <4>1. S \subseteq log
        BY <3>1
      <4>2. QED
        BY <1>4, <1>5, <3>1, <4>1, SomeOf
    <3>3. CASE y = w
      <4>1. T = S \cup {x}
        BY <2>3, <2>4, <3>1, <3>3
      <4>2. Cardinality(T) <= Cardinality(S) + 1 /\ Cardinality(T) \in Nat /\ Cardinality(S) \in Nat
        BY <3>2, <4>1, OneMore
      <4>3. Cardinality(S) < ChatPerMinute
        BY <2>1, <3>1, <3>3
      <4>4. Cardinality(T) <= ChatPerMinute
        BY <4>2, <4>3, BudgetsNumbers
      <4>5. QED
        BY <3>1, <4>4
    <3>4. CASE y # w
      <4>1. T = S
        BY <2>3, <2>4, <3>1, <3>4
      <4>2. QED
        BY <3>1, <3>2, <4>1
    <3>5. QED
      BY <3>3, <3>4
  <2>8. Cardinality({e.by : e \in log'}) <= ChatKeys
    <3>1. left = {e.by : e \in log}
      BY <2>1
    <3>2. {e.by : e \in log'} = left \cup {w}
      BY <2>3, <2>4, <3>1
    <3>3. IsFiniteSet(left) /\ Cardinality(left) <= ChatKeys
      BY <1>4, <1>5, <3>1, VisitorsOfLog
    <3>4. CASE w \in left
      <4>1. left \cup {w} = left
        BY <3>4
      <4>2. QED
        BY <3>2, <3>3, <4>1
    <3>5. CASE Cardinality(left) < ChatKeys
      <4>1. /\ Cardinality(left \cup {w}) <= Cardinality(left) + 1 /\ Cardinality(left \cup {w}) \in Nat
            /\ Cardinality(left) \in Nat
        BY <3>3, OneMore
      <4>2. Cardinality(left \cup {w}) <= ChatKeys
        BY <3>5, <4>1, BudgetsNumbers
      <4>3. QED
        BY <3>2, <4>2
    <3>6. QED
      BY <2>1, <3>4, <3>5
  <2>9. QED
    BY <1>6, <2>4, <2>6, <2>7, <2>8
<1>12. ~Budgets!ReserveAi /\ ~Budgets!LoseJournal /\ ~WindowStep /\ ~Budgets!SearchPlaces
       /\ \A w, usd : ~Budgets!Admit(w, usd)
  BY StepOfService, ServicesAre
<1>13. QED
  BY <1>8, <1>9, <1>10, <1>11, <1>12, StepIs

-----------------------------------------------------------------------------
\* The fixed windows: of a kind, what the window there is let through and what the one before
\* it did.
InWindow(k) == {e \in log : e.by = k /\ e.at >= start}
BeforeWindow(k) == {e \in log : e.by = k /\ e.at < start}

WindowsAre ==
  /\ start <= clock
  /\ Budgets!Ended => \A e \in log : e.at < clock
  /\ \A k \in Budgets!Kinds :
        /\ Cardinality(InWindow(k)) <= count[k] /\ Cardinality(InWindow(k)) <= WindowCap
        /\ Cardinality(BeforeWindow(k)) <= WindowCap

\* The invariant of a windowed service, without the services it says nothing of.
LEMMA WindowsSame ==
  ASSUME service \in Budgets!Windowed, service' = service
  PROVE  (Budgets!WindowsHold => WindowsAre) /\ (WindowsAre' => Budgets!WindowsHold')
  BY BudgetsSets DEF Budgets!WindowsHold, WindowsAre, InWindow, BeforeWindow

\* Time passing keeps a window's books: it only ever ends windows.
LEMMA WindowsForget ==
  ASSUME service \in Budgets!Windowed, Budgets!TypeOK, Budgets!LogIsRecent, WindowsAre,
         log' \subseteq log, UNCHANGED <<start, count>>, start <= clock',
         Budgets!Ended' => \A e \in log' : e.at < clock'
  PROVE  WindowsAre'
<1>1. IsFiniteSet(log)
  BY BudgetsSets DEF Budgets!LogIsRecent
<1>2. /\ \A k \in Budgets!Kinds : count[k] \in Nat
  <2>1. count \in [Budgets!Kinds -> 0..(WindowCap + 1)]
    BY DEF Budgets!TypeOK
  <2>2. \A y \in 0..(WindowCap + 1) : y \in Nat
    BY BudgetsNumbers
  <2>3. QED
    BY <2>1, <2>2
<1>3. ASSUME NEW k \in Budgets!Kinds
      PROVE  /\ Cardinality(InWindow(k)') <= count[k] /\ Cardinality(InWindow(k)') <= WindowCap
             /\ Cardinality(BeforeWindow(k)') <= WindowCap
  <2>1. PICK S, T, A, B : S = InWindow(k) /\ T = BeforeWindow(k) /\ A = InWindow(k)' /\ B = BeforeWindow(k)'
    OBVIOUS
  <2>2. S \subseteq log /\ T \subseteq log /\ A \subseteq S /\ B \subseteq T
    BY <2>1 DEF InWindow, BeforeWindow
  <2>3. IsFiniteSet(S) /\ IsFiniteSet(T)
    BY <1>1, <2>2, SomeOf
  <2>4. /\ Cardinality(A) <= Cardinality(S) /\ Cardinality(A) \in Nat /\ Cardinality(S) \in Nat
        /\ Cardinality(B) <= Cardinality(T) /\ Cardinality(B) \in Nat /\ Cardinality(T) \in Nat
    BY <2>2, <2>3, SomeOf
  <2>5. Cardinality(S) <= count[k] /\ Cardinality(S) <= WindowCap /\ Cardinality(T) <= WindowCap
    BY <2>1 DEF WindowsAre
  <2>6. count[k] \in Nat
    BY <1>2
  <2>7. Cardinality(A) <= count[k] /\ Cardinality(A) <= WindowCap /\ Cardinality(B) <= WindowCap
    BY <2>4, <2>5, <2>6, BudgetsNumbers
  <2>8. QED
    BY <2>1, <2>7
<1>4. QED
  BY <1>3 DEF WindowsAre

\* A window that ends: what it let through is what there is before the next one.
LEMMA WindowRolls ==
  ASSUME service \in Budgets!Windowed, Budgets!TypeOK, Budgets!LogIsRecent, WindowsAre, Budgets!Ended,
         NEW k, NEW n, NEW begins, Called(k, n, begins)
  PROVE  WindowsAre'
<1>1. /\ clock \in Nat /\ start \in Nat /\ Minute \in Nat \ {0} /\ WindowCap \in Nat \ {0}
      /\ Budgets!Span = Minute
  BY BudgetsNumbers, ServicesAre DEF Budgets!TypeOK, Budgets!Span
<1>2. /\ k \in Budgets!Kinds /\ n \in {0, 1} /\ (begins => n = 1)
      /\ start' = clock /\ clock' = clock /\ service' = service
      /\ log' = (IF begins THEN log \cup {Budgets!Entry(clock, k, 0)} ELSE log)
  BY DEF Called, Budgets!Call, Budgets!Charge
<1>3. \A j \in Budgets!Kinds : count'[j] = IF j = k THEN n ELSE 0
  <2>1. \A j \in Budgets!Kinds : count'[j] = Budgets!Spent(j) + IF j = k THEN n ELSE 0
    BY ChargeIsTyped
  <2>2. \A j \in Budgets!Kinds : Budgets!Spent(j) = 0
    BY DEF Budgets!Spent
  <2>3. 0 + 0 = 0 /\ 0 + n = n
    BY <1>2
  <2>4. QED
    BY <2>1, <2>2, <2>3
<1>4. IsFiniteSet(log) /\ \A e \in log : e.at \in Nat /\ e.at < clock /\ clock - e.at < Minute
  BY <1>1, BudgetsSets DEF Budgets!LogIsRecent, WindowsAre
<1>5. clock - start >= Minute
  <2>1. clock - start > Minute \/ clock - start = Minute
    BY DEF Budgets!Ended
  <2>2. QED
    BY <1>1, <2>1
<1>6. \A e \in log : e.at >= start
  BY <1>1, <1>4, <1>5
<1>7. ~Budgets!Ended'
  <2>1. clock' - start' = 0 /\ ~(0 > Minute) /\ 0 # Minute
    BY <1>1, <1>2
  <2>2. QED
    BY <2>1 DEF Budgets!Ended
<1>8. PICK x : x = Budgets!Entry(clock, k, 0)
  OBVIOUS
<1>9. x.at = clock /\ x.by = k
  BY <1>8, EntryIs
<1>10. ASSUME NEW j \in Budgets!Kinds
       PROVE  /\ Cardinality(InWindow(j)') <= count'[j] /\ Cardinality(InWindow(j)') <= WindowCap
              /\ Cardinality(BeforeWindow(j)') <= WindowCap
  <2>1. PICK S, A, B : S = InWindow(j) /\ A = InWindow(j)' /\ B = BeforeWindow(j)'
    OBVIOUS
  <2>2. S = {e \in log : e.by = j}
    BY <1>6, <2>1 DEF InWindow
  <2>3. \A e \in log : ~(e.at >= clock)
    BY <1>1, <1>4
  <2>4. ~(clock < clock) /\ clock >= clock
    BY <1>1
  <2>5. B = S
    <3>1. B = {e \in log' : e.by = j /\ e.at < clock}
      BY <1>2, <2>1 DEF BeforeWindow
    <3>2. B = {e \in log : e.by = j /\ e.at < clock}
      BY <1>2, <1>8, <1>9, <2>4, <3>1
    <3>3. QED
      BY <1>4, <2>2, <3>2
  <2>6. A = {e \in log' : e.by = j /\ e.at >= clock}
    BY <1>2, <2>1 DEF InWindow
  <2>7. A = IF begins /\ j = k THEN {x} ELSE {}
    BY <1>2, <1>8, <1>9, <2>3, <2>4, <2>6
  <2>8. Cardinality(S) <= WindowCap
    BY <2>1 DEF WindowsAre
  <2>9. Cardinality(A) <= count'[j] /\ Cardinality(A) <= WindowCap
    <3>1. Cardinality({x}) = 1 /\ Cardinality({}) = 0
      BY FS_Singleton, FS_EmptySet
    <3>2. (begins /\ j = k => count'[j] = 1) /\ count'[j] \in {0, 1}
      BY <1>2, <1>3
    <3>3. 1 <= 1 /\ 0 <= 0 /\ 0 <= 1 /\ 0 <= WindowCap /\ 1 <= WindowCap
      BY <1>1
    <3>4. QED
      BY <2>7, <3>1, <3>2, <3>3
  <2>10. QED
    BY <2>1, <2>5, <2>8, <2>9
<1>11. start' <= clock'
  BY <1>1, <1>2
<1>12. QED
  BY <1>7, <1>10, <1>11 DEF WindowsAre

\* A window that goes on: one more call of one kind at most, and only with room for it.
LEMMA WindowGoesOn ==
  ASSUME service \in Budgets!Windowed, Budgets!TypeOK, Budgets!LogIsRecent, WindowsAre, ~Budgets!Ended,
         NEW k, NEW n, NEW begins, Called(k, n, begins)
  PROVE  WindowsAre'
<1>1. clock \in Nat /\ start \in Nat /\ Minute \in Nat \ {0} /\ WindowCap \in Nat \ {0}
  BY BudgetsNumbers, ServicesAre DEF Budgets!TypeOK
<1>2. /\ k \in Budgets!Kinds /\ n \in {0, 1} /\ (begins => n = 1 /\ count[k] < WindowCap)
      /\ start' = start /\ clock' = clock /\ service' = service
      /\ log' = (IF begins THEN log \cup {Budgets!Entry(clock, k, 0)} ELSE log)
  BY DEF Called, Budgets!Call, Budgets!Charge, Budgets!Within, Budgets!Spent
<1>3. \A j \in Budgets!Kinds : count'[j] = count[j] + IF j = k THEN n ELSE 0
  <2>1. \A j \in Budgets!Kinds : count'[j] = Budgets!Spent(j) + IF j = k THEN n ELSE 0
    BY ChargeIsTyped
  <2>2. QED
    BY <2>1 DEF Budgets!Spent
<1>4. \A j \in Budgets!Kinds : count[j] \in Nat
  <2>1. count \in [Budgets!Kinds -> 0..(WindowCap + 1)]
    BY DEF Budgets!TypeOK
  <2>2. \A y \in 0..(WindowCap + 1) : y \in Nat
    BY <1>1
  <2>3. QED
    BY <2>1, <2>2
<1>5. IsFiniteSet(log) /\ start <= clock
  BY BudgetsSets DEF Budgets!LogIsRecent, WindowsAre
<1>6. ~Budgets!Ended'
  BY <1>2 DEF Budgets!Ended
<1>7. PICK x : x = Budgets!Entry(clock, k, 0)
  OBVIOUS
<1>8. x.at = clock /\ x.by = k
  BY <1>7, EntryIs
<1>9. ASSUME NEW j \in Budgets!Kinds
      PROVE  /\ Cardinality(InWindow(j)') <= count'[j] /\ Cardinality(InWindow(j)') <= WindowCap
             /\ Cardinality(BeforeWindow(j)') <= WindowCap
  <2>1. PICK S, T, A, B : S = InWindow(j) /\ T = BeforeWindow(j) /\ A = InWindow(j)' /\ B = BeforeWindow(j)'
    OBVIOUS
  <2>2. ~(clock < start) /\ clock >= start
    BY <1>1, <1>5
  <2>3. B = T
    BY <1>2, <1>7, <1>8, <2>1, <2>2 DEF BeforeWindow
  <2>4. A = IF begins /\ j = k THEN S \cup {x} ELSE S
    BY <1>2, <1>7, <1>8, <2>1, <2>2 DEF InWindow
  <2>5. /\ Cardinality(S) <= count[j] /\ Cardinality(S) <= WindowCap /\ Cardinality(T) <= WindowCap
    BY <2>1 DEF WindowsAre
  <2>6. IsFiniteSet(S)
    <3>1. S \subseteq log
      BY <2>1 DEF InWindow
    <3>2. QED
      BY <1>5, <3>1, SomeOf
  <2>7. Cardinality(S) \in Nat
    BY <2>6, FS_CardinalityType
  <2>8. CASE begins /\ j = k
    <3>1. A = S \cup {x} /\ count'[j] = count[j] + 1 /\ count[j] < WindowCap
      BY <1>2, <1>3, <2>4, <2>8
    <3>2. Cardinality(A) <= Cardinality(S) + 1 /\ Cardinality(A) \in Nat
      BY <2>6, <3>1, OneMore
    <3>3. count[j] \in Nat
      BY <1>4
    <3>4. Cardinality(A) <= count'[j] /\ Cardinality(A) <= WindowCap
      BY <1>1, <2>5, <2>7, <3>1, <3>2, <3>3
    <3>5. QED
      BY <2>1, <2>3, <2>5, <3>4
  <2>9. CASE ~(begins /\ j = k)
    <3>1. A = S
      BY <2>4, <2>9
    <3>2. count'[j] = count[j] + 0 \/ count'[j] = count[j] + n
      BY <1>3
    <3>3. count[j] \in Nat /\ n \in Nat
      BY <1>2, <1>4
    <3>4. Cardinality(S) <= count'[j]
      BY <2>5, <2>7, <3>2, <3>3
    <3>5. QED
      BY <2>1, <2>3, <2>5, <3>1, <3>4
  <2>10. QED
    BY <2>8, <2>9
<1>10. start' <= clock'
  BY <1>2, <1>5
<1>11. QED
  BY <1>6, <1>9, <1>10 DEF WindowsAre

\* A windowed service keeps its invariant: the log falls into the current window's calls,
\* which the counter counts, and those of the window before (src/settlement/liquidity.js:88).
LEMMA WindowsStep ==
  ASSUME service \in Budgets!Windowed, Budgets!TypeOK, Budgets!LogIsRecent, Budgets!WindowsHold,
         [Budgets!Next]_b
  PROVE  Budgets!WindowsHold'
<1>1. /\ clock \in Nat /\ start \in Nat /\ service' = service
      /\ \A e \in log : e.at \in Nat /\ e.at <= clock
  BY BudgetsNumbers, ServiceStays, ServicesAre DEF Budgets!TypeOK, Budgets!LogIsRecent
<1>2. WindowsAre /\ (WindowsAre' => Budgets!WindowsHold')
  BY <1>1, WindowsSame
<1>3. CASE Quiet
  <2>1. UNCHANGED <<clock, start, count, log, service>>
    BY <1>3 DEF Quiet
  <2>2. Budgets!Ended' = Budgets!Ended
    BY <2>1 DEF Budgets!Ended
  <2>3. start <= clock' /\ (Budgets!Ended' => \A e \in log' : e.at < clock')
    BY <1>2, <2>1, <2>2 DEF WindowsAre
  <2>4. QED
    BY <1>2, <2>1, <2>3, WindowsForget
<1>4. CASE Budgets!Tick
  <2>1. clock' = clock + 1 /\ log' \subseteq log /\ UNCHANGED <<start, count>>
    BY <1>4 DEF Budgets!Tick, Budgets!memory
  <2>2. start <= clock' /\ \A e \in log' : e.at < clock'
    <3>1. start <= clock
      BY <1>2 DEF WindowsAre
    <3>2. QED
      BY <1>1, <2>1, <3>1
  <2>3. QED
    BY <1>2, <2>1, <2>2, WindowsForget
<1>5. CASE Budgets!Restart
  <2>1. log' = {} /\ start' = clock /\ clock' = clock /\ count' = [k \in Budgets!Kinds |-> 0]
    BY <1>5, ServicesAre DEF Budgets!Restart
  <2>2. Cardinality({}) = 0 /\ 0 <= 0 /\ 0 <= WindowCap /\ clock <= clock
    BY <1>1, FS_EmptySet, BudgetsNumbers
  <2>3. \A k : InWindow(k)' = {} /\ BeforeWindow(k)' = {}
    BY <2>1 DEF InWindow, BeforeWindow
  <2>4. WindowsAre'
    BY <2>1, <2>2, <2>3 DEF WindowsAre
  <2>5. QED
    BY <1>2, <2>4
<1>6. CASE WindowStep
  <2>1. PICK k, n, begins : Called(k, n, begins)
    BY <1>6, WindowStepIsCall
  <2>2. QED
    BY <1>2, <2>1, WindowRolls, WindowGoesOn
<1>7. ~Budgets!ReserveAi /\ ~Budgets!LoseJournal /\ ~Budgets!SearchPlaces
      /\ (\A w : ~Budgets!ChatAdmit(w)) /\ (\A w, usd : ~Budgets!Admit(w, usd))
  BY StepOfService, ServicesAre
<1>8. QED
  BY <1>3, <1>4, <1>5, <1>6, <1>7, StepIs

\* Of a kind, two windows let at most two caps through.
LEMMA TwoCaps ==
  ASSUME NEW A, NEW S, NEW T, IsFiniteSet(S), IsFiniteSet(T), A \subseteq S \cup T,
         Cardinality(S) <= WindowCap, Cardinality(T) <= WindowCap
  PROVE  Cardinality(A) <= 2 * WindowCap
<1>1. IsFiniteSet(S \cup T) /\ Cardinality(S \cup T) = Cardinality(S) + Cardinality(T) - Cardinality(S \cap T)
  BY FS_Union
<1>2. /\ Cardinality(S) \in Nat /\ Cardinality(T) \in Nat /\ Cardinality(S \cap T) \in Nat
      /\ Cardinality(S \cup T) \in Nat
  BY <1>1, FS_CardinalityType, FS_Intersection
<1>3. Cardinality(A) <= Cardinality(S \cup T) /\ Cardinality(A) \in Nat
  BY <1>1, SomeOf
<1>4. QED
  BY <1>1, <1>2, <1>3, BudgetsNumbers

\* Any minute meets two windows at most, hence twice the cap of calls.
LEMMA TwoWindows ==
  ASSUME service' \in Budgets!Windowed, start' \in Nat, Budgets!LogIsRecent', Budgets!WindowsHold',
         NEW k \in Budgets!Kinds
  PROVE  Cardinality(Budgets!By(k, Minute)') <= 2 * WindowCap
<1>1. IsFiniteSet(log') /\ \A e \in log' : e.at \in Nat
  BY BudgetsSets DEF Budgets!LogIsRecent
<1>2. PICK S, T, A : S = InWindow(k)' /\ T = BeforeWindow(k)' /\ A = Budgets!By(k, Minute)'
  OBVIOUS
<1>3. Cardinality(S) <= WindowCap /\ Cardinality(T) <= WindowCap
  BY <1>2, BudgetsSets DEF Budgets!WindowsHold, InWindow, BeforeWindow
<1>4. A \subseteq S \cup T
  <2>1. A \subseteq {e \in log' : e.by = k}
    BY <1>2 DEF Budgets!By, Budgets!Admitted, Budgets!Recent
  <2>2. \A e \in log' : e.at >= start' \/ e.at < start'
    BY <1>1
  <2>3. QED
    BY <1>2, <2>1, <2>2 DEF InWindow, BeforeWindow
<1>5. IsFiniteSet(S) /\ IsFiniteSet(T)
  <2>1. S \subseteq log' /\ T \subseteq log'
    BY <1>2 DEF InWindow, BeforeWindow
  <2>2. QED
    BY <1>1, <2>1, SomeOf
<1>6. QED
  BY <1>2, <1>3, <1>4, <1>5, TwoCaps

-----------------------------------------------------------------------------
\* Two searches start a Gap apart: the next one starts after all there were.
GapApart == \A e, f \in log : e # f => e.at - f.at >= Gap \/ f.at - e.at >= Gap

\* The place search: admissions of one visitor keep their gap (src/places.js:14).
LEMMA PlacesStep ==
  ASSUME service = "places", Budgets!TypeOK, Budgets!LogIsRecent, Budgets!SearchesAhead, GapApart,
         [Budgets!Next]_b
  PROVE  Budgets!SearchesAhead' /\ GapApart'
<1>1. clock \in Nat /\ start \in Nat /\ Gap \in Nat \ {0} /\ \A e \in log : e.at \in Nat
  BY BudgetsNumbers DEF Budgets!TypeOK, Budgets!LogIsRecent
<1>2. \A e \in log : start >= e.at + Gap
  BY DEF Budgets!SearchesAhead
<1>3. CASE log' \subseteq log /\ (start' = start \/ log' = {})
  BY <1>2, <1>3 DEF Budgets!SearchesAhead, GapApart
<1>4. CASE Budgets!SearchPlaces
  <2>1. PICK begin : /\ begin = (IF start > clock THEN start ELSE clock)
                     /\ start' = begin + Gap /\ log' = log \cup {Budgets!Entry(begin, "place", 0)}
    BY <1>4 DEF Budgets!SearchPlaces
  <2>2. begin \in Nat /\ begin >= start
    BY <1>1, <2>1
  <2>3. PICK x : x = Budgets!Entry(begin, "place", 0)
    OBVIOUS
  <2>4. x.at = begin /\ log' = log \cup {x}
    BY <2>1, <2>3, EntryIs
  <2>5. ASSUME NEW e \in log PROVE start' >= e.at + Gap /\ begin - e.at >= Gap
    <3>1. PICK t : t = e.at
      OBVIOUS
    <3>2. t \in Nat /\ start >= t + Gap /\ start' = begin + Gap
      BY <1>1, <1>2, <2>1, <3>1
    <3>3. start' >= t + Gap /\ begin - t >= Gap
      BY <1>1, <2>2, <3>2
    <3>4. QED
      BY <3>1, <3>3
  <2>6. start' >= begin + Gap
    BY <1>1, <2>1, <2>2
  <2>7. \A e \in log' : start' >= e.at + Gap
    BY <2>4, <2>5, <2>6
  <2>8. Budgets!SearchesAhead'
    BY <2>7 DEF Budgets!SearchesAhead
  <2>9. \A e, f \in log' : e # f => e.at - f.at >= Gap \/ f.at - e.at >= Gap
    BY <2>4, <2>5 DEF GapApart
  <2>10. QED
    BY <2>8, <2>9 DEF GapApart
<1>5. Quiet \/ Budgets!Tick => log' \subseteq log /\ start' = start
  BY DEF Quiet, Budgets!Tick, Budgets!memory
<1>6. Budgets!Restart => log' \subseteq log /\ log' = {}
  BY ServicesAre DEF Budgets!Restart
<1>7. ~Budgets!ReserveAi /\ ~Budgets!LoseJournal /\ ~WindowStep
      /\ (\A w : ~Budgets!ChatAdmit(w)) /\ (\A w, usd : ~Budgets!Admit(w, usd))
  BY StepOfService, ServicesAre
<1>8. QED
  BY <1>3, <1>4, <1>5, <1>6, <1>7, StepIs

-----------------------------------------------------------------------------
\* The budgets' inductive invariant.

\* An empty log counts and spends nothing.
LEMMA NoneOfNone ==
  /\ Budgets!Dollars({}) = {} /\ Budgets!Total({}) = 0 /\ Budgets!Cardinality({}) = 0
  /\ Budgets!IsFiniteSet({})
  BY NothingAdmitted, BudgetsSets

\* A server that has just started satisfies the invariant of the budgets.
LEMMA BudgetsInit == Budgets!Init => Budgets!BudgetsInv
<1> SUFFICES ASSUME Budgets!Init PROVE Budgets!BudgetsInv
  OBVIOUS
<1>1. /\ clock = 0 /\ service \in Budgets!Services /\ book = {} /\ journal = "fresh" /\ log = {}
      /\ chats = [w \in Visitors |-> {}] /\ start = 0 /\ count = [k \in Budgets!Kinds |-> 0]
      /\ active = 0 /\ waiting = 0 /\ preparing = 0 /\ drafts = {}
  BY DEF Budgets!Init
<1>2. /\ 0 \in 0..MaxTime /\ 0 \in 0..(WindowCap + 1) /\ 0 \in 0..MaxActive /\ 0 \in Nat /\ 0 <= 0
      /\ 0 + 0 <= 0 /\ 0 + 0 < DraftCap + MaxActive /\ 0 < DraftCap + MaxActive
      /\ 0 <= WindowCap /\ 0 <= 2 * WindowCap /\ 0 <= MaxActive
      /\ 0 <= PerDay /\ 0 <= UsdPerDay /\ 0 <= PerVisitor /\ 0 <= AiPerDay /\ 0 <= ChatPerMinute /\ 0 <= ChatKeys
  BY BudgetsNumbers
<1>3. Budgets!TypeOK
  BY <1>1, <1>2 DEF Budgets!TypeOK
<1>4. Budgets!LogIsRecent
  BY <1>1, NoneOfNone DEF Budgets!LogIsRecent
<1>5. Budgets!Dated
  BY <1>1 DEF Budgets!Dated
<1>6. Budgets!BooksAgree
  BY <1>1 DEF Budgets!BooksAgree, Budgets!Kept, Budgets!Recent
<1>7. Budgets!WindowsHold
  <2>1. \A k : {e \in log : e.by = k /\ e.at >= start} = {} /\ {e \in log : e.by = k /\ e.at < start} = {}
    BY <1>1
  <2>2. QED
    BY <1>1, <1>2, <2>1, NoneOfNone DEF Budgets!WindowsHold
<1>8. Budgets!SearchesAhead
  BY <1>1 DEF Budgets!SearchesAhead
<1>9. Budgets!CallsFit
  BY <1>1, <1>2, NoneOfNone DEF Budgets!CallsFit
<1>10. \A y : Budgets!Admitted(y) = {}
  BY <1>1 DEF Budgets!Admitted, Budgets!Recent
<1>11. \A k, y : Budgets!By(k, y) = {}
  BY <1>10 DEF Budgets!By
<1>12. {e.by : e \in {}} = {}
  OBVIOUS
<1>13. Budgets!WritesLimited /\ Budgets!ChatLimited
  BY <1>2, <1>10, <1>11, <1>12, NoneOfNone DEF Budgets!WritesLimited, Budgets!ChatLimited
<1>14. Budgets!LimitsHold
  BY <1>1, <1>2, <1>10, <1>11, <1>13, NoneOfNone DEF Budgets!LimitsHold
<1>15. QED
  BY <1>3, <1>4, <1>5, <1>6, <1>7, <1>8, <1>9, <1>14 DEF Budgets!BudgetsInv

\* Every step of the budgets keeps it.
LEMMA BudgetsNext == Budgets!BudgetsInv /\ [Budgets!Next]_b => Budgets!BudgetsInv'
<1> SUFFICES ASSUME Budgets!BudgetsInv, [Budgets!Next]_b PROVE Budgets!BudgetsInv'
  OBVIOUS
<1>1. /\ Budgets!TypeOK /\ Budgets!LogIsRecent /\ Budgets!Dated /\ Budgets!BooksAgree
      /\ Budgets!WindowsHold /\ Budgets!SearchesAhead /\ Budgets!CallsFit /\ Budgets!LimitsHold
  BY DEF Budgets!BudgetsInv
<1>2. service' = service
  BY ServiceStays
<1>3. IsFiniteSet(log)
  BY <1>1, BudgetsSets DEF Budgets!LogIsRecent
<1>4. Budgets!TypeOK' /\ Budgets!CallsFit' /\ Budgets!LogIsRecent' /\ Budgets!Dated'
  BY <1>1, <1>3, BudgetsTyped, LogStep, DatedStep
<1>5. service = "writes" => Budgets!Kept' = log' /\ Budgets!WritesLimited'
  <2>1. HAVE service = "writes"
  <2>2. Budgets!Kept = log /\ Budgets!WritesLimited
    BY <1>1, <2>1 DEF Budgets!BooksAgree, Budgets!LimitsHold
  <2>3. QED
    BY <1>1, <2>1, <2>2, WritesStep
<1>6. service = "ai" => /\ journal' # "lost" => Budgets!Kept' = log'
                        /\ Budgets!Cardinality(Budgets!Admitted(Day))' <= AiPerDay
  <2>1. HAVE service = "ai"
  <2>2. (journal # "lost" => Budgets!Kept = log) /\ Cardinality(Budgets!Admitted(Day)) <= AiPerDay
    BY <1>1, <2>1, BudgetsSets DEF Budgets!BooksAgree, Budgets!LimitsHold
  <2>3. QED
    BY <1>1, <2>1, <2>2, AiStep, BudgetsSets
<1>7. service = "chat" => /\ \A e \in log' : e.by \in Visitors
                          /\ \A w \in Visitors : Budgets!Recent(chats[w], Minute)' = {e \in log' : e.by = w}
                          /\ Budgets!ChatLimited'
  <2>1. HAVE service = "chat"
  <2>2. /\ \A e \in log : e.by \in Visitors
        /\ \A w \in Visitors : Budgets!Recent(chats[w], Minute) = {e \in log : e.by = w}
        /\ Budgets!ChatLimited
    BY <1>1, <2>1 DEF Budgets!BooksAgree, Budgets!LimitsHold
  <2>3. QED
    BY <1>1, <2>1, <2>2, ChatStep
<1>8. Budgets!WindowsHold'
  <2>1. CASE service \in Budgets!Windowed
    BY <1>1, <2>1, WindowsStep
  <2>2. CASE service \notin Budgets!Windowed
    BY <1>2, <2>2 DEF Budgets!WindowsHold
  <2>3. QED
    BY <2>1, <2>2
<1>9. service = "places" => Budgets!SearchesAhead' /\ GapApart'
  <2>1. HAVE service = "places"
  <2>2. GapApart
    BY <1>1, <2>1 DEF Budgets!LimitsHold, GapApart
  <2>3. QED
    BY <1>1, <2>1, <2>2, PlacesStep
<1>10. Budgets!SearchesAhead'
  BY <1>2, <1>9 DEF Budgets!SearchesAhead
<1>11. Budgets!BooksAgree'
  BY <1>2, <1>5, <1>6, <1>7 DEF Budgets!BooksAgree
<1>12. service \in Budgets!Windowed
         => \A k \in Budgets!Kinds : Budgets!Cardinality(Budgets!By(k, Minute))' <= 2 * WindowCap
  <2>1. HAVE service \in Budgets!Windowed
  <2>2. start' \in Nat
    BY <1>4 DEF Budgets!TypeOK
  <2>3. QED
    BY <1>2, <1>4, <1>8, <2>1, <2>2, TwoWindows, BudgetsSets
<1>13. active' <= MaxActive /\ Budgets!Cardinality(drafts)' < DraftCap + MaxActive
  <2>1. active' \in 0..MaxActive /\ preparing' \in 0..MaxActive
    BY <1>4 DEF Budgets!TypeOK
  <2>2. IsFiniteSet(drafts') /\ Cardinality(drafts') + preparing' < DraftCap + MaxActive
    BY <1>4, BudgetsSets DEF Budgets!CallsFit
  <2>3. Cardinality(drafts') \in Nat
    BY <2>2, FS_CardinalityType
  <2>4. active' <= MaxActive /\ Cardinality(drafts') < DraftCap + MaxActive
    BY <2>1, <2>2, <2>3, BudgetsNumbers
  <2>5. QED
    BY <2>4, BudgetsSets
<1>14. Budgets!LimitsHold'
  BY <1>2, <1>5, <1>6, <1>7, <1>9, <1>12, <1>13 DEF Budgets!LimitsHold, GapApart
<1>15. QED
  BY <1>4, <1>8, <1>10, <1>11, <1>14 DEF Budgets!BudgetsInv

-----------------------------------------------------------------------------
(* The quotes *)

\* Of a count, the greatest number whose square fits: there is one.
LEMMA LargestFits ==
  ASSUME NEW n \in Nat \ {0}, NEW top \in Nat, NEW M \in Nat, (top + 1) * (top + 1) * n > M
  PROVE  \E j \in 0..top : j * j * n <= M /\ (j + 1) * (j + 1) * n > M
<1>1. PICK T : T = {k \in Nat : (k + 1) * (k + 1) * n > M}
  OBVIOUS
<1>2. top \in T
  BY <1>1
<1>3. PICK k \in T : \A j \in T : k <= j
  BY <1>1, <1>2, LeastNat
<1>4. k \in Nat /\ k <= top /\ (k + 1) * (k + 1) * n > M
  BY <1>1, <1>2, <1>3
<1>5. k * k * n <= M
  <2>1. CASE k = 0
    <3>1. 0 * 0 * n = 0
      OBVIOUS
    <3>2. QED
      BY <2>1, <3>1
  <2>2. CASE k > 0
    <3>1. k - 1 \in Nat /\ ~(k <= k - 1) /\ (k - 1) + 1 = k
      BY <1>4, <2>2
    <3>2. k - 1 \notin T
      BY <1>3, <3>1
    <3>3. ~(k * k * n > M)
      BY <1>1, <3>1, <3>2
    <3>4. k * k * n \in Int
      BY <1>4
    <3>5. QED
      BY <3>3, <3>4
  <2>3. QED
    BY <1>4, <2>1, <2>2
<1>6. k \in 0..top
  BY <1>4
<1>7. QED
  BY <1>4, <1>5, <1>6

\* The relative error of a count is the least number the inverse root allows: one exists.
LEMMA RelativeErrorIs ==
  ASSUME NEW n \in 1..Quotes!MaxCount
  PROVE  Quotes!RelativeError[n] \in 0..1000 /\ Quotes!InvRoot(Quotes!RelativeError[n], n)
<1>1. (1000 + 1) * (1000 + 1) * n > Quotes!Million /\ Quotes!Million \in Nat /\ n \in Nat \ {0}
  BY SMT DEF Quotes!Million, Quotes!MaxCount
<1>2. \E k \in 0..1000 : Quotes!InvRoot(k, n)
  BY <1>1, LargestFits, SMT DEF Quotes!InvRoot
<1>3. Quotes!RelativeError[n] = CHOOSE k \in 0..1000 : Quotes!InvRoot(k, n)
  BY Zenon DEF Quotes!RelativeError
<1>4. QED
  BY <1>2, <1>3, Zenon

\* A later count has the same error or a smaller one, by less than its share.
LEMMA ErrorsFade ==
  ASSUME NEW n \in Nat \ {0}, NEW m \in Nat, n <= m, NEW M \in Nat,
         NEW x \in Nat, NEW y \in Nat, x * x * n <= M, (y + 1) * (y + 1) * m > M
  PROVE  x * n < (y + 1) * m
<1>1. x * x * n * n <= M * m
  <2>1. PICK z \in Nat : z = x * x * n
    OBVIOUS
  <2>2. z * n <= M * n /\ M * n <= M * m /\ z * n \in Nat /\ M * n \in Nat /\ M * m \in Nat
    BY <2>1
  <2>3. QED
    BY <2>1, <2>2
<1>2. (y + 1) * (y + 1) * m * m > M * m
  <2>1. PICK z \in Nat : z = (y + 1) * (y + 1) * m
    OBVIOUS
  <2>2. z * m > M * m
    BY <2>1
  <2>3. QED
    BY <2>1, <2>2
<1>3. PICK e \in Nat, f \in Nat : e = x * n /\ f = (y + 1) * m
  OBVIOUS
<1>4. e * e = x * x * n * n /\ f * f = (y + 1) * (y + 1) * m * m
  BY <1>3
<1>5. e * e < f * f
  BY <1>1, <1>2, <1>4
<1>6. e < f
  BY <1>5
<1>7. QED
  BY <1>3, <1>6

\* The rate of a count.
LEMMA LambdaIs ==
  ASSUME NEW n \in 1..Quotes!MaxCount
  PROVE  /\ Quotes!Lambda(n, 57) \in Nat
         /\ 513 * Quotes!Lambda(n, 57) <= Quotes!Million * n
         /\ Quotes!Million * n < 513 * Quotes!Lambda(n, 57) + 513
<1>1. Quotes!Lambda(n, 57) = (n * Quotes!Million) \div 513
  <2>1. Quotes!MODEL.referenceKm = 300 /\ Quotes!MODEL.triggerKm = 100
    BY SMT DEF Quotes!MODEL
  <2>2. 57 * ((300 * 300) \div (100 * 100)) = 513
    BY SMT
  <2>3. QED
    BY <2>1, <2>2, SMT DEF Quotes!Lambda
<1>2. PICK t \in Nat : t = n * Quotes!Million /\ t = Quotes!Million * n
  BY SMT DEF Quotes!Million
<1>3. t \div 513 \in Nat /\ 513 * (t \div 513) <= t /\ t < 513 * (t \div 513) + 513
  BY SMT
<1>4. QED
  BY <1>1, <1>2, <1>3, SMT

\* The charge for the error shrinks by less than an event adds.
LEMMA ChargeShrinksLess ==
  ASSUME NEW n \in Nat, NEW m \in Nat, NEW M \in Nat, NEW D \in Nat \ {0},
         NEW l \in Nat, NEW k \in Nat, NEW x \in Nat, NEW y \in Nat,
         D * l <= M * n, M * m < D * k + D, x * n < (y + 1) * m
  PROVE  l * x <= k * y + k + y
<1>1. D * l * x <= M * (x * n)
  <2>1. PICK e \in Nat, f \in Nat : e = D * l /\ f = M * n
    OBVIOUS
  <2>2. e <= f
    BY <2>1
  <2>3. e * x <= f * x
    BY <2>2
  <2>4. f * x = M * (x * n)
    BY <2>1
  <2>5. QED
    BY <2>1, <2>3, <2>4
<1>2. M * (x * n) <= M * ((y + 1) * m)
  <2>1. PICK e \in Nat, f \in Nat : e = x * n /\ f = (y + 1) * m
    OBVIOUS
  <2>2. e <= f
    BY <2>1
  <2>3. M * e <= M * f
    BY <2>2
  <2>4. QED
    BY <2>1, <2>3
<1>3. M * ((y + 1) * m) < (D * k + D) * (y + 1)
  <2>1. PICK e \in Nat, f \in Nat : e = M * m /\ f = D * k + D
    OBVIOUS
  <2>2. e < f
    BY <2>1
  <2>3. e * (y + 1) < f * (y + 1)
    BY <2>2
  <2>4. M * ((y + 1) * m) = e * (y + 1)
    BY <2>1
  <2>5. QED
    BY <2>1, <2>3, <2>4
<1>4. (D * k + D) * (y + 1) = D * ((k + 1) * (y + 1))
  OBVIOUS
<1>5. PICK e \in Nat, f \in Nat : e = l * x /\ f = (k + 1) * (y + 1)
  OBVIOUS
<1>6. D * e < D * f
  <2>1. D * e = D * l * x
    BY <1>5
  <2>2. D * e \in Nat /\ M * (x * n) \in Nat /\ M * ((y + 1) * m) \in Nat /\ D * f \in Nat
    BY <1>5
  <2>3. M * ((y + 1) * m) < D * f
    BY <1>3, <1>4, <1>5
  <2>4. D * e <= M * (x * n)
    BY <1>1, <2>1
  <2>5. QED
    BY <1>2, <2>2, <2>3, <2>4
<1>7. e < f
  BY <1>6
<1>8. f = k * y + k + y + 1
  BY <1>5
<1>9. QED
  BY <1>5, <1>7, <1>8

\* More events make a higher rate, charge and all, and none is too high for the model.
LEMMA LambdaGrows ==
  ASSUME NEW n \in 1..Quotes!MaxCount, NEW m \in 1..Quotes!MaxCount, n <= m
  PROVE  /\ Quotes!LambdaPriced(n, 57) \in Nat /\ Quotes!LambdaPriced(m, 57) \in Nat
         /\ Quotes!LambdaPriced(n, 57) <= Quotes!LambdaPriced(m, 57)
         /\ Quotes!LambdaPriced(m, 57) <= 500000
<1>1. PICK l \in Nat, k \in Nat : l = Quotes!Lambda(n, 57) /\ k = Quotes!Lambda(m, 57)
  BY LambdaIs, Zenon
<1>2. PICK x \in Nat, y \in Nat : x = Quotes!RelativeError[n] /\ y = Quotes!RelativeError[m] /\ x <= 1000 /\ y <= 1000
  <2>1. Quotes!RelativeError[n] \in 0..1000 /\ Quotes!RelativeError[m] \in 0..1000
    BY RelativeErrorIs, Zenon
  <2>2. PICK x : x = Quotes!RelativeError[n]
    OBVIOUS
  <2>3. PICK y : y = Quotes!RelativeError[m]
    OBVIOUS
  <2>4. x \in 0..1000 /\ y \in 0..1000
    BY <2>1, <2>2, <2>3, Zenon
  <2>5. x \in Nat /\ y \in Nat /\ x <= 1000 /\ y <= 1000
    BY <2>4, SMT
  <2>6. QED
    BY <2>2, <2>3, <2>5
<1>3. /\ Quotes!LambdaPriced(n, 57) = l + (l * x) \div 1000
      /\ Quotes!LambdaPriced(m, 57) = k + (k * y) \div 1000
  <2>1. Quotes!MODEL.z = 1 /\ n # 0 /\ m # 0 /\ l * 1 = l /\ k * 1 = k
    BY SMT DEF Quotes!MODEL
  <2>2. QED
    BY <1>1, <1>2, <2>1, SMT DEF Quotes!LambdaPriced
<1>4. /\ 513 * l <= Quotes!Million * n /\ Quotes!Million * n < 513 * l + 513
      /\ 513 * k <= Quotes!Million * m /\ Quotes!Million * m < 513 * k + 513
  <2>1. /\ 513 * Quotes!Lambda(n, 57) <= Quotes!Million * n
        /\ Quotes!Million * n < 513 * Quotes!Lambda(n, 57) + 513
    BY LambdaIs, SMT
  <2>2. /\ 513 * Quotes!Lambda(m, 57) <= Quotes!Million * m
        /\ Quotes!Million * m < 513 * Quotes!Lambda(m, 57) + 513
    BY LambdaIs, SMT
  <2>3. QED
    BY <1>1, <2>1, <2>2, SMT
<1>5. /\ x * x * n <= Quotes!Million /\ (y + 1) * (y + 1) * m > Quotes!Million
  BY <1>2, RelativeErrorIs, SMT DEF Quotes!InvRoot
<1>6. /\ n \in Nat \ {0} /\ m \in Nat \ {0} /\ Quotes!Million \in Nat /\ m <= 120 /\ Quotes!Million = 1000000
      /\ 513 \in Nat \ {0}
  BY SMT DEF Quotes!MaxCount, Quotes!Million
<1>7. x * n < (y + 1) * m
  BY <1>5, <1>6, ErrorsFade, SMT
<1>8. l * x <= k * y + k + y
  BY <1>4, <1>6, <1>7, ChargeShrinksLess, SMT
<1>9. k <= 240000 /\ l <= 240000
  BY <1>4, <1>6, SMT
<1>10. k * y <= k * 1000 /\ k * y \in Nat /\ l * x \in Nat
  BY <1>2, SMT
<1>11. PICK e \in Nat, f \in Nat : e = l * x /\ f = k * y
  BY <1>10, SMT
<1>12. e <= f + k + y /\ f <= k * 1000
  BY <1>8, <1>10, <1>11, SMT
<1>13. CASE n = m
  <2>1. l = k /\ x = y
    BY <1>1, <1>2, <1>13, Zenon
  <2>2. f \div 1000 \in Nat /\ k + f \div 1000 \in Nat /\ k + f \div 1000 <= 500000
    BY <1>9, <1>12, SMT
  <2>3. QED
    BY <1>3, <1>11, <2>1, <2>2, SMT
<1>14. CASE n < m
  <2>1. l + 1949 <= k
    BY <1>4, <1>6, <1>14, SMT
  <2>2. e <= f + 250000
    BY <1>2, <1>9, <1>12, SMT
  <2>3. e \div 1000 <= f \div 1000 + 251 /\ e \div 1000 \in Nat /\ f \div 1000 \in Nat /\ f \div 1000 <= k
    BY <1>12, <2>2, SMT
  <2>4. l + e \div 1000 \in Nat /\ k + f \div 1000 \in Nat /\ l + e \div 1000 <= k + f \div 1000
        /\ k + f \div 1000 <= 500000
    BY <1>9, <2>1, <2>3, SMT
  <2>5. QED
    BY <1>3, <1>11, <2>4, SMT
<1>15. QED
  BY <1>6, <1>13, <1>14, SMT

\* Three terms of the series, while they are the leading ones, grow.
LEMMA SeriesGrows ==
  ASSUME NEW M \in Nat \ {0}, NEW x \in Nat, NEW y \in Nat, x <= y, y <= M
  PROVE  x - (x * x) \div (2 * M) + (((x * x) \div M) * x) \div (6 * M)
            <= y - (y * y) \div (2 * M) + (((y * y) \div M) * y) \div (6 * M)
<1>1. PICK a \in Nat, e \in Nat, d \in Nat : a = x * x /\ e = y * y /\ d = y - x
  OBVIOUS
<1>2. e <= a + (2 * M) * d
  <2>1. y = x + d
    BY <1>1
  <2>2. e = a + d * (2 * x + d)
    BY <1>1, <2>1
  <2>3. 2 * x + d <= 2 * M
    BY <1>1
  <2>4. d * (2 * x + d) <= d * (2 * M)
    BY <2>3
  <2>5. QED
    BY <2>2, <2>4
<1>3. ASSUME NEW p \in Nat, NEW w \in Nat, NEW k \in Nat \ {0}, p <= w
      PROVE  p \div k <= w \div k /\ p \div k \in Nat /\ w \div k \in Nat
  BY <1>3
<1>4. (a + (2 * M) * d) \div (2 * M) = a \div (2 * M) + d
  OBVIOUS
<1>5. e \div (2 * M) <= a \div (2 * M) + d /\ e \div (2 * M) \in Nat /\ a \div (2 * M) \in Nat
  <2>1. 2 * M \in Nat \ {0} /\ a + (2 * M) * d \in Nat
    OBVIOUS
  <2>2. QED
    BY <1>2, <1>3, <1>4, <2>1
<1>6. a <= e
  BY <1>1
<1>7. a \div M <= e \div M /\ a \div M \in Nat /\ e \div M \in Nat
  BY <1>3, <1>6
<1>8. (a \div M) * x <= (e \div M) * y /\ (a \div M) * x \in Nat /\ (e \div M) * y \in Nat
  BY <1>7
<1>9. ((a \div M) * x) \div (6 * M) <= ((e \div M) * y) \div (6 * M)
      /\ ((a \div M) * x) \div (6 * M) \in Nat /\ ((e \div M) * y) \div (6 * M) \in Nat
  <2>1. 6 * M \in Nat \ {0}
    OBVIOUS
  <2>2. QED
    BY <1>3, <1>8, <2>1
<1>10. PICK u \in Nat, w \in Nat, g \in Nat, h \in Nat :
          /\ u = a \div (2 * M) /\ w = e \div (2 * M)
          /\ g = ((a \div M) * x) \div (6 * M) /\ h = ((e \div M) * y) \div (6 * M)
  BY <1>5, <1>9
<1>11. w <= u + d /\ g <= h /\ d = y - x
  BY <1>1, <1>5, <1>9, <1>10
<1>12. x - u + g <= y - w + h
  BY <1>11
<1>13. QED
  BY <1>1, <1>10, <1>12

\* A count's chance of a trigger within a window is no more than a later count's.
LEMMA ProbabilityGrows ==
  ASSUME NEW n \in 1..Quotes!MaxCount, NEW m \in 1..Quotes!MaxCount, n <= m, NEW days \in 7..62
  PROVE  /\ Quotes!Probability(Quotes!LambdaPriced(n, 57), days) \in Int
         /\ Quotes!Probability(Quotes!LambdaPriced(m, 57), days) \in Int
         /\ Quotes!Probability(Quotes!LambdaPriced(n, 57), days)
              <= Quotes!Probability(Quotes!LambdaPriced(m, 57), days)
<1>1. PICK l \in Nat, k \in Nat :
        l = Quotes!LambdaPriced(n, 57) /\ k = Quotes!LambdaPriced(m, 57) /\ l <= k /\ k <= 500000
  <2>1. /\ Quotes!LambdaPriced(n, 57) \in Nat /\ Quotes!LambdaPriced(m, 57) \in Nat
        /\ Quotes!LambdaPriced(n, 57) <= Quotes!LambdaPriced(m, 57)
        /\ Quotes!LambdaPriced(m, 57) <= 500000
    BY LambdaGrows, SMT
  <2>2. PICK l \in Nat : l = Quotes!LambdaPriced(n, 57)
    BY <2>1, SMT
  <2>3. PICK k \in Nat : k = Quotes!LambdaPriced(m, 57)
    BY <2>1, SMT
  <2>4. l <= k /\ k <= 500000
    BY <2>1, <2>2, <2>3, SMT
  <2>5. QED
    BY <2>2, <2>3, <2>4, SMT
<1>2. PICK x \in Nat, y \in Nat : x = (l * days) \div 365 /\ y = (k * days) \div 365 /\ x <= y /\ y <= 1000000
  <2>1. PICK e \in Nat, f \in Nat : e = l * days /\ f = k * days
    BY SMT
  <2>2. e <= f
    BY <1>1, <2>1, SMT
  <2>3. f <= 31000000
    <3>1. k * days <= k * 62
      BY SMT
    <3>2. QED
      BY <1>1, <2>1, <3>1, SMT
  <2>4. e \div 365 \in Nat /\ f \div 365 \in Nat /\ e \div 365 <= f \div 365 /\ f \div 365 <= 1000000
    BY <2>2, <2>3, SMT
  <2>5. QED
    BY <2>1, <2>4, SMT
<1>3. Quotes!Million \in Nat \ {0} /\ y <= Quotes!Million
  BY <1>2, SMT DEF Quotes!Million
<1>4. /\ Quotes!Probability(l, days) = x - (x * x) \div (2 * Quotes!Million)
                                        + (((x * x) \div Quotes!Million) * x) \div (6 * Quotes!Million)
      /\ Quotes!Probability(k, days) = y - (y * y) \div (2 * Quotes!Million)
                                        + (((y * y) \div Quotes!Million) * y) \div (6 * Quotes!Million)
  BY <1>2, SMT DEF Quotes!Probability
<1>5. Quotes!Probability(l, days) <= Quotes!Probability(k, days)
  BY <1>2, <1>3, <1>4, SeriesGrows, SMT
<1>6. Quotes!Probability(l, days) \in Int /\ Quotes!Probability(k, days) \in Int
  <2>1. ASSUME NEW z \in Nat, NEW M \in Nat \ {0}
        PROVE  z - (z * z) \div (2 * M) + (((z * z) \div M) * z) \div (6 * M) \in Int
    <3>1. 2 * M \in Nat \ {0} /\ 6 * M \in Nat \ {0} /\ z * z \in Nat
      BY SMT
    <3>2. (z * z) \div (2 * M) \in Int /\ (z * z) \div M \in Int
      BY <3>1, SMT
    <3>3. ((z * z) \div M) * z \in Int
      BY <3>2, SMT
    <3>4. (((z * z) \div M) * z) \div (6 * M) \in Int
      BY <3>1, <3>3, SMT
    <3>5. QED
      BY <3>2, <3>4, SMT
  <2>2. QED
    BY <1>3, <1>4, <2>1, SMT
<1>7. QED
  BY <1>1, <1>5, <1>6, SMT

\* What is divided by more is no more.
LEMMA DividedByMore ==
  ASSUME NEW a \in Nat, NEW p \in Nat \ {0}, NEW w \in Nat \ {0}, p <= w
  PROVE  a \div w <= a \div p /\ a \div p <= a /\ a \div w \in Nat /\ a \div p \in Nat
<1>1. PICK e \in Nat, f \in Nat : e = a \div p /\ f = a \div w
  OBVIOUS
<1>2. a < p * (e + 1) /\ w * f <= a /\ p * e <= a
  BY <1>1
<1>3. p * f <= w * f
  OBVIOUS
<1>4. p * f < p * (e + 1)
  <2>1. p * f \in Nat /\ w * f \in Nat /\ p * (e + 1) \in Nat
    OBVIOUS
  <2>2. QED
    BY <1>2, <1>3, <2>1
<1>5. f < e + 1
  BY <1>4
<1>6. e <= p * e
  OBVIOUS
<1>7. p * e \in Nat
  OBVIOUS
<1>8. e <= a
  BY <1>2, <1>6, <1>7
<1>9. QED
  BY <1>1, <1>5, <1>8

\* So a budget buys no more cover at a later count.
LEMMA CoverShrinks ==
  ASSUME NEW n \in 1..Quotes!MaxCount, NEW m \in 1..Quotes!MaxCount, n <= m,
         NEW days \in 7..62, NEW budget \in 1..50
  PROVE  Quotes!CoverForBudget(Quotes!LambdaPriced(m, 57), budget, days)
           <= Quotes!CoverForBudget(Quotes!LambdaPriced(n, 57), budget, days)
<1>1. PICK p \in Int : p = Quotes!Probability(Quotes!LambdaPriced(n, 57), days)
  BY ProbabilityGrows, SMT
<1>2. PICK w \in Int : w = Quotes!Probability(Quotes!LambdaPriced(m, 57), days)
  BY ProbabilityGrows, SMT
<1>3. p <= w
  BY <1>1, <1>2, ProbabilityGrows, SMT
<1>4. Quotes!Million \div Quotes!OverLossRatio(1) = 500000 /\ Quotes!Infinity = 100000000
  BY SMT DEF Quotes!Million, Quotes!OverLossRatio, Quotes!Infinity
<1>5. PICK a \in Nat : a = budget * 500000 /\ a <= 25000000
  BY SMT
<1>6. /\ Quotes!CoverForBudget(Quotes!LambdaPriced(n, 57), budget, days)
            = IF p <= 0 THEN Quotes!Infinity ELSE a \div p
      /\ Quotes!CoverForBudget(Quotes!LambdaPriced(m, 57), budget, days)
            = IF w <= 0 THEN Quotes!Infinity ELSE a \div w
  BY <1>1, <1>2, <1>4, <1>5, SMT DEF Quotes!CoverForBudget
<1>7. CASE w <= 0
  <2>1. p <= 0 /\ Quotes!Infinity <= Quotes!Infinity
    BY <1>3, <1>4, <1>7, SMT
  <2>2. QED
    BY <1>6, <1>7, <2>1, SMT
<1>8. CASE w > 0 /\ p <= 0
  <2>1. w \in Nat \ {0} /\ ~(w <= 0)
    BY <1>8, SMT
  <2>2. a \div w <= a /\ a \div w \in Nat
    <3>1. w <= w
      BY <2>1, SMT
    <3>2. QED
      BY <2>1, <3>1, DividedByMore, Zenon
  <2>3. a \div w <= Quotes!Infinity
    BY <1>4, <1>5, <2>2, SMT
  <2>4. QED
    BY <1>6, <1>8, <2>1, <2>3, SMT
<1>9. CASE w > 0 /\ p > 0
  <2>1. w \in Nat \ {0} /\ p \in Nat \ {0} /\ ~(w <= 0) /\ ~(p <= 0)
    BY <1>9, SMT
  <2>2. a \div w <= a \div p
    BY <1>3, <2>1, DividedByMore, Zenon
  <2>3. QED
    BY <1>6, <2>1, <2>2, SMT
<1>10. QED
  BY <1>7, <1>8, <1>9, SMT

\* The inputs and the counts of events as numbers.
LEMMA InputsAre ==
  /\ \A i \in Inputs : i.budget \in 1..50 /\ i.days \in 7..62
  /\ FirstCount \in Nat /\ LastCount \in FirstCount..Quotes!MaxCount /\ Inputs # {}
  BY SMT DEF Quotes!QuotesAssumption, Quotes!ValidQuote

\* What a quote says: of no record, that there is none; else its budget, and the cover that buys.
LEMMA PricedIs ==
  ASSUME NEW i \in Inputs, NEW n \in 0..Quotes!MaxCount
  PROVE  /\ Quotes!Priced(i, n).ok <=> n > 0
         /\ n > 0 => /\ Quotes!Priced(i, n).premium = 100 * i.budget
                     /\ Quotes!Priced(i, n).payout
                          = Quotes!CoverForBudget(Quotes!LambdaPriced(n, 57), i.budget, i.days)
<1>1. i.budget \in 1..50 /\ i.days \in 7..62 /\ Quotes!ValidQuote(i.budget, i.days)
  BY InputsAre, SMT DEF Quotes!ValidQuote
<1>2. PICK ask : ask = [payout |-> Quotes!None, budget |-> i.budget, days |-> i.days]
  OBVIOUS
<1>3. ask.payout = Quotes!None /\ ask.budget = i.budget /\ ask.days = i.days
  BY <1>2
<1>4. Quotes!Priced(i, n) = Quotes!Underwrite(n, Quotes!LambdaPriced(n, 57), ask)
  BY <1>1, <1>2 DEF Quotes!Priced, Quotes!QuotePolicy, Quotes!Years
<1>5. PICK premium, payout : /\ premium = 100 * i.budget
                             /\ payout = Quotes!CoverForBudget(Quotes!LambdaPriced(n, 57), i.budget, i.days)
  OBVIOUS
<1>6. i.days <= Quotes!MAX_DAYS /\ ~(i.days > Quotes!MAX_DAYS) /\ ~(premium < Quotes!MinimumPremium)
  BY <1>1, <1>5, SMT DEF Quotes!MAX_DAYS, Quotes!MinimumPremium, Quotes!OverLossRatio, Quotes!IssueCost
<1>7. Quotes!Underwrite(n, Quotes!LambdaPriced(n, 57), ask)
        = IF n = 0 THEN Quotes!Refused("no_record")
          ELSE [ok |-> TRUE, reason |-> "none", premium |-> premium, payout |-> payout,
                expectedLoss |-> Quotes!ExpectedLoss(Quotes!LambdaPriced(n, 57), payout, i.days)]
  <2>1. n = 0 \/ n > 0
    BY SMT DEF Quotes!MaxCount
  <2>2. n = 0 => ~(n > 0)
    BY SMT
  <2>3. QED
    BY <1>3, <1>5, <1>6, <2>1, <2>2 DEF Quotes!Underwrite
<1>8. CASE n = 0
  <2>1. Quotes!Priced(i, n).ok = FALSE /\ ~(n > 0)
    BY <1>4, <1>7, <1>8, SMT DEF Quotes!Refused
  <2>2. QED
    BY <2>1
<1>9. CASE n # 0
  <2>1. n > 0
    BY <1>9, SMT DEF Quotes!MaxCount
  <2>2. /\ Quotes!Priced(i, n).ok = TRUE
        /\ Quotes!Priced(i, n).premium = premium /\ Quotes!Priced(i, n).payout = payout
    BY <1>4, <1>7, <1>9
  <2>3. QED
    BY <1>5, <2>1, <2>2
<1>10. QED
  BY <1>8, <1>9

\* What the terms of a quote are.
LEMMA TermsAre ==
  ASSUME NEW i \in Inputs, NEW t
  PROVE  /\ Quotes!Terms(i, t).for = i /\ Quotes!Terms(i, t).premium = t.premium
         /\ Quotes!Terms(i, t).payout = t.payout /\ Quotes!Terms(i, t) # Quotes!NoQuote
<1>1. /\ Quotes!Terms(i, t).for = i /\ Quotes!Terms(i, t).premium = t.premium
      /\ Quotes!Terms(i, t).payout = t.payout
  BY DEF Quotes!Terms
<1>2. Quotes!NoQuote.for.budget = 0
  BY DEF Quotes!NoQuote
<1>3. i.budget # 0
  BY InputsAre, SMT
<1>4. QED
  BY <1>1, <1>2, <1>3

\* Of what is read later, the premium is the same and the cover no more.
LEMMA LaterTerms ==
  ASSUME input \in Inputs, NEW n \in 0..Quotes!MaxCount, NEW m \in 0..Quotes!MaxCount, n <= m,
         NEW t, NEW u, Quotes!AsOf(t, n), Quotes!AsOf(u, m)
  PROVE  /\ t.for = input /\ u.for = input /\ t.premium = u.premium
         /\ u.payout <= t.payout /\ (n = m => u.payout = t.payout)
<1>1. /\ Quotes!Priced(input, n).ok /\ t = Quotes!Terms(input, Quotes!Priced(input, n))
      /\ Quotes!Priced(input, m).ok /\ u = Quotes!Terms(input, Quotes!Priced(input, m))
  BY DEF Quotes!AsOf
<1>2. n > 0 /\ m > 0
  BY <1>1, PricedIs
<1>3. n \in 1..Quotes!MaxCount /\ m \in 1..Quotes!MaxCount
  BY <1>2, SMT DEF Quotes!MaxCount
<1>4. input.budget \in 1..50 /\ input.days \in 7..62
  BY InputsAre
<1>5. /\ t.for = input /\ t.premium = 100 * input.budget
      /\ t.payout = Quotes!CoverForBudget(Quotes!LambdaPriced(n, 57), input.budget, input.days)
      /\ u.for = input /\ u.premium = 100 * input.budget
      /\ u.payout = Quotes!CoverForBudget(Quotes!LambdaPriced(m, 57), input.budget, input.days)
  BY <1>1, <1>2, PricedIs, TermsAre
<1>6. u.payout <= t.payout
  BY <1>3, <1>4, <1>5, CoverShrinks, Zenon
<1>7. QED
  BY <1>5, <1>6

-----------------------------------------------------------------------------
\* The panel's inductive invariant.

\* The counts an answer may have been read at are those recorded so far.
LEMMA CountsAre ==
  ASSUME Quotes!TypeOK
  PROVE  /\ FirstCount \in Nat /\ LastCount \in Nat /\ onRecord \in Nat /\ FirstCount <= onRecord
         /\ onRecord <= LastCount /\ Quotes!Counted \subseteq FirstCount..LastCount
         /\ Quotes!Counted \subseteq 0..Quotes!MaxCount /\ onRecord \in Quotes!Counted
         /\ Quotes!None \notin Quotes!Counted
<1>1. onRecord \in FirstCount..LastCount
  BY DEF Quotes!TypeOK
<1>2. FirstCount \in Nat /\ LastCount \in FirstCount..Quotes!MaxCount /\ Quotes!MaxCount \in Nat
  BY InputsAre, SMT DEF Quotes!MaxCount
<1>3. QED
  BY <1>1, <1>2, SMT DEF Quotes!Counted, Quotes!None

\* A fresh panel satisfies the invariant of the quotes.
LEMMA QuotesInit == Quotes!Init => Quotes!QuotesInv
<1> SUFFICES ASSUME Quotes!Init PROVE Quotes!QuotesInv
  OBVIOUS
<1>1. /\ onRecord = FirstCount /\ input \in Inputs /\ due = TRUE /\ asks = {} /\ view = "loading"
      /\ quoted = Quotes!NoQuote /\ posts = {} /\ agreed = Quotes!NoQuote /\ sold = Quotes!NoQuote
  BY InputsAre, Zenon DEF Quotes!Init
<1>2. onRecord \in FirstCount..LastCount
  BY <1>1, InputsAre, SMT
<1>3. Quotes!TypeOK
  BY <1>1, <1>2 DEF Quotes!TypeOK
<1>4. Quotes!QuotesAreRead
  BY <1>1 DEF Quotes!QuotesAreRead
<1>5. QED
  BY <1>3, <1>4 DEF Quotes!QuotesInv

Ask == [for : Inputs, seen : {Quotes!None} \cup FirstCount..LastCount, current : BOOLEAN]

\* What a step leaves of the invariant, conjunct by conjunct.
TypesAre(on, ii, d, aa, w, pp) ==
  /\ on \in FirstCount..LastCount /\ ii \in Inputs /\ d \in BOOLEAN /\ aa \subseteq Ask
  /\ w \in {"loading", "quoted", "declined", "issuing", "held", "uncertain"}
  /\ pp \subseteq {"this", "older"}

\* The type invariant, with its terms apart.
LEMMA TypesOfQuotes ==
  /\ Quotes!TypeOK <=> /\ TypesAre(onRecord, input, due, asks, view, posts)
                       /\ \A t \in {quoted, agreed, sold} : t = Quotes!NoQuote \/ t.for \in Inputs
  /\ Quotes!TypeOK' <=> /\ TypesAre(onRecord', input', due', asks', view', posts')
                        /\ \A t \in {quoted', agreed', sold'} : t = Quotes!NoQuote \/ t.for \in Inputs
  BY Zenon DEF Quotes!TypeOK, TypesAre, Ask

\* What a quote was at a count does not change while the form does not.
LEMMA AsOfKept ==
  ASSUME input' = input PROVE \A t, n : Quotes!AsOf(t, n)' <=> Quotes!AsOf(t, n)
  BY DEF Quotes!AsOf

\* A step of the same sliders: what was read stays read, and what is bought under them.
LEMMA SameSliders ==
  ASSUME Quotes!TypeOK, Quotes!QuotesAreRead, input' = input, Quotes!Counted \subseteq Quotes!Counted',
         \A a \in asks' : (a.current => a.for = input) /\ a.seen \in {Quotes!None} \cup Quotes!Counted',
         view' = "quoted" => \E n \in Quotes!Counted' : Quotes!AsOf(quoted', n),
         agreed' = agreed \/ (agreed = Quotes!NoQuote /\ \E n \in Quotes!Counted' : Quotes!AsOf(agreed', n)),
         "this" \in posts' => agreed' # Quotes!NoQuote,
         sold' = sold /\ (sold # Quotes!NoQuote => agreed' = agreed)
  PROVE  Quotes!QuotesAreRead'
<1>1. /\ agreed # Quotes!NoQuote => \E n \in Quotes!Counted : Quotes!AsOf(agreed, n)
      /\ sold # Quotes!NoQuote => \E n, m \in Quotes!Counted :
                                     n <= m /\ Quotes!AsOf(agreed, n) /\ Quotes!AsOf(sold, m)
  BY Zenon DEF Quotes!QuotesAreRead
<1>2. \A t, n : Quotes!AsOf(t, n)' <=> Quotes!AsOf(t, n)
  BY AsOfKept
<1>3. agreed' # Quotes!NoQuote => \E n \in Quotes!Counted' : Quotes!AsOf(agreed', n)
  BY <1>1, Zenon
<1>4. sold' # Quotes!NoQuote => \E n, m \in Quotes!Counted' :
                                   n <= m /\ Quotes!AsOf(agreed', n) /\ Quotes!AsOf(sold', m)
  BY <1>1, Zenon
<1>5. /\ (view' = "quoted" => \E n \in Quotes!Counted' : Quotes!AsOf(quoted, n)')
      /\ (agreed' # Quotes!NoQuote => \E n \in Quotes!Counted' : Quotes!AsOf(agreed, n)')
      /\ (sold' # Quotes!NoQuote => \E n, m \in Quotes!Counted' :
                                       n <= m /\ Quotes!AsOf(agreed, n)' /\ Quotes!AsOf(sold, m)')
  BY <1>3, <1>4, Zenon DEF Quotes!AsOf
<1>6. Quotes!NoQuote' = Quotes!NoQuote /\ Quotes!None' = Quotes!None
  OBVIOUS
<1>7. QED
  BY <1>5, <1>6, Zenon DEF Quotes!QuotesAreRead

\* The steps that leave the sliders where they are.
Kept(x) == \A a \in x : (a.current => a.for = input) /\ a.seen \in {Quotes!None} \cup Quotes!Counted

\* Every step of the panel, the server and the catalogue keeps the invariant.
LEMMA QuotesNext == Quotes!QuotesInv /\ [Quotes!Next]_q => Quotes!QuotesInv'
<1> SUFFICES ASSUME Quotes!QuotesInv, [Quotes!Next]_q PROVE Quotes!QuotesInv'
  OBVIOUS
<1>1. Quotes!TypeOK /\ Quotes!QuotesAreRead
  BY DEF Quotes!QuotesInv
<1>2. /\ TypesAre(onRecord, input, due, asks, view, posts)
      /\ \A t \in {quoted, agreed, sold} : t = Quotes!NoQuote \/ t.for \in Inputs
  BY <1>1, TypesOfQuotes
<1>3. /\ onRecord \in FirstCount..LastCount /\ input \in Inputs /\ due \in BOOLEAN /\ asks \subseteq Ask
      /\ view \in {"loading", "quoted", "declined", "issuing", "held", "uncertain"}
      /\ posts \subseteq {"this", "older"}
  BY <1>2 DEF TypesAre
<1>4. /\ \A a \in asks : (a.current => a.for = input) /\ a.seen \in {Quotes!None} \cup Quotes!Counted
      /\ view = "quoted" => \E n \in Quotes!Counted : Quotes!AsOf(quoted, n)
      /\ agreed # Quotes!NoQuote => \E n \in Quotes!Counted : Quotes!AsOf(agreed, n)
      /\ "this" \in posts => agreed # Quotes!NoQuote
      /\ sold # Quotes!NoQuote => \E n, m \in Quotes!Counted :
                                     n <= m /\ Quotes!AsOf(agreed, n) /\ Quotes!AsOf(sold, m)
  BY <1>1, Zenon DEF Quotes!QuotesAreRead
<1>5. /\ \A i \in Inputs : i # [budget |-> 0, days |-> 0]
      /\ Quotes!Counted \subseteq FirstCount..LastCount /\ Quotes!Counted \subseteq 0..Quotes!MaxCount
      /\ onRecord \in Quotes!Counted
      /\ Quotes!None \notin Quotes!Counted
  <2>1. \A i \in Inputs : i.budget # 0
    BY InputsAre, SMT
  <2>2. QED
    BY <1>1, <2>1, CountsAre
\* What is shown, bought or sold is of the sliders.
<1>6. \A t, n : Quotes!AsOf(t, n) => t.for \in Inputs /\ t # Quotes!NoQuote
  BY <1>3, TermsAre DEF Quotes!AsOf
\* Enough for the types, and for what is read.
<1>7. ASSUME TypesAre(onRecord', input', due', asks', view', posts'),
             quoted' = Quotes!NoQuote \/ quoted'.for \in Inputs,
             agreed' = Quotes!NoQuote \/ agreed'.for \in Inputs,
             sold' = Quotes!NoQuote \/ sold'.for \in Inputs,
             Quotes!QuotesAreRead'
      PROVE  Quotes!QuotesInv'
  <2>1. \A t \in {quoted', agreed', sold'} : t = Quotes!NoQuote \/ t.for \in Inputs
    BY <1>7
  <2>2. Quotes!TypeOK'
    BY <1>7, <2>1, TypesOfQuotes, Zenon
  <2>3. QED
    BY <1>7, <2>2 DEF Quotes!QuotesInv
<1>8. (onRecord' = onRecord \/ onRecord' = onRecord + 1) => Quotes!Counted \subseteq Quotes!Counted'
  BY <1>3, InputsAre, SMT DEF Quotes!Counted
<1>9. CASE Quotes!Recorded
  <2>1. /\ onRecord < LastCount /\ onRecord' = onRecord + 1
        /\ UNCHANGED <<input, due, asks, view, quoted, posts, agreed, sold>>
    BY <1>9 DEF Quotes!Recorded
  <2>2. onRecord' \in FirstCount..LastCount
    BY <1>3, <2>1, InputsAre, SMT
  <2>3. Quotes!Counted \subseteq Quotes!Counted'
    BY <1>8, <2>1
  <2>4. Quotes!QuotesAreRead'
    <3>1. \A a \in asks' : (a.current => a.for = input) /\ a.seen \in {Quotes!None} \cup Quotes!Counted'
      BY <1>4, <2>1, <2>3
    <3>2. view' = "quoted" => \E n \in Quotes!Counted' : Quotes!AsOf(quoted', n)
      BY <1>4, <2>1, <2>3, Zenon
    <3>3. QED
      BY <1>1, <1>4, <2>1, <2>3, <3>1, <3>2, SameSliders
  <2>5. TypesAre(onRecord', input', due', asks', view', posts')
    BY <1>3, <2>1, <2>2 DEF TypesAre
  <2>6. QED
    BY <1>2, <1>7, <2>1, <2>4, <2>5
\* What was asked before is not current.
<1>10. ASSUME asks' = {[a EXCEPT !.current = FALSE] : a \in asks}
       PROVE  /\ asks' \subseteq Ask
              /\ \A a \in asks' : ~a.current /\ a.seen \in {Quotes!None} \cup Quotes!Counted
  <2>1. ASSUME NEW a \in asks
        PROVE  /\ [a EXCEPT !.current = FALSE] \in Ask
               /\ ~[a EXCEPT !.current = FALSE].current
               /\ [a EXCEPT !.current = FALSE].seen = a.seen
    <3>1. a \in Ask
      BY <1>3
    <3>2. QED
      BY <3>1 DEF Ask
  <2>2. QED
    BY <1>4, <1>10, <2>1
<1>11. ASSUME NEW i \in Inputs, Quotes!Slide(i) PROVE Quotes!QuotesInv'
  <2>1. /\ input' = i /\ view' = "loading" /\ quoted' = Quotes!NoQuote /\ due' = TRUE
        /\ asks' = {[a EXCEPT !.current = FALSE] : a \in asks}
        /\ posts' \subseteq {"older"} /\ agreed' = Quotes!NoQuote /\ sold' = Quotes!NoQuote
        /\ onRecord' = onRecord
    BY <1>11 DEF Quotes!Slide, Quotes!Requote
  <2>2. /\ asks' \subseteq Ask
        /\ \A a \in asks' : ~a.current /\ a.seen \in {Quotes!None} \cup Quotes!Counted
    BY <1>10, <2>1
  <2>3. Quotes!Counted' = Quotes!Counted
    BY <2>1 DEF Quotes!Counted
  <2>4. Quotes!QuotesAreRead'
    <3>1. Quotes!NoQuote' = Quotes!NoQuote /\ Quotes!None' = Quotes!None
      OBVIOUS
    <3>2. view' # "quoted" /\ "this" \notin posts'
      BY <2>1
    <3>3. QED
      BY <2>1, <2>2, <2>3, <3>1, <3>2, Zenon DEF Quotes!QuotesAreRead
  <2>5. TypesAre(onRecord', input', due', asks', view', posts')
    BY <1>3, <2>1, <2>2 DEF TypesAre
  <2>6. QED
    BY <1>7, <2>1, <2>4, <2>5
\* The other steps leave the sliders and the record.
<1>12. ASSUME UNCHANGED <<onRecord, input>>, due' \in BOOLEAN, asks' \subseteq Ask, Kept(asks'),
              view' \in {"loading", "quoted", "declined", "issuing", "held", "uncertain"},
              posts' \subseteq {"this", "older"},
              quoted' = Quotes!NoQuote \/ quoted' = quoted \/ \E n \in Quotes!Counted : Quotes!AsOf(quoted', n),
              view' = "quoted" => \E n \in Quotes!Counted : Quotes!AsOf(quoted', n),
              agreed' = agreed \/ (agreed = Quotes!NoQuote /\ \E n \in Quotes!Counted : Quotes!AsOf(agreed', n)),
              "this" \in posts' => agreed' # Quotes!NoQuote,
              sold' = sold
       PROVE  Quotes!QuotesInv'
  <2>1. Quotes!Counted' = Quotes!Counted
    BY <1>12 DEF Quotes!Counted
  <2>2. sold # Quotes!NoQuote => agreed' = agreed
    BY <1>4, <1>6, <1>12
  <2>3. \A a \in asks' : (a.current => a.for = input) /\ a.seen \in {Quotes!None} \cup Quotes!Counted'
    BY <1>12, <2>1 DEF Kept
  <2>4. Quotes!QuotesAreRead'
    BY <1>1, <1>12, <2>1, <2>2, <2>3, SameSliders
  <2>5. TypesAre(onRecord', input', due', asks', view', posts')
    BY <1>3, <1>12 DEF TypesAre
  <2>6. /\ quoted' = Quotes!NoQuote \/ quoted'.for \in Inputs
        /\ agreed' = Quotes!NoQuote \/ agreed'.for \in Inputs
        /\ sold' = Quotes!NoQuote \/ sold'.for \in Inputs
    BY <1>2, <1>6, <1>12
  <2>7. QED
    BY <1>7, <2>4, <2>5, <2>6
<1>13. Kept(asks)
  BY <1>4 DEF Kept
<1>14. CASE Quotes!QuoteAnew
  <2>1. /\ view' = "loading" /\ quoted' = Quotes!NoQuote /\ due' = TRUE
        /\ asks' = {[a EXCEPT !.current = FALSE] : a \in asks}
        /\ UNCHANGED <<onRecord, input, posts, agreed, sold>>
    BY <1>14 DEF Quotes!QuoteAnew, Quotes!Requote
  <2>2. asks' \subseteq Ask /\ Kept(asks')
    BY <1>10, <2>1 DEF Kept
  <2>3. QED
    BY <1>3, <1>4, <1>12, <2>1, <2>2
<1>15. CASE Quotes!Ask
  <2>1. /\ due' = FALSE /\ asks' = asks \cup {[for |-> input, seen |-> Quotes!None, current |-> TRUE]}
        /\ UNCHANGED <<onRecord, input, view, quoted, posts, agreed, sold>>
    BY <1>15 DEF Quotes!Ask
  <2>2. PICK a : a = [for |-> input, seen |-> Quotes!None, current |-> TRUE]
    OBVIOUS
  <2>3. a \in Ask /\ a.for = input /\ a.seen = Quotes!None
    BY <1>3, <2>2 DEF Ask
  <2>4. asks' \subseteq Ask /\ Kept(asks')
    BY <1>3, <1>13, <2>1, <2>2, <2>3 DEF Kept
  <2>5. QED
    BY <1>3, <1>4, <1>12, <2>1, <2>4
<1>16. ASSUME NEW a \in asks, Quotes!Read(a) PROVE Quotes!QuotesInv'
  <2>1. /\ asks' = (asks \ {a}) \cup {[a EXCEPT !.seen = onRecord]}
        /\ UNCHANGED <<onRecord, input, due, view, quoted, posts, agreed, sold>>
    BY <1>16 DEF Quotes!Read
  <2>2. PICK e : e = [a EXCEPT !.seen = onRecord]
    OBVIOUS
  <2>3. e \in Ask /\ e.for = a.for /\ e.current = a.current /\ e.seen = onRecord
    <3>1. a \in Ask
      BY <1>3
    <3>2. QED
      BY <1>3, <2>2, <3>1 DEF Ask
  <2>4. asks' \subseteq Ask /\ Kept(asks')
    BY <1>3, <1>5, <1>13, <2>1, <2>2, <2>3 DEF Kept
  <2>5. QED
    BY <1>3, <1>4, <1>12, <2>1, <2>4
<1>17. ASSUME NEW a \in asks, NEW reached \in BOOLEAN, Quotes!Answered(a, reached) PROVE Quotes!QuotesInv'
  <2>1. PICK t :
          /\ t = Quotes!Priced(a.for, a.seen) /\ (reached => a.seen # Quotes!None)
          /\ asks' = asks \ {a}
          /\ IF ~a.current THEN UNCHANGED <<view, quoted>>
             ELSE IF reached /\ t.ok THEN view' = "quoted" /\ quoted' = Quotes!Terms(a.for, t)
             ELSE view' = "declined" /\ quoted' = Quotes!NoQuote
          /\ UNCHANGED <<onRecord, input, due, posts, agreed, sold>>
    BY <1>17 DEF Quotes!Answered, Quotes!Shown
  <2>2. asks' \subseteq Ask /\ Kept(asks')
    BY <1>3, <1>13, <2>1 DEF Kept
  <2>3. CASE ~a.current
    <3>1. UNCHANGED <<view, quoted>>
      BY <2>1, <2>3
    <3>2. QED
      BY <1>3, <1>4, <1>12, <2>1, <2>2, <3>1
  <2>4. CASE a.current /\ reached /\ t.ok
    <3>1. view' = "quoted" /\ quoted' = Quotes!Terms(a.for, t) /\ a.for = input /\ a.seen \in Quotes!Counted
      BY <1>4, <2>1, <2>4
    <3>2. Quotes!AsOf(quoted', a.seen)
      BY <2>1, <2>4, <3>1 DEF Quotes!AsOf
    <3>3. QED
      BY <1>3, <1>4, <1>12, <2>1, <2>2, <3>1, <3>2
  <2>5. CASE a.current /\ ~(reached /\ t.ok)
    <3>1. view' = "declined" /\ quoted' = Quotes!NoQuote
      BY <2>1, <2>5
    <3>2. QED
      BY <1>3, <1>4, <1>12, <2>1, <2>2, <3>1
  <2>6. QED
    BY <2>3, <2>4, <2>5
<1>18. CASE Quotes!Buy
  <2>1. /\ view = "quoted" /\ view' = "issuing" /\ posts' = posts \cup {"this"}
        /\ agreed' = (IF agreed = Quotes!NoQuote THEN quoted ELSE agreed)
        /\ UNCHANGED <<onRecord, input, due, asks, quoted, sold>>
    BY <1>18 DEF Quotes!Buy
  <2>2. PICK n \in Quotes!Counted : Quotes!AsOf(quoted, n)
    BY <1>4, <2>1
  <2>3. agreed' = agreed \/ (agreed = Quotes!NoQuote /\ \E m \in Quotes!Counted : Quotes!AsOf(agreed', m))
    BY <2>1, <2>2
  <2>4. agreed' # Quotes!NoQuote
    BY <1>6, <2>1, <2>2
  <2>5. posts' \subseteq {"this", "older"} /\ view' # "quoted" /\ Kept(asks')
    BY <1>3, <1>13, <2>1
  <2>6. QED
    BY <1>3, <1>12, <2>1, <2>3, <2>4, <2>5
<1>19. CASE Quotes!Sell
  <2>1. PICK t :
          /\ t = Quotes!Priced(input, onRecord) /\ t.ok /\ sold' = Quotes!Terms(input, t)
          /\ "this" \in posts /\ sold = Quotes!NoQuote
          /\ UNCHANGED <<onRecord, input, due, asks, view, quoted, posts, agreed>>
    BY <1>19 DEF Quotes!Sell
  <2>2. PICK n \in Quotes!Counted : Quotes!AsOf(agreed, n)
    BY <1>4, <2>1
  <2>3. Quotes!AsOf(sold', onRecord)
    BY <2>1 DEF Quotes!AsOf
  <2>4. n <= onRecord
    BY <1>3, InputsAre, SMT DEF Quotes!Counted
  <2>5. \E j, m \in Quotes!Counted : j <= m /\ Quotes!AsOf(agreed, j) /\ Quotes!AsOf(sold', m)
    BY <1>5, <2>2, <2>3, <2>4
  <2>6. Quotes!Counted' = Quotes!Counted /\ Quotes!NoQuote' = Quotes!NoQuote /\ Quotes!None' = Quotes!None
    BY <2>1 DEF Quotes!Counted
  <2>7. \A u, m : Quotes!AsOf(u, m)' <=> Quotes!AsOf(u, m)
    BY <2>1, AsOfKept
  <2>8. /\ \E j, m \in Quotes!Counted : j <= m /\ Quotes!AsOf(agreed, j)' /\ Quotes!AsOf(sold, m)'
        /\ (view = "quoted" => \E j \in Quotes!Counted : Quotes!AsOf(quoted, j)')
        /\ (agreed # Quotes!NoQuote => \E j \in Quotes!Counted : Quotes!AsOf(agreed, j)')
    BY <1>4, <2>1, <2>5, Zenon DEF Quotes!AsOf
  <2>9. Quotes!QuotesAreRead'
    BY <1>4, <2>1, <2>6, <2>8, Zenon DEF Quotes!QuotesAreRead
  <2>10. TypesAre(onRecord', input', due', asks', view', posts')
    BY <1>3, <2>1 DEF TypesAre
  <2>11. sold'.for \in Inputs
    BY <1>6, <2>3
  <2>12. QED
    BY <1>2, <1>7, <2>1, <2>9, <2>10, <2>11
<1>20. ASSUME NEW post \in posts, NEW outcome \in {"held", "declined", "uncertain"}, Quotes!Told(post, outcome)
       PROVE  Quotes!QuotesInv'
  <2>1. /\ posts' = posts \ {post} /\ view' = outcome /\ quoted' = Quotes!NoQuote
        /\ UNCHANGED <<onRecord, input, due, asks, agreed, sold>>
    BY <1>20 DEF Quotes!Told
  <2>2. posts' \subseteq {"this", "older"} /\ Kept(asks') /\ view' # "quoted"
        /\ view' \in {"loading", "quoted", "declined", "issuing", "held", "uncertain"}
        /\ ("this" \in posts' => agreed' # Quotes!NoQuote)
    BY <1>3, <1>4, <1>13, <2>1
  <2>3. QED
    BY <1>3, <1>12, <2>1, <2>2
<1>21. CASE UNCHANGED q
  <2>1. UNCHANGED <<onRecord, input, due, asks, view, quoted, posts, agreed, sold>>
    BY <1>21 DEF q
  <2>2. QED
    BY <1>3, <1>4, <1>12, <1>13, <2>1
<1>22. QED
  BY <1>9, <1>11, <1>14, <1>15, <1>16, <1>17, <1>18, <1>19, <1>20, <1>21 DEF Quotes!Next

\* So what is sold is what was shown.
LEMMA QuotesAsShown == Quotes!QuotesInv => Quotes!SoldAsShown
<1> SUFFICES ASSUME Quotes!QuotesInv PROVE Quotes!SoldAsShown
  OBVIOUS
<1>1. Quotes!TypeOK /\ Quotes!QuotesAreRead /\ input \in Inputs
  BY DEF Quotes!QuotesInv, Quotes!TypeOK
<1>2. Quotes!Counted \subseteq 0..Quotes!MaxCount
  BY <1>1, CountsAre
<1>3. view = "quoted" => quoted.for = input
  <2>1. HAVE view = "quoted"
  <2>2. PICK n \in Quotes!Counted : Quotes!AsOf(quoted, n)
    BY <1>1, <2>1, Zenon DEF Quotes!QuotesAreRead
  <2>3. QED
    BY <1>1, <2>2, TermsAre DEF Quotes!AsOf
<1>4. ASSUME sold # Quotes!NoQuote
      PROVE  /\ sold.for = agreed.for /\ sold.premium = agreed.premium
             /\ sold.payout <= agreed.payout
             /\ onRecord = FirstCount => sold.payout = agreed.payout
  <2>1. PICK n \in Quotes!Counted, m \in Quotes!Counted :
          n <= m /\ Quotes!AsOf(agreed, n) /\ Quotes!AsOf(sold, m)
    BY <1>1, <1>4, Zenon DEF Quotes!QuotesAreRead
  <2>2. n \in 0..Quotes!MaxCount /\ m \in 0..Quotes!MaxCount
    BY <1>2, <2>1
  <2>3. /\ agreed.for = input /\ sold.for = input /\ agreed.premium = sold.premium
        /\ sold.payout <= agreed.payout /\ (n = m => sold.payout = agreed.payout)
    <3>1. PICK t, u : t = agreed /\ u = sold
      OBVIOUS
    <3>2. Quotes!AsOf(t, n) /\ Quotes!AsOf(u, m) /\ n <= m
      BY <2>1, <3>1
    <3>3. /\ t.for = input /\ u.for = input /\ t.premium = u.premium
          /\ u.payout <= t.payout /\ (n = m => u.payout = t.payout)
      BY <1>1, <2>2, <3>2, LaterTerms
    <3>4. QED
      BY <3>1, <3>3
  <2>4. onRecord = FirstCount => n = m
    <3>1. FirstCount \in Nat
      BY InputsAre
    <3>2. QED
      BY <2>1, <3>1, SMT DEF Quotes!Counted
  <2>5. QED
    BY <2>3, <2>4
<1>5. QED
  BY <1>3, <1>4 DEF Quotes!SoldAsShown

-----------------------------------------------------------------------------
\* What the prices are for, of every count, budget and window.

\* No chance is nought, and none is more than a tenth.
LEMMA ProbabilityIs ==
  ASSUME NEW n \in 1..Quotes!MaxCount, NEW days \in 7..62
  PROVE  /\ Quotes!Probability(Quotes!LambdaPriced(n, 57), days) \in Nat \ {0}
         /\ Quotes!Probability(Quotes!LambdaPriced(n, 57), days) <= 100000
<1>1. PICK l \in Nat : l = Quotes!LambdaPriced(n, 57) /\ 1949 <= l /\ l <= 500000
  <2>1. Quotes!LambdaPriced(n, 57) \in Nat /\ Quotes!LambdaPriced(n, 57) <= 500000
    <3>1. n <= n
      BY SMT DEF Quotes!MaxCount
    <3>2. QED
      BY <3>1, LambdaGrows, SMT
  <2>2. PICK k \in Nat : k = Quotes!Lambda(n, 57)
    BY LambdaIs, SMT
  <2>3. 1949 <= k
    <3>1. Quotes!Million * n < 513 * k + 513
      BY <2>2, LambdaIs, SMT
    <3>2. QED
      BY <3>1, SMT DEF Quotes!Million, Quotes!MaxCount
  <2>4. PICK x \in Nat : x = Quotes!RelativeError[n]
    <3>1. PICK x : x = Quotes!RelativeError[n]
      OBVIOUS
    <3>2. x \in 0..1000
      BY <3>1, RelativeErrorIs, Zenon
    <3>3. x \in Nat
      BY <3>2, SMT
    <3>4. QED
      BY <3>1, <3>3
  <2>5. Quotes!LambdaPriced(n, 57) = k + (k * x) \div 1000
    <3>1. Quotes!MODEL.z = 1 /\ n # 0 /\ k * 1 = k
      BY SMT DEF Quotes!MODEL
    <3>2. QED
      BY <2>2, <2>4, <3>1, SMT DEF Quotes!LambdaPriced
  <2>6. PICK e \in Nat : e = k * x
    BY SMT
  <2>7. k <= k + e \div 1000
    BY SMT
  <2>8. QED
    BY <2>1, <2>3, <2>5, <2>6, <2>7, SMT
<1>2. PICK x \in Nat : x = (l * days) \div 365 /\ 37 <= x /\ x <= 85000
  <2>1. l * days <= l * 62 /\ l * 7 <= l * days /\ l * days \in Nat
    BY SMT
  <2>2. PICK e \in Nat : e = l * days
    BY <2>1, SMT
  <2>3. e <= 31000000 /\ 13643 <= e
    BY <1>1, <2>1, <2>2, SMT
  <2>4. e \div 365 \in Nat /\ 37 <= e \div 365 /\ e \div 365 <= 85000
    BY <2>3, SMT
  <2>5. QED
    BY <2>2, <2>4, SMT
<1>3. Quotes!Probability(l, days) = x - (x * x) \div 2000000 + (((x * x) \div 1000000) * x) \div 6000000
  BY <1>2, SMT DEF Quotes!Probability, Quotes!Million
<1>4. PICK a \in Nat : a = x * x
  BY SMT
<1>5. a <= 85000 * x
  <2>1. x * x <= 85000 * x
    BY <1>2, SMT
  <2>2. QED
    BY <1>4, <2>1, SMT
<1>6. PICK g \in Nat : g = a \div 1000000 /\ g <= 7225
  BY <1>2, <1>5, SMT
<1>7. PICK h \in Nat : h = g * x /\ h <= 7225 * 85000
  <2>1. g * x <= 7225 * x /\ g * x \in Nat
    BY <1>6, SMT
  <2>2. QED
    BY <1>2, <2>1, SMT
<1>8. a \div 2000000 \in Nat /\ a \div 2000000 < x /\ h \div 6000000 \in Nat /\ h \div 6000000 <= 103
  BY <1>2, <1>5, <1>7, SMT
<1>9. PICK d \in Nat, k \in Nat : d = a \div 2000000 /\ k = h \div 6000000
  BY <1>8, SMT
<1>10. Quotes!Probability(l, days) = x - d + k
  BY <1>3, <1>4, <1>6, <1>7, <1>9, SMT
<1>11. x - d + k \in Nat \ {0} /\ x - d + k <= 100000
  BY <1>2, <1>8, <1>9, SMT
<1>12. QED
  BY <1>1, <1>10, <1>11, SMT

\* Of a cover cov at a chance p: the loss and what the premium leaves of it.
LEMMA HalfIsLoss ==
  ASSUME NEW cov \in Nat, NEW p \in Nat
  PROVE  /\ (cov * p) \div 10000 \in Nat /\ (2 * (cov * p)) \div 10000 \in Nat
         /\ 20 <= (2 * (cov * p)) \div 10000
              => (cov * p) \div 10000 + 10 <= (2 * (cov * p)) \div 10000
<1>1. PICK e \in Nat : e = cov * p
  OBVIOUS
<1>2. e \div 10000 \in Nat /\ (2 * e) \div 10000 \in Nat /\ 2 * (e \div 10000) <= (2 * e) \div 10000
  BY SMT
<1>3. QED
  BY <1>1, <1>2, SMT

\* For every count on record, budget and window: the cover is finite, the premium is the
\* budget, and it pays the expected loss and the issue; that cover, priced again, costs the
\* budget to the cent the rounding takes; a fixed cover that is not refused pays for itself
\* too; and no cover grows with the record.  (src/pricing/hazard.js, src/pricing/underwrite.js)
THEOREM EveryPricePays ==
  ASSUME NEW n \in 1..Quotes!MaxCount, NEW budget \in 1..50, NEW days \in 7..62
  PROVE  /\ Quotes!QuotePolicy(n, 57, budget, days).ok
         /\ Quotes!QuotePolicy(n, 57, budget, days).payout \in 1..(Quotes!Infinity - 1)
         /\ Quotes!QuotePolicy(n, 57, budget, days).premium = 100 * budget
         /\ Quotes!QuotePolicy(n, 57, budget, days).expectedLoss + Quotes!IssueCost
              <= Quotes!QuotePolicy(n, 57, budget, days).premium
         /\ \E back \in Nat :
               /\ back = Quotes!Premium(Quotes!LambdaPriced(n, 57),
                                        Quotes!QuotePolicy(n, 57, budget, days).payout, days)
               /\ back <= 100 * budget
               /\ 100 * budget - back
                    <= 2 + Quotes!Probability(Quotes!LambdaPriced(n, 57), days) \div 5000
         /\ \A cover \in Nat :
               LET u == Quotes!Underwrite(n, Quotes!LambdaPriced(n, 57),
                            [payout |-> cover, budget |-> Quotes!None, days |-> days])
               IN  u.ok => u.expectedLoss + Quotes!IssueCost <= u.premium
         /\ \A m \in n..Quotes!MaxCount :
               Quotes!QuotePolicy(m, 57, budget, days).payout
                 <= Quotes!QuotePolicy(n, 57, budget, days).payout
<1>1. PICK p \in Nat \ {0} : p = Quotes!Probability(Quotes!LambdaPriced(n, 57), days)
  BY ProbabilityIs, SMT
<1>2. PICK cov : cov = Quotes!CoverForBudget(Quotes!LambdaPriced(n, 57), budget, days)
  OBVIOUS
<1>3. cov = (budget * 500000) \div p
  <2>1. Quotes!Million \div Quotes!OverLossRatio(1) = 500000 /\ ~(p <= 0)
    BY SMT DEF Quotes!Million, Quotes!OverLossRatio
  <2>2. QED
    BY <1>1, <1>2, <2>1, SMT DEF Quotes!CoverForBudget
<1>4. cov \in Nat /\ 1 <= cov /\ cov <= 25000000 /\ p * cov <= budget * 500000 /\ budget * 500000 < p * cov + p
  <2>1. PICK a \in Nat : a = budget * 500000 /\ 500000 <= a /\ a <= 25000000
    BY SMT
  <2>2. a \div p \in Nat /\ p * (a \div p) <= a /\ a < p * (a \div p) + p
    BY SMT
  <2>3. cov = a \div p
    BY <1>3, <2>1, SMT
  <2>4. cov # 0
    <3>1. cov = 0 => p * cov + p = p
      BY SMT
    <3>2. ~(a < p)
      <4>1. p <= 100000
        BY <1>1, ProbabilityIs, SMT
      <4>2. QED
        BY <2>1, <4>1, SMT
    <3>3. QED
      BY <2>2, <2>3, <3>1, <3>2, SMT
  <2>5. cov <= p * cov /\ cov \in Nat
    BY <2>2, <2>3, SMT
  <2>6. 1 <= cov
    BY <2>4, <2>5, SMT
  <2>7. p * cov \in Nat
    BY <2>5, SMT
  <2>8. p * cov <= a /\ a < p * cov + p
    BY <2>2, <2>3, SMT
  <2>9. cov <= 25000000
    BY <2>1, <2>5, <2>7, <2>8, SMT
  <2>10. QED
    BY <2>1, <2>5, <2>6, <2>8, <2>9, SMT
<1>5. PICK e \in Nat : e = p * cov /\ e = cov * p
  BY <1>4, SMT
<1>6. Quotes!QuotePolicy(n, 57, budget, days)
        = [ok |-> TRUE, reason |-> "none", premium |-> 100 * budget, payout |-> cov,
           expectedLoss |-> Quotes!ExpectedLoss(Quotes!LambdaPriced(n, 57), cov, days)]
  <2>1. PICK ask : ask = [payout |-> Quotes!None, budget |-> budget, days |-> days]
    OBVIOUS
  <2>2. ask.payout = Quotes!None /\ ask.budget = budget /\ ask.days = days
    BY <2>1
  <2>3. Quotes!ValidQuote(budget, days)
    BY DEF Quotes!ValidQuote
  <2>4. Quotes!QuotePolicy(n, 57, budget, days) = Quotes!Underwrite(n, Quotes!LambdaPriced(n, 57), ask)
    BY <2>1, <2>3 DEF Quotes!QuotePolicy
  <2>5. PICK premium : premium = 100 * budget
    OBVIOUS
  <2>6. /\ ~(days > Quotes!MAX_DAYS) /\ n # 0 /\ ~(premium < Quotes!MinimumPremium)
    BY <2>5, SMT DEF Quotes!MAX_DAYS, Quotes!MinimumPremium, Quotes!OverLossRatio, Quotes!IssueCost, Quotes!MaxCount
  <2>7. QED
    BY <1>2, <2>2, <2>4, <2>5, <2>6 DEF Quotes!Underwrite
<1>7. Quotes!ExpectedLoss(Quotes!LambdaPriced(n, 57), cov, days) = e \div 10000
  BY <1>1, <1>5, SMT DEF Quotes!ExpectedLoss
<1>8. Quotes!Premium(Quotes!LambdaPriced(n, 57), cov, days) = (2 * e) \div 10000
  BY <1>1, <1>5, SMT DEF Quotes!Premium, Quotes!OverLossRatio
<1>9a. PICK owed \in Nat, back \in Nat : owed = e \div 10000 /\ back = (2 * e) \div 10000
  BY SMT
<1>9. PICK t : t = Quotes!QuotePolicy(n, 57, budget, days)
  OBVIOUS
<1>10. t.ok = TRUE /\ t.payout = cov /\ t.premium = 100 * budget /\ t.expectedLoss = owed
  BY <1>6, <1>7, <1>9, <1>9a
<1>11. cov \in 1..(Quotes!Infinity - 1)
  <2>1. cov \in Nat /\ 1 <= cov /\ cov <= 25000000
    BY <1>4, SMT
  <2>2. PICK top \in Nat : top = Quotes!Infinity - 1 /\ 25000000 <= top
    BY SMT DEF Quotes!Infinity, Quotes!Million
  <2>3. cov \in 1..top
    BY <2>1, <2>2, SMT
  <2>4. QED
    BY <2>2, <2>3
<1>12. owed + Quotes!IssueCost <= 100 * budget
  <2>1. e <= budget * 500000
    BY <1>4, <1>5, SMT
  <2>2. e \div 10000 <= 50 * budget
    BY <2>1, SMT
  <2>3. QED
    BY <1>9a, <2>2, SMT DEF Quotes!IssueCost
<1>13. back <= 100 * budget /\ 100 * budget - back <= 2 + p \div 5000
  <2>1. e <= budget * 500000 /\ budget * 500000 < e + p
    BY <1>4, <1>5, SMT
  <2>2. QED
    BY <1>9a, <2>1, SMT
<1>14. ASSUME NEW cover \in Nat, NEW u,
              u = Quotes!Underwrite(n, Quotes!LambdaPriced(n, 57),
                       [payout |-> cover, budget |-> Quotes!None, days |-> days]),
              u.ok
       PROVE  u.expectedLoss + Quotes!IssueCost <= u.premium
  <2>1. PICK ask : ask = [payout |-> cover, budget |-> Quotes!None, days |-> days]
    OBVIOUS
  <2>2. ask.payout = cover /\ ask.budget = Quotes!None /\ ask.days = days
    BY <2>1
  <2>3. cover # Quotes!None
    BY SMT DEF Quotes!None
  <2>4. PICK premium, loss : /\ premium = Quotes!Premium(Quotes!LambdaPriced(n, 57), cover, days)
                             /\ loss = Quotes!ExpectedLoss(Quotes!LambdaPriced(n, 57), cover, days)
    OBVIOUS
  <2>5. premium = (2 * (cover * p)) \div 10000 /\ loss = (cover * p) \div 10000
    BY <1>1, <2>4, SMT DEF Quotes!Premium, Quotes!OverLossRatio, Quotes!ExpectedLoss
  <2>6. ~(days > Quotes!MAX_DAYS) /\ days <= Quotes!MAX_DAYS /\ n > 0 /\ n # 0
    BY SMT DEF Quotes!MAX_DAYS, Quotes!MaxCount
  <2>7. u = IF premium < Quotes!MinimumPremium THEN Quotes!Refused("below_viability")
            ELSE [ok |-> TRUE, reason |-> "none", premium |-> premium, payout |-> cover, expectedLoss |-> loss]
    BY <1>14, <2>1, <2>2, <2>3, <2>4, <2>6 DEF Quotes!Underwrite
  <2>8. ~(premium < Quotes!MinimumPremium) /\ u.premium = premium /\ u.expectedLoss = loss
    BY <1>14, <2>7 DEF Quotes!Refused
  <2>9. p \in Nat /\ loss \in Nat /\ premium \in Nat
    BY <2>5, HalfIsLoss, SMT
  <2>10. Quotes!MinimumPremium = 20 /\ Quotes!IssueCost = 10
    BY SMT DEF Quotes!MinimumPremium, Quotes!OverLossRatio, Quotes!IssueCost
  <2>11. 20 <= premium
    BY <2>8, <2>9, <2>10, SMT
  <2>12. loss + 10 <= premium
    BY <2>5, <2>9, <2>11, HalfIsLoss, SMT
  <2>13. QED
    BY <2>8, <2>10, <2>12, SMT
<1>15. ASSUME NEW m \in n..Quotes!MaxCount
       PROVE  Quotes!QuotePolicy(m, 57, budget, days).payout <= cov
  <2>1. m \in 1..Quotes!MaxCount /\ n <= m /\ m # 0 /\ m > 0
    BY SMT DEF Quotes!MaxCount
  <2>2. Quotes!CoverForBudget(Quotes!LambdaPriced(m, 57), budget, days) <= cov
    BY <1>2, <2>1, CoverShrinks, Zenon
  <2>3. PICK ask : ask = [payout |-> Quotes!None, budget |-> budget, days |-> days]
    OBVIOUS
  <2>4. ask.payout = Quotes!None /\ ask.budget = budget /\ ask.days = days
    BY <2>3
  <2>5. Quotes!ValidQuote(budget, days)
    BY DEF Quotes!ValidQuote
  <2>6. Quotes!QuotePolicy(m, 57, budget, days) = Quotes!Underwrite(m, Quotes!LambdaPriced(m, 57), ask)
    BY <2>3, <2>5 DEF Quotes!QuotePolicy
  <2>7. PICK premium : premium = 100 * budget
    OBVIOUS
  <2>8. ~(days > Quotes!MAX_DAYS) /\ ~(premium < Quotes!MinimumPremium)
    BY <2>7, SMT DEF Quotes!MAX_DAYS, Quotes!MinimumPremium, Quotes!OverLossRatio, Quotes!IssueCost
  <2>9. Quotes!QuotePolicy(m, 57, budget, days).payout
          = Quotes!CoverForBudget(Quotes!LambdaPriced(m, 57), budget, days)
    BY <2>1, <2>4, <2>6, <2>7, <2>8 DEF Quotes!Underwrite
  <2>10. QED
    BY <2>2, <2>9, Zenon
<1>16. t.expectedLoss + Quotes!IssueCost <= t.premium
  BY <1>10, <1>12
<1>17. back = Quotes!Premium(Quotes!LambdaPriced(n, 57), t.payout, days)
  BY <1>8, <1>9a, <1>10
<1>18. 100 * budget - back <= 2 + Quotes!Probability(Quotes!LambdaPriced(n, 57), days) \div 5000
  BY <1>1, <1>13
<1>19. \E z \in Nat : /\ z = Quotes!Premium(Quotes!LambdaPriced(n, 57), t.payout, days)
                      /\ z <= 100 * budget
                      /\ 100 * budget - z
                           <= 2 + Quotes!Probability(Quotes!LambdaPriced(n, 57), days) \div 5000
  BY <1>13, <1>17, <1>18
<1>20. /\ t.ok /\ t.payout \in 1..(Quotes!Infinity - 1) /\ t.premium = 100 * budget
       /\ \A m \in n..Quotes!MaxCount : Quotes!QuotePolicy(m, 57, budget, days).payout <= t.payout
  BY <1>10, <1>11, <1>15
<1>21. \A cover \in Nat :
           LET u == Quotes!Underwrite(n, Quotes!LambdaPriced(n, 57),
                        [payout |-> cover, budget |-> Quotes!None, days |-> days])
           IN  u.ok => u.expectedLoss + Quotes!IssueCost <= u.premium
  BY <1>14
<1>22. QED
  BY <1>9, <1>16, <1>19, <1>20, <1>21

-----------------------------------------------------------------------------
(* The host: a behaviour follows one part and leaves the others alone *)

HostInv ==
  /\ Budgets!BudgetsInv /\ Reads!ReadsInv /\ Scripts!ScriptsInv /\ Visitor!TypeOK
  /\ Quotes!QuotesInv /\ Saved!SavedInv /\ Chat!AnswersInv

\* The initial state of every part satisfies the part's invariant.
LEMMA HostInit == Init => HostInv
  BY BudgetsInit, ReadsInit, ScriptsInit, VisitorInit, QuotesInit, SavedInit, ChatInit DEF Init, HostInv

\* A step of the host is, of each part, a step or none.
LEMMA HostStep ==
  ASSUME [Next]_vars
  PROVE  /\ [Budgets!Next]_b /\ [Reads!Next]_r /\ [Scripts!Next]_s /\ [Visitor!Next]_v
         /\ [Quotes!Next]_q /\ [Saved!Next]_o /\ [Chat!Next]_c
  BY DEF Next, vars

\* A step of one part leaves the others as they are and keeps its own invariant.
LEMMA HostNext == HostInv /\ [Next]_vars => HostInv'
<1> SUFFICES ASSUME HostInv, [Next]_vars PROVE HostInv'
  OBVIOUS
<1>1. /\ [Budgets!Next]_b /\ [Reads!Next]_r /\ [Scripts!Next]_s /\ [Visitor!Next]_v
      /\ [Quotes!Next]_q /\ [Saved!Next]_o /\ [Chat!Next]_c
  BY HostStep
<1>2. Budgets!BudgetsInv'
  BY <1>1, BudgetsNext DEF HostInv
<1>3. Reads!ReadsInv'
  BY <1>1, ReadsNext DEF HostInv
<1>4. Scripts!ScriptsInv'
  BY <1>1, ScriptsNext DEF HostInv
<1>5. Visitor!TypeOK'
  BY <1>1, VisitorNext DEF HostInv
<1>6. Quotes!QuotesInv'
  BY <1>1, QuotesNext DEF HostInv
<1>7. Saved!SavedInv'
  BY <1>1, SavedNext DEF HostInv
<1>8. Chat!AnswersInv'
  BY <1>1, ChatNext DEF HostInv
<1>9. QED
  BY <1>2, <1>3, <1>4, <1>5, <1>6, <1>7, <1>8 DEF HostInv

\* The inductive invariant of the host holds throughout.
LEMMA HostIsSound == Spec => []HostInv
  BY HostInit, HostNext, PTL DEF Spec

-----------------------------------------------------------------------------
(* The theorems *)

\* The type invariant of every part: for any constants of the model, the variables stay of
\* their types.
THEOREM HostTypes == Spec => []TypeOK
<1>1. HostInv => TypeOK
  BY DEF HostInv, TypeOK, Budgets!BudgetsInv, Reads!ReadsInv, Scripts!ScriptsInv, Quotes!QuotesInv,
     Saved!SavedInv, Chat!AnswersInv
<1>2. QED
  BY <1>1, HostIsSound, PTL

\* What src/guards.js, the companions and the quote routes admit stays within the limits of
\* its service in every span of time, over restarts where the budget is durable: for any
\* limits, windows and number of visitors.
THEOREM LimitsAlwaysHold == Spec => []LimitsHold
<1>1. HostInv => LimitsHold
  BY DEF HostInv, LimitsHold, Budgets!BudgetsInv
<1>2. QED
  BY <1>1, HostIsSound, PTL

\* The caches and shared requests of the reads (src/fetch-timeout.js and its callers, the page's
\* caches): no browser is given a version older than one that any had been given when it asked.
THEOREM NoOneGetsOlder == Spec => NoOlderAnswer
<1>1. HostInv /\ [Next]_vars
         => [Reads!GivenNotOlder]_Reads!readVars
  BY HostStep, ReadsNext DEF HostInv, Reads!GivenNotOlder
<1>2. QED
  BY <1>1, HostIsSound, PTL DEF Spec, NoOlderAnswer, Reads!NoOlderAnswer

\* scripts/provision.js and its like: a script that dies leaves one created asset at most that
\* no file names, and the keys on disk open the pool a script uses, but for a RECREATE run that
\* died between the two: for any number of oracles, assets, keys and crashes.
THEOREM NothingStaysStranded == Spec => []NothingIsStranded
<1>1. HostInv => NothingIsStranded
  BY DEF HostInv, NothingIsStranded, Scripts!ScriptsInv
<1>2. QED
  BY <1>1, HostIsSound, PTL

\* The browser's operations: one that is accepted and not over has its id saved, so that it is
\* looked up and never sent anew.
THEOREM UnfinishedStaysSaved == Spec => []UnfinishedIsSaved
<1>1. HostInv => UnfinishedIsSaved
  BY DEF HostInv, UnfinishedIsSaved, Saved!SavedInv
<1>2. QED
  BY <1>1, HostIsSound, PTL

\* The two chats: what an answer claims is so at the time it looked, and it is shown where it
\* was asked.
THEOREM AnswersStayTrue == Spec => []AnswersAreTrue
<1>1. HostInv => AnswersAreTrue
  BY DEF HostInv, AnswersAreTrue, Chat!AnswersInv
<1>2. QED
  BY <1>1, HostIsSound, PTL

\* The settlement routes: of whatever the outside service builds, what a wallet is handed moves
\* what its owner asked for and pays only its owner.
THEOREM WalletsAreBounded == Spec => []HandedOutIsBounded
<1>1. HostInv => HandedOutIsBounded
  BY WalletsAreSafe DEF HandedOutIsBounded
<1>2. QED
  BY <1>1, HostIsSound, PTL

\* The quote panel and issuePolicy behind it: what the visitor agrees to is for the form it
\* sees and is what is sold, at that premium and for no less cover unless events were
\* recorded meanwhile (src/policy/issue.js:26-79): for any inputs and counts of events.
THEOREM SoldIsWhatWasShown == Spec => []Quotes!SoldAsShown
<1>1. HostInv => Quotes!SoldAsShown
  BY QuotesAsShown DEF HostInv
<1>2. QED
  BY <1>1, HostIsSound, PTL

\* The property of the run, which adds the samples of the prices: a closed formula, for each
\* instance either so or not, that the run evaluates.
THEOREM PremiumStaysAsShown ==
  Quotes!PricesAreSound => (Spec => []PremiumIsAsShown)
<1> SUFFICES ASSUME Quotes!PricesAreSound PROVE Spec => []PremiumIsAsShown
  OBVIOUS
<1>1. HostInv => PremiumIsAsShown
  BY QuotesAsShown DEF HostInv, PremiumIsAsShown
<1>2. QED
  BY <1>1, HostIsSound, PTL
=============================================================================
