------------------------- MODULE DemoAccountsProofs -------------------------
(***************************************************************************)
(* Theorems about the demo accounts, for any accounts, requests and terms: *)
(* AccountsInv is an invariant, and the accounts implement OncePaid.       *)
(***************************************************************************)
EXTENDS DemoAccounts, TLAPS

USE AccountsAssumption

\* The payment is one of the writes, and no later than the last.
LEMMA PaymentIsWrite == \A a, w : PaymentOp(a, w) \in Op /\ PaymentOp(a, w) \in {2, 3, 4}
  BY DEF PaymentOp, Op

\* Nothing is at work and nothing was submitted.
LEMMA InitAccountsInv == Init => AccountsInv
<1> SUFFICES ASSUME Init PROVE AccountsInv
  OBVIOUS
<1>1. TypeOK
  BY DEF Init, TypeOK, Idle, TxState, Point, Op, Work
<1>2. WriteAhead /\ OneUncertain /\ CompleteIsPaid
  BY DEF Init, WriteAhead, OneUncertain, CompleteIsPaid
<1>3. Progress /\ Counted /\ OpenedFirst
  BY DEF Init, Progress, Counted, OpenedFirst, Idle, Work
<1>4. QED
  BY <1>1, <1>2, <1>3 DEF AccountsInv

\* A call begins with work the journal has not seen, for which nothing was
\* submitted, and when nothing else of the account is uncertain
\* (src/demo/store.js:12-22).
LEMMA OpenKeepsAccountsInv ==
  ASSUME AccountsInv, NEW a \in Account, Open(a)
  PROVE  AccountsInv'
<1> USE DEF AccountsInv
<1>1. /\ state' = [state EXCEPT ![a][Opening] = "pending"]
      /\ saved' = [saved EXCEPT ![a][Opening] = {1, 2, 3}]
      /\ call' = [at |-> "send", account |-> a, work |-> Opening, op |-> 1]
      /\ terms' = terms /\ tx' = tx /\ sends' = sends
      /\ state[a][Opening] = "none" /\ Opening \in Work
  BY DEF Open, ledger, Work
<1>2. /\ state \in [Account -> [Work -> {"none", "pending", "complete"}]]
      /\ saved \in [Account -> [Work -> SUBSET (Op \cup {0})]]
  BY DEF TypeOK
<1>3. /\ state'[a][Opening] = "pending" /\ saved'[a][Opening] = {1, 2, 3}
      /\ \A b \in Account, w \in Work : b # a \/ w # Opening =>
            state'[b][w] = state[b][w] /\ saved'[b][w] = saved[b][w]
  BY <1>1, <1>2
<1>4. \A o \in Op : tx[a][Opening][o] = "none"
  BY <1>1 DEF WriteAhead
<1>5. \A r \in Request : state[a][r] = "none" /\ r # Opening /\ r \in Work
  BY <1>1, <1>2 DEF OpenedFirst, Ready, Work
<1>6. TypeOK'
  <2>1. state' \in [Account -> [Work -> {"none", "pending", "complete"}]]
    BY <1>1, <1>2
  <2>2. saved' \in [Account -> [Work -> SUBSET (Op \cup {0})]]
    BY <1>1, <1>2 DEF Op
  <2>3. call' \in [at : Point, account : Account \cup {Nobody}, work : Work, op : Op]
    BY <1>1 DEF Point, Op
  <2>4. QED
    BY <1>1, <2>1, <2>2, <2>3 DEF TypeOK
<1>7. WriteAhead' /\ CompleteIsPaid'
  BY <1>1, <1>3, <1>4 DEF WriteAhead, CompleteIsPaid, PaymentOp
<1>8. OneUncertain' /\ OpenedFirst'
  BY <1>1, <1>3, <1>5 DEF OneUncertain, OpenedFirst, Ready, Work
<1>9. Progress' /\ Counted'
  BY <1>1, <1>3, <1>4 DEF Progress, Counted, PaymentOp, Op
<1>10. QED
  BY <1>6, <1>7, <1>8, <1>9

\* The same for a deposit or a bridge of an account that is ready
\* (src/demo/service.js:45-47, 68-75).
LEMMA BeginKeepsAccountsInv ==
  ASSUME AccountsInv, NEW a \in Account, NEW r \in Request, NEW t \in Terms, Begin(a, r, t)
  PROVE  AccountsInv'
<1> USE DEF AccountsInv
<1>1. /\ state' = [state EXCEPT ![a][r] = "pending"]
      /\ terms' = [terms EXCEPT ![a][r] = t]
      /\ call' = [at |-> IF t \in Bridging THEN "name" ELSE "save",
                  account |-> a, work |-> r, op |-> 1]
      /\ saved' = saved /\ tx' = tx /\ sends' = sends
      /\ state[a][r] = "none" /\ state[a][Opening] = "complete"
      /\ \A other \in Request : state[a][other] # "pending"
      /\ r \in Work /\ r # Opening
  BY DEF Begin, ledger, Work, Ready
<1>2. /\ state \in [Account -> [Work -> {"none", "pending", "complete"}]]
      /\ terms \in [Account -> [Request -> Terms \cup {NoTerms}]]
  BY DEF TypeOK
<1>3. /\ state'[a][r] = "pending"
      /\ \A b \in Account, w \in Work : b # a \/ w # r => state'[b][w] = state[b][w]
      /\ \A b \in Account, q \in Request : b # a \/ q # r => terms'[b][q] = terms[b][q]
  BY <1>1, <1>2 DEF Work
<1>4. \A o \in Op : tx[a][r][o] = "none"
  BY <1>1 DEF WriteAhead
<1>5. TypeOK'
  <2>1. state' \in [Account -> [Work -> {"none", "pending", "complete"}]]
    BY <1>1, <1>2
  <2>2. terms' \in [Account -> [Request -> Terms \cup {NoTerms}]]
    BY <1>1, <1>2
  <2>3. call' \in [at : Point, account : Account \cup {Nobody}, work : Work, op : Op]
    BY <1>1 DEF Point, Op
  <2>4. QED
    BY <1>1, <2>1, <2>2, <2>3 DEF TypeOK
<1>6. WriteAhead'
  BY <1>1, <1>3, <1>4 DEF WriteAhead
<1>7. CompleteIsPaid'
  BY <1>1, <1>3 DEF CompleteIsPaid, PaymentOp, Work
<1>8. OneUncertain' /\ OpenedFirst'
  BY <1>1, <1>3 DEF OneUncertain, OpenedFirst, Ready, Work
<1>9. Progress' /\ Counted'
  <2>1. PaymentOp(a, r)' \in {2, 3}
    BY <1>1 DEF PaymentOp
  <2>2. QED
    BY <1>1, <1>3, <1>4, <2>1 DEF Progress, Counted, Op
<1>10. QED
  BY <1>5, <1>6, <1>7, <1>8, <1>9

\* Moving the call, or ending it, changes nothing else.
LEMMA CallKeepsAccountsInv ==
  ASSUME AccountsInv,
         \/ \E a \in Account, r \in Request, t \in Terms : Retry(a, r, t)
         \/ Confirm \/ Reconcile \/ Abandon
  PROVE  AccountsInv'
<1> USE DEF AccountsInv
<1>1. UNCHANGED <<state, terms, saved, tx, sends>>
  BY DEF Retry, Confirm, Reconcile, Abandon, journal, ledger
<1>2. call \in [at : Point, account : Account \cup {Nobody}, work : Work, op : Op]
  BY DEF TypeOK
<1>3. WriteAhead' /\ OneUncertain' /\ CompleteIsPaid' /\ Counted' /\ OpenedFirst'
  BY <1>1 DEF WriteAhead, OneUncertain, CompleteIsPaid, Counted, OpenedFirst, Ready, PaymentOp
<1>4. ASSUME call' \in [at : Point, account : Account \cup {Nobody}, work : Work, op : Op],
             Progress'
      PROVE  AccountsInv'
  BY <1>1, <1>3, <1>4 DEF TypeOK
<1>5. CASE Abandon
  BY <1>4, <1>5 DEF Abandon, Ended, Idle, Progress, Point, Op, Work
<1>6. CASE Reconcile
  <2>1. call' = [call EXCEPT !.at = "finish"]
    BY <1>6 DEF Reconcile
  <2>2. call' \in [at : Point, account : Account \cup {Nobody}, work : Work, op : Op]
    BY <1>2, <2>1 DEF Point
  <2>3. Progress'
    BY <1>1, <1>2, <1>6, <2>1 DEF Progress, Reconcile, PaymentOp
  <2>4. QED
    BY <1>4, <2>2, <2>3
<1>7. ASSUME NEW a \in Account, NEW r \in Request, NEW t \in Terms, Retry(a, r, t)
      PROVE  AccountsInv'
  <2>1. /\ call' = [at |-> "reconcile", account |-> a, work |-> r, op |-> PaymentOp(a, r)]
        /\ state[a][r] = "pending"
    BY <1>7 DEF Retry
  <2>2. call' \in [at : Point, account : Account \cup {Nobody}, work : Work, op : Op]
    BY <2>1, PaymentIsWrite DEF Point, Work
  <2>3. Progress'
    BY <1>1, <2>1, PaymentIsWrite DEF Progress, PaymentOp
  <2>4. QED
    BY <1>4, <2>2, <2>3
<1>8. CASE Confirm
  <2> DEFINE a == call.account
             w == call.work
  <2>1. /\ call.at = "receipt" /\ tx[a][w][call.op] = "landed" /\ a \in Account
        /\ state[a][w] = "pending" /\ call.op <= PaymentOp(a, w)
        /\ \A o \in Op : o > call.op => tx[a][w][o] = "none"
    BY <1>8 DEF Confirm, Progress
  <2>2. CASE call.op = PaymentOp(a, w)
    <3>1. call' = [call EXCEPT !.at = "finish"]
      BY <1>8, <2>2 DEF Confirm
    <3>2. call' \in [at : Point, account : Account \cup {Nobody}, work : Work, op : Op]
      BY <1>2, <3>1 DEF Point
    <3>3. Progress'
      BY <1>1, <1>2, <2>1, <2>2, <3>1 DEF Progress, PaymentOp
    <3>4. QED
      BY <1>4, <3>2, <3>3
  <2>3. CASE call.op # PaymentOp(a, w)
    <3>1. call' = [call EXCEPT !.at = IF call.op + 1 \in saved[a][w] THEN "send" ELSE "save",
                               !.op = @ + 1]
      BY <1>8, <2>3 DEF Confirm
    <3>2. /\ call.op \in Op /\ call.op + 1 \in Op /\ call.op + 1 <= PaymentOp(a, w)
      BY <1>2, <2>1, <2>3, PaymentIsWrite DEF Op
    <3>3. call' \in [at : Point, account : Account \cup {Nobody}, work : Work, op : Op]
      BY <1>2, <3>1, <3>2 DEF Point
    <3>4. tx[a][w][call.op + 1] = "none" /\ \A o \in Op : o > call.op + 1 => tx[a][w][o] = "none"
      BY <2>1, <3>2 DEF Op
    <3>5. w = Opening /\ call.op + 1 \notin saved[a][w] => call.op + 1 = 4
      BY <2>1, <3>2 DEF Progress, Op
    <3>6. Progress'
      BY <1>1, <1>2, <2>1, <3>1, <3>2, <3>4, <3>5 DEF Progress, PaymentOp
    <3>7. QED
      BY <1>4, <3>3, <3>6
  <2>4. QED
    BY <2>2, <2>3
<1>9. QED
  BY <1>5, <1>6, <1>7, <1>8

\* The journal learns of a write before it is submitted (store.patch in the
\* checkpoints of src/pool/deposit.js and src/demo/service.js).
LEMMA SaveKeepsAccountsInv ==
  ASSUME AccountsInv, Save \/ Name
  PROVE  AccountsInv'
<1> USE DEF AccountsInv
<1> DEFINE a == call.account
           w == call.work
<1>1. PICK n \in Op \cup {0} :
        /\ saved' = [saved EXCEPT ![a][w] = @ \cup {n}]
        /\ \/ call.at = "save" /\ n = call.op /\ call' = [call EXCEPT !.at = "send"]
           \/ /\ call.at = "name"
              /\ \E o \in {1, 2} : call' = [call EXCEPT !.at = "save", !.op = o]
  BY DEF Save, Name, TypeOK
<1>2. /\ UNCHANGED <<state, terms, tx, sends>>
      /\ saved \in [Account -> [Work -> SUBSET (Op \cup {0})]]
      /\ call \in [at : Point, account : Account \cup {Nobody}, work : Work, op : Op]
      /\ a \in Account /\ w \in Work /\ state[a][w] = "pending"
      /\ call.op \in Op
  BY <1>1 DEF Save, Name, ledger, TypeOK, Progress
<1>3. /\ saved'[a][w] = saved[a][w] \cup {n}
      /\ \A b \in Account, v \in Work : saved[b][v] \subseteq saved'[b][v]
  BY <1>1, <1>2
<1>4. TypeOK'
  <2>1. saved' \in [Account -> [Work -> SUBSET (Op \cup {0})]]
    BY <1>1, <1>2
  <2>2. call' \in [at : Point, account : Account \cup {Nobody}, work : Work, op : Op]
    <3>1. CASE call' = [call EXCEPT !.at = "send"]
      BY <1>2, <3>1 DEF Point
    <3>2. ASSUME NEW o \in {1, 2}, call' = [call EXCEPT !.at = "save", !.op = o]
          PROVE  call' \in [at : Point, account : Account \cup {Nobody}, work : Work, op : Op]
      <4>1. o \in Op
        BY DEF Op
      <4>2. QED
        BY <1>2, <3>2, <4>1 DEF Point
    <3>3. QED
      BY <1>1, <3>1, <3>2
  <2>3. QED
    BY <1>2, <2>1, <2>2 DEF TypeOK
<1>5. WriteAhead'
  BY <1>2, <1>3 DEF WriteAhead
<1>6. OneUncertain' /\ CompleteIsPaid' /\ Counted' /\ OpenedFirst'
  BY <1>2 DEF OneUncertain, CompleteIsPaid, Counted, OpenedFirst, Ready, PaymentOp
<1>7. Progress'
  <2>1. CASE call.at = "save"
    <3>1. call'.at = "send" /\ call'.op = call.op /\ call'.account = a /\ call'.work = w
      BY <1>1, <1>2, <2>1
    <3>2. call.op \in saved'[a][w]
      BY <1>1, <1>3, <2>1
    <3>3. QED
      BY <1>2, <1>3, <2>1, <3>1, <3>2 DEF Progress, PaymentOp
  <2>2. CASE call.at = "name"
    <3>1. PICK o \in {1, 2} : call' = [call EXCEPT !.at = "save", !.op = o]
      BY <1>1, <2>2
    <3>2. call'.at = "save" /\ call'.op = o /\ call'.account = a /\ call'.work = w
      BY <1>2, <3>1
    <3>3. w # Opening /\ o <= PaymentOp(a, w) /\ o \in Op
      <4>1. PaymentOp(a, w) \in {2, 3, 4}
        BY PaymentIsWrite
      <4>2. QED
        BY <2>2, <4>1 DEF Progress, Op
    <3>4. \A x \in Op : tx[a][w][x] = "none"
      BY <2>2 DEF Progress, Op
    <3>5. PaymentOp(a, w)' = PaymentOp(a, w)
      BY <1>2, <3>2 DEF PaymentOp
    <3>6. QED
      BY <1>2, <3>2, <3>3, <3>4, <3>5 DEF Progress
  <2>3. QED
    BY <1>1, <2>1, <2>2
<1>8. QED
  BY <1>4, <1>5, <1>6, <1>7

\* A write is submitted the first time the call comes to it.
LEMMA SendKeepsAccountsInv ==
  ASSUME AccountsInv, Send
  PROVE  AccountsInv'
<1> USE DEF AccountsInv
<1> DEFINE a == call.account
           w == call.work
           op == call.op
<1>1. /\ call.at = "send"
      /\ sends' = [sends EXCEPT ![a][w][op] = @ + 1]
      /\ tx' = [tx EXCEPT ![a][w][op] = "sent"]
      /\ call' = [call EXCEPT !.at = "receipt"]
      /\ UNCHANGED <<state, terms, saved>>
  BY DEF Send, journal
<1>2. /\ tx \in [Account -> [Work -> [Op -> TxState]]]
      /\ sends \in [Account -> [Work -> [Op -> Nat]]]
      /\ call \in [at : Point, account : Account \cup {Nobody}, work : Work, op : Op]
      /\ a \in Account /\ w \in Work /\ op \in Op /\ state[a][w] = "pending"
      /\ tx[a][w][op] = "none" /\ op \in saved[a][w] /\ sends[a][w][op] = 0
  BY <1>1 DEF TypeOK, Progress, Counted
<1>3. /\ tx'[a][w][op] = "sent" /\ sends'[a][w][op] = 1
      /\ \A b \in Account, v \in Work, o \in Op : b # a \/ v # w \/ o # op =>
            tx'[b][v][o] = tx[b][v][o] /\ sends'[b][v][o] = sends[b][v][o]
  BY <1>1, <1>2
<1>4. /\ call'.at = "receipt" /\ call'.account = a /\ call'.work = w /\ call'.op = op
  BY <1>1, <1>2
<1>5. TypeOK'
  <2>1. tx' \in [Account -> [Work -> [Op -> TxState]]]
    BY <1>1, <1>2 DEF TxState
  <2>2. sends' \in [Account -> [Work -> [Op -> Nat]]]
    BY <1>1, <1>2
  <2>3. call' \in [at : Point, account : Account \cup {Nobody}, work : Work, op : Op]
    BY <1>1, <1>2 DEF Point
  <2>4. QED
    BY <1>1, <2>1, <2>2, <2>3 DEF TypeOK
<1>6. WriteAhead' /\ Counted'
  BY <1>1, <1>2, <1>3 DEF WriteAhead, Counted
<1>7. OneUncertain' /\ OpenedFirst'
  BY <1>1 DEF OneUncertain, OpenedFirst, Ready
<1>8. CompleteIsPaid'
  <2>1. ASSUME NEW b \in Account, NEW v \in Work, state[b][v] = "complete"
        PROVE  tx'[b][v][PaymentOp(b, v)] = "landed"
    <3>1. PaymentOp(b, v) \in Op
      BY PaymentIsWrite
    <3>2. b # a \/ v # w
      BY <1>2, <2>1
    <3>3. tx[b][v][PaymentOp(b, v)] = "landed"
      BY <2>1 DEF CompleteIsPaid
    <3>4. QED
      BY <1>3, <3>1, <3>2, <3>3
  <2>2. QED
    BY <1>1, <2>1 DEF CompleteIsPaid, PaymentOp
<1>9. Progress'
  BY <1>1, <1>2, <1>3, <1>4 DEF Progress, PaymentOp, Op
<1>10. QED
  BY <1>5, <1>6, <1>7, <1>8, <1>9

\* Work is completed when its payment is known to have landed.
LEMMA FinishKeepsAccountsInv ==
  ASSUME AccountsInv, Finish
  PROVE  AccountsInv'
<1> USE DEF AccountsInv
<1> DEFINE a == call.account
           w == call.work
<1>1. /\ state' = [state EXCEPT ![a][w] = "complete"]
      /\ call' = Idle
      /\ UNCHANGED <<terms, saved, tx, sends>>
  BY DEF Finish, Ended, ledger
<1>2. /\ state \in [Account -> [Work -> {"none", "pending", "complete"}]]
      /\ a \in Account /\ w \in Work /\ state[a][w] = "pending"
      /\ tx[a][w][PaymentOp(a, w)] = "landed"
  BY DEF TypeOK, Finish, Progress
<1>3. /\ state'[a][w] = "complete"
      /\ \A b \in Account, v \in Work : b # a \/ v # w => state'[b][v] = state[b][v]
  BY <1>1, <1>2
<1>4. TypeOK'
  <2>1. state' \in [Account -> [Work -> {"none", "pending", "complete"}]]
    BY <1>1, <1>2
  <2>2. call' \in [at : Point, account : Account \cup {Nobody}, work : Work, op : Op]
    BY <1>1 DEF Idle, Point, Op, Work
  <2>3. QED
    BY <1>1, <2>1, <2>2 DEF TypeOK
<1>5. WriteAhead' /\ Counted'
  BY <1>1, <1>2, <1>3 DEF WriteAhead, Counted
<1>6. OneUncertain' /\ OpenedFirst'
  BY <1>1, <1>2, <1>3 DEF OneUncertain, OpenedFirst, Ready, Work
<1>7. CompleteIsPaid'
  BY <1>1, <1>2, <1>3 DEF CompleteIsPaid, PaymentOp
<1>8. Progress'
  BY <1>1 DEF Progress, Idle
<1>9. QED
  BY <1>4, <1>5, <1>6, <1>7, <1>8

\* What was submitted lands or is void at any later time.
LEMMA LedgerKeepsAccountsInv ==
  ASSUME AccountsInv, NEW a \in Account, NEW w \in Work, NEW op \in Op,
         Land(a, w, op) \/ Void(a, w, op)
  PROVE  AccountsInv'
<1> USE DEF AccountsInv
<1>1. PICK s \in {"landed", "void"} : tx' = [tx EXCEPT ![a][w][op] = s]
  BY DEF Land, Void
<1>2. /\ tx[a][w][op] = "sent" /\ UNCHANGED <<state, terms, saved, sends, call>>
      /\ tx \in [Account -> [Work -> [Op -> TxState]]]
      /\ call \in [at : Point, account : Account \cup {Nobody}, work : Work, op : Op]
  BY DEF Land, Void, journal, TypeOK
<1>3. /\ tx'[a][w][op] = s
      /\ \A b \in Account, v \in Work, o \in Op : b # a \/ v # w \/ o # op =>
            tx'[b][v][o] = tx[b][v][o]
  BY <1>1, <1>2
<1>4. \A b \in Account, v \in Work, o \in Op :
        /\ tx'[b][v][o] = "none" <=> tx[b][v][o] = "none"
        /\ tx[b][v][o] = "landed" => tx'[b][v][o] = "landed"
  BY <1>2, <1>3
<1>5. TypeOK'
  <2>1. tx' \in [Account -> [Work -> [Op -> TxState]]]
    BY <1>1, <1>2 DEF TxState
  <2>2. QED
    BY <1>2, <2>1 DEF TypeOK
<1>6. WriteAhead' /\ Counted'
  BY <1>2, <1>4 DEF WriteAhead, Counted
<1>7. OneUncertain' /\ OpenedFirst'
  BY <1>2 DEF OneUncertain, OpenedFirst, Ready
<1>8. \A b, v : PaymentOp(b, v)' = PaymentOp(b, v)
  BY <1>2 DEF PaymentOp
<1>9. CompleteIsPaid'
  BY <1>2, <1>4, <1>8, PaymentIsWrite DEF CompleteIsPaid
<1>10. Progress'
  BY <1>2, <1>4, <1>8 DEF Progress
<1>11. QED
  BY <1>5, <1>6, <1>7, <1>9, <1>10

\* Every step preserves the invariant.
LEMMA NextAccountsInv ==
  ASSUME AccountsInv, [Next]_vars
  PROVE  AccountsInv'
<1>1. CASE UNCHANGED vars
  BY <1>1 DEF vars, AccountsInv, TypeOK, WriteAhead, OneUncertain, CompleteIsPaid,
              Progress, Counted, OpenedFirst, Ready, PaymentOp
<1>2. CASE Next
  BY <1>2, OpenKeepsAccountsInv, BeginKeepsAccountsInv, CallKeepsAccountsInv,
     SaveKeepsAccountsInv, SendKeepsAccountsInv, FinishKeepsAccountsInv,
     LedgerKeepsAccountsInv DEF Next
<1>3. QED
  BY <1>1, <1>2

-----------------------------------------------------------------------------
(* The theorems *)

\* The inductive invariant holds in every state the accounts reach.
THEOREM AccountsInvariant == Spec => []AccountsInv
<1>1. QED
  BY InitAccountsInv, NextAccountsInv, PTL DEF Spec

\* Every variable keeps its type.
THEOREM AccountsTyping == Spec => []TypeOK
<1>1. AccountsInv => TypeOK
  BY DEF AccountsInv
<1>2. QED
  BY <1>1, AccountsInvariant, PTL

\* No ledger write of a request is submitted twice.
THEOREM AccountsNeverRepeat == Spec => []NoRepeat
<1>1. AccountsInv => NoRepeat
  BY DEF AccountsInv, Counted, NoRepeat
<1>2. QED
  BY <1>1, AccountsInvariant, PTL

\* What was submitted has left its identifier in the journal.
THEOREM AccountsWriteAhead == Spec => []WriteAhead
<1>1. AccountsInv => WriteAhead
  BY DEF AccountsInv
<1>2. QED
  BY <1>1, AccountsInvariant, PTL

\* An account has at most one uncertain action.
THEOREM AccountsOneUncertain == Spec => []OneUncertain
<1>1. AccountsInv => OneUncertain
  BY DEF AccountsInv
<1>2. QED
  BY <1>1, AccountsInvariant, PTL

\* What the journal calls complete was paid.
THEOREM AccountsCompleteIsPaid == Spec => []CompleteIsPaid
<1>1. AccountsInv => CompleteIsPaid
  BY DEF AccountsInv
<1>2. QED
  BY <1>1, AccountsInvariant, PTL

-----------------------------------------------------------------------------
(* Refinement of OncePaid *)

\* A write is named by its account, its work and its place.
LEMMA WriteNames ==
  /\ \A a \in Account, w \in Work, o \in Op :
       /\ <<a, w, o>> \in Writes
       /\ <<a, w, o>>[1] = a /\ <<a, w, o>>[2] = w /\ <<a, w, o>>[3] = o
  /\ \A p \in Writes :
       /\ p[1] \in Account /\ p[2] \in Work /\ p[3] \in Op
       /\ p = <<p[1], p[2], p[3]>>
  BY DEF Writes

\* What is reported does not change while nothing is completed.
LEMMA ReportedKept ==
  ASSUME AccountsInv, [Next]_vars, ~Finish
  PROVE  \A p \in Writes :
           (state[p[1]][p[2]] = "complete" /\ p[3] = PaymentOp(p[1], p[2]))'
             <=> (state[p[1]][p[2]] = "complete" /\ p[3] = PaymentOp(p[1], p[2]))
<1>1. CASE UNCHANGED <<state, terms>>
  BY <1>1 DEF PaymentOp
<1>2. ASSUME NEW a \in Account, Open(a)
      PROVE  \A b \in Account, w \in Work :
               /\ state'[b][w] = "complete" <=> state[b][w] = "complete"
               /\ PaymentOp(b, w)' = PaymentOp(b, w)
  BY <1>2 DEF AccountsInv, TypeOK, Open, PaymentOp, Work
<1>3. ASSUME NEW a \in Account, NEW r \in Request, NEW t \in Terms, Begin(a, r, t)
      PROVE  \A b \in Account, w \in Work :
               /\ state'[b][w] = "complete" <=> state[b][w] = "complete"
               /\ state[b][w] = "complete" => PaymentOp(b, w)' = PaymentOp(b, w)
  <2>1. /\ state' = [state EXCEPT ![a][r] = "pending"] /\ state[a][r] = "none"
        /\ terms' = [terms EXCEPT ![a][r] = t]
        /\ state \in [Account -> [Work -> {"none", "pending", "complete"}]]
        /\ terms \in [Account -> [Request -> Terms \cup {NoTerms}]]
        /\ r \in Work
    BY <1>3 DEF AccountsInv, TypeOK, Begin, Work
  <2>2. \A b \in Account, w \in Work : state'[b][w] = "complete" <=> state[b][w] = "complete"
    BY <2>1
  <2>3. ASSUME NEW b \in Account, NEW w \in Work, state[b][w] = "complete"
        PROVE  PaymentOp(b, w)' = PaymentOp(b, w)
    <3>1. w # Opening => w \in Request /\ terms'[b][w] = terms[b][w]
      BY <2>1, <2>3 DEF Work
    <3>2. QED
      BY <3>1 DEF PaymentOp
  <2>4. QED
    BY <2>2, <2>3
<1>4. \/ UNCHANGED <<state, terms>>
      \/ \E a \in Account : Open(a)
      \/ \E a \in Account, r \in Request, t \in Terms : Begin(a, r, t)
  BY DEF Next, vars, Retry, Name, Save, Send, Confirm, Reconcile, Abandon, Land, Void, journal
<1>5. QED
  BY <1>1, <1>2, <1>3, <1>4, WriteNames

\* The accounts pay once and report what was executed: sending is Submit,
\* landing is Execute, finishing is Report.
THEOREM AccountsPayOnce == Spec => PaidOnce
<1> DEFINE submitted == [p \in Writes |-> sends[p[1]][p[2]][p[3]]]
           executed == {p \in Writes : tx[p[1]][p[2]][p[3]] = "landed"}
           reported == {p \in Writes : /\ state[p[1]][p[2]] = "complete"
                                       /\ p[3] = PaymentOp(p[1], p[2])}
<1>1. Init => Once!Init
  BY WriteNames DEF Init, Once!Init
<1>2. ASSUME AccountsInv, [Next]_vars
      PROVE  [Once!Next]_<<submitted, executed, reported>>
  <2>1. ASSUME Send PROVE Once!Next
    <3> DEFINE a == call.account
               w == call.work
               op == call.op
               p == <<a, w, op>>
    <3>1. /\ a \in Account /\ w \in Work /\ op \in Op
          /\ tx[a][w][op] = "none" /\ sends[a][w][op] = 0
          /\ tx \in [Account -> [Work -> [Op -> TxState]]]
          /\ sends \in [Account -> [Work -> [Op -> Nat]]]
          /\ sends' = [sends EXCEPT ![a][w][op] = @ + 1]
          /\ tx' = [tx EXCEPT ![a][w][op] = "sent"]
      BY <1>2, <2>1 DEF AccountsInv, TypeOK, Progress, Counted, Send
    <3>2. reported' = reported
      BY <1>2, <2>1, ReportedKept DEF Finish, Send
    <3>3. \A q \in Writes : /\ sends'[q[1]][q[2]][q[3]] = IF q = p THEN 1 ELSE submitted[q]
                            /\ q \in executed' <=> q \in executed
      BY <3>1, WriteNames
    <3>4. p \in Writes /\ submitted[p] = 0
      BY <3>1, WriteNames
    <3>5. submitted' = [submitted EXCEPT ![p] = 1] /\ executed' = executed
      BY <3>3, <3>4
    <3>6. PICK q \in Writes : q = p
      BY <3>4
    <3>7. Once!Submit(q)
      BY <3>2, <3>4, <3>5, <3>6 DEF Once!Submit
    <3>8. QED
      BY <3>7 DEF Once!Next
  <2>2. ASSUME NEW a \in Account, NEW w \in Work, NEW op \in Op, Land(a, w, op)
        PROVE  Once!Next
    <3> DEFINE p == <<a, w, op>>
    <3>1. /\ tx[a][w][op] = "sent" /\ sends[a][w][op] = 1 /\ sends' = sends
          /\ tx \in [Account -> [Work -> [Op -> TxState]]]
          /\ tx' = [tx EXCEPT ![a][w][op] = "landed"]
      BY <1>2, <2>2 DEF AccountsInv, TypeOK, Counted, Land
    <3>2. reported' = reported
      <4>1. ~Finish
        BY <3>1 DEF Finish, ledger
      <4>2. QED
        BY <1>2, <4>1, ReportedKept
    <3>3. p \in Writes /\ p \notin executed /\ submitted[p] = 1
      BY <3>1, WriteNames
    <3>4. \A q \in Writes : q \in executed' <=> q \in executed \/ q = p
      BY <3>1, WriteNames
    <3>5. executed' = executed \cup {p} /\ submitted' = submitted
      BY <3>1, <3>3, <3>4
    <3>6. Once!Execute(p)
      BY <3>2, <3>3, <3>5 DEF Once!Execute
    <3>7. QED
      BY <3>3, <3>6 DEF Once!Next
  <2>3. ASSUME Finish PROVE Once!Next
    <3> DEFINE a == call.account
               w == call.work
               p == <<a, w, PaymentOp(a, w)>>
    <3>1. /\ a \in Account /\ w \in Work /\ PaymentOp(a, w) \in Op
          /\ state[a][w] = "pending" /\ tx[a][w][PaymentOp(a, w)] = "landed"
          /\ state \in [Account -> [Work -> {"none", "pending", "complete"}]]
          /\ state' = [state EXCEPT ![a][w] = "complete"]
          /\ terms' = terms /\ sends' = sends /\ tx' = tx
      BY <1>2, <2>3, PaymentIsWrite DEF AccountsInv, TypeOK, Progress, Finish, ledger
    <3>2. p \in executed \ reported /\ p \in Writes
      BY <3>1, WriteNames
    <3>3. \A b, v : PaymentOp(b, v)' = PaymentOp(b, v)
      BY <3>1 DEF PaymentOp
    <3>4. \A q \in Writes : q \in reported' <=> q \in reported \/ q = p
      <4>1. ASSUME NEW q \in Writes
            PROVE  q \in reported' <=> q \in reported \/ q = p
        <5>1. q[1] \in Account /\ q[2] \in Work /\ q = <<q[1], q[2], q[3]>>
          BY WriteNames
        <5>2. CASE q[1] = a /\ q[2] = w
          BY <3>1, <3>3, <5>1, <5>2
        <5>3. CASE q[1] # a \/ q[2] # w
          <6>1. state'[q[1]][q[2]] = state[q[1]][q[2]]
            BY <3>1, <5>1, <5>3
          <6>2. q # p
            BY <3>1, <5>3, WriteNames
          <6>3. QED
            BY <3>3, <6>1, <6>2
        <5>4. QED
          BY <5>2, <5>3
      <4>2. QED
        BY <4>1
    <3>5. reported' = reported \cup {p} /\ executed' = executed /\ submitted' = submitted
      BY <3>1, <3>2, <3>4
    <3>6. PICK q \in Writes : q = p
      BY <3>2
    <3>7. Once!Report(q)
      BY <3>2, <3>5, <3>6 DEF Once!Report
    <3>8. QED
      BY <3>7 DEF Once!Next
  <2>4. ASSUME NEW a \in Account, NEW w \in Work, NEW op \in Op, Void(a, w, op)
        PROVE  UNCHANGED <<submitted, executed, reported>>
    <3>1. /\ tx[a][w][op] = "sent" /\ sends' = sends
          /\ tx \in [Account -> [Work -> [Op -> TxState]]]
          /\ tx' = [tx EXCEPT ![a][w][op] = "void"]
      BY <1>2, <2>4 DEF AccountsInv, TypeOK, Void
    <3>2. \A q \in Writes : q \in executed' <=> q \in executed
      BY <3>1, WriteNames
    <3>3. executed' = executed /\ submitted' = submitted
      BY <3>1, <3>2
    <3>4. ~Finish
      BY <3>1 DEF Finish, ledger
    <3>5. QED
      BY <1>2, <3>3, <3>4, ReportedKept
  <2>5. CASE UNCHANGED <<tx, sends>> /\ ~Finish
    BY <1>2, <2>5, ReportedKept
  <2>6. QED
    BY <1>2, <2>1, <2>2, <2>3, <2>4, <2>5 DEF Next, vars, Open, Begin, Retry, Name, Save,
       Confirm, Reconcile, Abandon, ledger
<1>3. QED
  BY <1>1, <1>2, AccountsInvariant, PTL DEF Spec, PaidOnce, Once!Spec

\* A request costs its owner once, for any accounts, requests and retries.
THEOREM AccountsCostOnce == Spec => []RequestsCostOnce
<1>1. QED
  BY AccountsNeverRepeat, AccountsOneUncertain, AccountsCompleteIsPaid, PTL DEF RequestsCostOnce
=============================================================================
