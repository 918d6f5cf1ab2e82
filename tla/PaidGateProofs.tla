--------------------------- MODULE PaidGateProofs ---------------------------
(***************************************************************************)
(* Theorems about the paid gate, for any services, requests and payments:  *)
(* GateInv is an invariant, and the gate implements PaidAnswer.            *)
(***************************************************************************)
EXTENDS PaidGate, TLAPS

USE GateAssumption

Record == [at : Point, process : Process \cup {NoProcess},
           payment : Payment \cup {NoPayment}, evidence : Evidence]

\* Going to a point changes nothing else of any request.
LEMMA GotoFacts ==
  ASSUME TypeOK, NEW h \in Handler, NEW point \in Point, Goto(h, point)
  PROVE  /\ request' \in [Handler -> Record]
         /\ request'[h].at = point
         /\ request'[h].payment = request[h].payment
         /\ request'[h].evidence = request[h].evidence
         /\ \A g \in Handler : g # h => request'[g] = request[g]
<1>1. request \in [Handler -> Record] /\ request' = [request EXCEPT ![h].at = point]
  BY DEF TypeOK, Goto, Record
<1>2. request[h] \in Record /\ request'[h] = [request[h] EXCEPT !.at = point]
  BY <1>1
<1>3. request'[h] \in Record
  BY <1>2 DEF Record
<1>4. /\ request'[h].at = point
      /\ request'[h].payment = request[h].payment
      /\ request'[h].evidence = request[h].evidence
  BY <1>2 DEF Record
<1>5. \A g \in Handler : g # h => request'[g] = request[g]
  BY <1>1
<1>6. request' \in [Handler -> Record]
  BY <1>1, <1>3, <1>5
<1>7. QED
  BY <1>4, <1>5, <1>6

\* Senders are handlers.
LEMMA SendersAreHandlers ==
  ASSUME TypeOK
  PROVE  \A x \in Payment : \A h \in senders[x] : h \in Handler
  BY DEF TypeOK

\* Nothing has arrived and nothing was touched.
LEMMA InitGateInv == Init => GateInv
<1> SUFFICES ASSUME Init PROVE GateInv
  OBVIOUS
<1>1. TypeOK
  BY DEF Init, TypeOK, Point, Evidence, TxState
<1>2. Untouched /\ OneClaim /\ Sent /\ Progress
  BY DEF Init, Untouched, OneClaim, Sent, Progress, Claimed
<1>3. QED
  BY <1>1, <1>2 DEF GateInv

\* A request arrives with a payment; whether it was offered before does not
\* matter yet (src/oracle/service.js:102-119).
LEMMA ArriveKeepsGateInv ==
  ASSUME GateInv, NEW h \in Handler, NEW p \in Process, NEW x \in Payment, Arrive(h, p, x)
  PROVE  GateInv'
<1> USE DEF GateInv
<1>1. /\ request \in [Handler -> Record]
      /\ request' = [request EXCEPT ![h].at = "verify", ![h].process = p, ![h].payment = x]
      /\ request[h].at = "new" /\ request[h].payment = NoPayment
      /\ journal' = journal /\ senders' = senders /\ tx' = tx /\ signed' = signed
  BY DEF TypeOK, Record, Arrive, ledger, Progress
<1>2. /\ request' \in [Handler -> Record]
      /\ request'[h].at = "verify" /\ request'[h].payment = x
      /\ \A g \in Handler : g # h => request'[g] = request[g]
  BY <1>1 DEF Record, Point
<1>3. h \notin signed /\ \A y \in Payment : h \notin senders[y]
  BY <1>1 DEF Progress, Sent
<1>4. TypeOK'
  BY <1>1, <1>2 DEF TypeOK, Record
<1>5. Untouched' /\ Sent'
  BY <1>1, <1>2, <1>3, SendersAreHandlers DEF Untouched, Sent, Claimed
<1>6. OneClaim'
  BY <1>1, <1>2, <1>3 DEF OneClaim, Claimed
<1>7. Progress'
  BY <1>1, <1>2, <1>3 DEF Progress, Claimed
<1>8. QED
  BY <1>4, <1>5, <1>6, <1>7

\* Before its file is created a request touches nothing: it goes on or ends
\* (src/x402/gate.js:47-76, src/x402/blocky.js:39-55).
LEMMA EarlyKeepsGateInv ==
  ASSUME GateInv, NEW h \in Handler,
         request' \in [Handler -> Record],
         request[h].at \in {"verify", "attest", "authorize", "journal"},
         request'[h].at \in {"attest", "authorize", "journal", "declined", "refused"},
         request'[h].payment = request[h].payment,
         \A g \in Handler : g # h => request'[g] = request[g],
         UNCHANGED <<journal, ledger, signed>>
  PROVE  GateInv'
<1> USE DEF GateInv
<1>1. journal' = journal /\ senders' = senders /\ tx' = tx /\ signed' = signed
  BY DEF ledger
<1>2. h \notin signed /\ \A y \in Payment : h \notin senders[y]
  BY DEF Progress, Sent
<1>3. TypeOK'
  BY <1>1 DEF TypeOK, Record
<1>4. Untouched' /\ Sent'
  BY <1>1, <1>2, SendersAreHandlers DEF Untouched, Sent, Claimed
<1>5. OneClaim'
  BY <1>1, <1>2 DEF OneClaim, Claimed
<1>6. Progress'
  BY <1>1, <1>2 DEF Progress, Claimed
<1>7. QED
  BY <1>3, <1>4, <1>5, <1>6

\* The exclusive creation: the payment was untouched, so this claim is the only
\* one (src/x402/blocky.js:62-63).
LEMMA ClaimKeepsGateInv ==
  ASSUME GateInv, NEW h \in Handler, Claim(h)
  PROVE  GateInv'
<1> DEFINE x == request[h].payment
<1> USE DEF GateInv
<1>1. /\ request[h].at = "journal" /\ Goto(h, "send") /\ "send" \in Point
      /\ senders' = senders /\ tx' = tx /\ signed' = signed
  BY DEF Claim, ledger, Point
<1>2. x \in Payment
  BY <1>1 DEF TypeOK, Progress, Record
<1>3. /\ journal[x] = "none" /\ journal' = [journal EXCEPT ![x] = "pending"]
      /\ journal' \in [Payment -> {"none", "pending", "confirmed"}]
      /\ journal'[x] = "pending"
      /\ \A y \in Payment : y # x => journal'[y] = journal[y]
  BY <1>2 DEF Claim, TypeOK
<1>4. /\ senders[x] = {} /\ tx[x] = "none"
      /\ \A g \in Handler : request[g].payment = x => request[g].at \notin Claimed
  BY <1>2, <1>3 DEF Untouched
<1>5. /\ request' \in [Handler -> Record]
      /\ request'[h].at = "send" /\ request'[h].payment = x
      /\ \A g \in Handler : g # h => request'[g] = request[g]
  BY <1>1, GotoFacts
<1>6. h \notin signed /\ \A y \in Payment : h \notin senders[y]
  BY <1>1 DEF Progress, Sent
<1>7. TypeOK'
  BY <1>1, <1>3, <1>5 DEF TypeOK, Record
<1>8. Untouched' /\ Sent'
  BY <1>1, <1>3, <1>5, <1>6, SendersAreHandlers DEF Untouched, Sent
<1>9. OneClaim'
  BY <1>1, <1>2, <1>4, <1>5 DEF OneClaim
<1>10. Progress'
  BY <1>1, <1>4, <1>5, <1>6 DEF Progress, Claimed
<1>11. QED
  BY <1>7, <1>8, <1>9, <1>10

\* The only submission of the payment (src/x402/blocky.js:64).
LEMMA SendKeepsGateInv ==
  ASSUME GateInv, NEW h \in Handler, Send(h)
  PROVE  GateInv'
<1> DEFINE x == request[h].payment
<1> USE DEF GateInv
<1>1. /\ request[h].at = "send" /\ Goto(h, "receipt") /\ "receipt" \in Point
      /\ journal' = journal /\ signed' = signed
  BY DEF Send, Point
<1>2. x \in Payment /\ senders[x] = {} /\ tx[x] = "none"
  BY <1>1 DEF TypeOK, Progress, Record
<1>3. /\ senders \in [Payment -> SUBSET Handler] /\ tx \in [Payment -> TxState]
      /\ senders' = [senders EXCEPT ![x] = @ \cup {h}]
      /\ tx' = [tx EXCEPT ![x] = IF @ = "none" THEN "sent" ELSE @]
  BY DEF Send, TypeOK
<1>4. /\ senders'[x] = {h} /\ tx'[x] = "sent"
      /\ \A y \in Payment : y # x => senders'[y] = senders[y] /\ tx'[y] = tx[y]
  BY <1>2, <1>3
<1>5. /\ request' \in [Handler -> Record]
      /\ request'[h].at = "receipt" /\ request'[h].payment = x
      /\ \A g \in Handler : g # h => request'[g] = request[g]
  BY <1>1, GotoFacts
<1>6. \A g \in Handler : g # h /\ request[g].payment = x => request[g].at \notin Claimed
  BY <1>1, <1>2 DEF OneClaim, Claimed
<1>7. journal[x] # "none"
  BY <1>1, <1>2 DEF Untouched, Claimed
<1>8. h \notin signed
  BY <1>1 DEF Progress
<1>9. TypeOK'
  <2>1. senders' \in [Payment -> SUBSET Handler]
    BY <1>2, <1>3, <1>4
  <2>2. tx' \in [Payment -> TxState]
    BY <1>2, <1>3, <1>4 DEF TxState
  <2>3. QED
    BY <1>1, <1>5, <2>1, <2>2 DEF TypeOK, Record
<1>10. Untouched'
  BY <1>1, <1>4, <1>5, <1>7 DEF Untouched
<1>11. Sent'
  BY <1>1, <1>4, <1>5, SendersAreHandlers DEF Sent
<1>12. OneClaim'
  <2>1. SUFFICES ASSUME NEW y \in Payment, NEW g \in Handler, NEW k \in Handler,
                        request'[g].payment = y, request'[g].at \in Claimed \/ g \in senders'[y],
                        request'[k].payment = y, request'[k].at \in Claimed \/ k \in senders'[y]
                 PROVE  g = k
    BY DEF OneClaim
  <2>2. CASE y = x
    BY <1>4, <1>5, <1>6, <2>1, <2>2
  <2>3. CASE y # x
    BY <1>4, <1>5, <2>1, <2>3 DEF OneClaim
  <2>4. QED
    BY <2>2, <2>3
<1>13. Progress'
  <2>1. SUFFICES ASSUME NEW g \in Handler
                 PROVE  Progress!(g)'
    BY DEF Progress
  <2>2. CASE g = h
    BY <1>1, <1>2, <1>4, <1>5, <1>8, <2>2 DEF Progress, Claimed
  <2>3. CASE g # h
    <3>1. request[g].payment \in Payment \cup {NoPayment}
      BY DEF TypeOK
    <3>2. g \in signed => request[g].payment # x
      BY <1>2, <2>3 DEF Progress
    <3>3. request[g].payment = x => request[g].at \notin Claimed
      BY <1>6, <2>3
    <3>4. request'[g] = request[g]
      BY <1>5, <2>3
    <3>5. request[g].payment = NoPayment => request[g].at = "new"
      BY DEF Progress
    <3>6. request[g].at # "new" /\ request[g].payment # x =>
            /\ senders'[request[g].payment] = senders[request[g].payment]
            /\ tx'[request[g].payment] = tx[request[g].payment]
      BY <1>4, <3>1, <3>5
    <3>7. QED
      BY <1>1, <3>2, <3>3, <3>4, <3>5, <3>6 DEF Progress, Claimed
  <2>4. QED
    BY <2>2, <2>3
<1>14. QED
  BY <1>9, <1>10, <1>11, <1>12, <1>13

\* After the creation of the file a request goes on in order or is refused, and
\* signs on qualifying evidence; the ledger is left alone
\* (src/x402/blocky.js:64-73, src/oracle/service.js:125-135).
LEMMA LateKeepsGateInv ==
  ASSUME GateInv, NEW h \in Handler,
         request' \in [Handler -> Record],
         request[h].at \in {"send", "receipt", "confirm", "sign", "serve"},
         \/ request'[h].at = "confirm" /\ request[h].at = "receipt"
              /\ tx[request[h].payment] = "landed" /\ signed' = signed
         \/ request'[h].at = "sign" /\ request[h].at = "confirm"
              /\ request[h].evidence = "match" /\ signed' = signed
         \/ request'[h].at = "serve" /\ request[h].at \in {"confirm", "sign"} /\ signed' = signed
         \/ request'[h].at = "serve" /\ request[h].at = "sign" /\ signed' = signed \cup {h}
         \/ request'[h].at = "answered" /\ request[h].at = "serve" /\ signed' = signed
         \/ request'[h].at = "refused" /\ request[h].at \notin {"sign", "serve"}
              /\ signed' = signed,
         request'[h].payment = request[h].payment,
         request'[h].evidence = request[h].evidence,
         \A g \in Handler : g # h => request'[g] = request[g],
         journal' \in [Payment -> {"none", "pending", "confirmed"}],
         \A x \in Payment : journal'[x] = "none" => journal[x] = "none",
         senders' = senders, tx' = tx
  PROVE  GateInv'
<1> USE DEF GateInv
<1>1. request[h].payment \in Payment
  BY DEF TypeOK, Progress
<1>2. TypeOK'
  BY DEF TypeOK, Record
<1>3. Untouched'
  BY DEF Untouched, Claimed
<1>4. Sent'
  BY SendersAreHandlers DEF Sent
<1>5. OneClaim'
  BY DEF OneClaim, Claimed
<1>6. Progress'
  <2>1. SUFFICES ASSUME NEW g \in Handler PROVE Progress!(g)'
    BY DEF Progress
  <2>2. CASE g = h
    BY <1>1, <2>2 DEF Progress, Claimed
  <2>3. CASE g # h
    BY <2>3 DEF Progress, Claimed
  <2>4. QED
    BY <2>2, <2>3
<1>7. QED
  BY <1>2, <1>3, <1>4, <1>5, <1>6

\* Every step of a handler.
LEMMA StepKeepsGateInv ==
  ASSUME GateInv, NEW h \in Handler, Step(h)
  PROVE  GateInv'
<1> TypeOK
  BY DEF GateInv
<1> journal \in [Payment -> {"none", "pending", "confirmed"}]
  BY DEF TypeOK
<1>1. ASSUME NEW p \in Process, NEW x \in Payment, Arrive(h, p, x) PROVE GateInv'
  BY <1>1, ArriveKeepsGateInv
<1>2. CASE Verify(h) \/ VerifyFails(h) \/ SourceUnavailable(h) \/ Authorize(h) \/ AlreadyAttempted(h)
  <2>1. /\ UNCHANGED <<journal, ledger, signed>>
        /\ request[h].at \in {"verify", "attest", "authorize", "journal"}
        /\ \E point \in {"attest", "declined", "journal", "refused"} : Goto(h, point)
    BY <1>2 DEF Verify, VerifyFails, SourceUnavailable, Authorize, AlreadyAttempted
  <2>2. PICK point \in {"attest", "declined", "journal", "refused"} : Goto(h, point)
    BY <2>1
  <2>3. point \in Point
    BY DEF Point
  <2>4. QED
    BY <2>1, <2>2, <2>3, GotoFacts, EarlyKeepsGateInv
<1>3. ASSUME NEW found \in {"match", "no match"}, Attest(h, found) PROVE GateInv'
  <2>1. /\ request \in [Handler -> Record]
        /\ request' = [request EXCEPT ![h].at = "authorize", ![h].evidence = found]
        /\ request[h].at = "attest" /\ UNCHANGED <<journal, ledger, signed>>
    BY <1>3 DEF TypeOK, Record, Attest
  <2>2. /\ request' \in [Handler -> Record]
        /\ request'[h].at = "authorize" /\ request'[h].payment = request[h].payment
        /\ \A g \in Handler : g # h => request'[g] = request[g]
    BY <2>1 DEF Record, Point, Evidence
  <2>3. QED
    BY <2>1, <2>2, EarlyKeepsGateInv
<1>4. CASE Claim(h)
  BY <1>4, ClaimKeepsGateInv
<1>5. CASE Send(h)
  BY <1>5, SendKeepsGateInv
<1>6. CASE Receipt(h)
  <2>1. /\ request[h].at = "receipt" /\ tx[request[h].payment] = "landed"
        /\ Goto(h, "confirm") /\ "confirm" \in Point
        /\ journal' = journal /\ senders' = senders /\ tx' = tx /\ signed' = signed
    BY <1>6 DEF Receipt, ledger, Point
  <2>2. QED
    BY <2>1, GotoFacts, LateKeepsGateInv
<1>7. CASE Confirm(h)
  <2>1. /\ request[h].at = "confirm"
        /\ journal' = [journal EXCEPT ![request[h].payment] = "confirmed"]
        /\ senders' = senders /\ tx' = tx /\ signed' = signed
        /\ "serve" \in Point /\ "sign" \in Point
    BY <1>7 DEF Confirm, ledger, Point
  <2>2. /\ journal' \in [Payment -> {"none", "pending", "confirmed"}]
        /\ \A x \in Payment : journal'[x] = "none" => journal[x] = "none"
    BY <2>1
  <2>3. CASE Goto(h, "serve")
    BY <2>1, <2>2, <2>3, GotoFacts, LateKeepsGateInv
  <2>4. CASE request[h].evidence = "match" /\ Goto(h, "sign")
    BY <2>1, <2>2, <2>4, GotoFacts, LateKeepsGateInv
  <2>5. QED
    BY <1>7, <2>3, <2>4 DEF Confirm
<1>8. CASE Sign(h)
  <2>1. /\ request[h].at = "sign" /\ signed' = signed \cup {h}
        /\ Goto(h, "serve") /\ "serve" \in Point
        /\ journal' = journal /\ senders' = senders /\ tx' = tx
    BY <1>8 DEF Sign, ledger, Point
  <2>2. QED
    BY <2>1, GotoFacts, LateKeepsGateInv
<1>9. CASE Serve(h)
  <2>1. /\ request[h].at = "serve" /\ Goto(h, "answered") /\ "answered" \in Point
        /\ journal' = journal /\ senders' = senders /\ tx' = tx /\ signed' = signed
    BY <1>9 DEF Serve, ledger, Point
  <2>2. QED
    BY <2>1, GotoFacts, LateKeepsGateInv
<1>10. CASE Refuse(h)
  <2>1. /\ request[h].at \in {"verify", "authorize", "journal", "send", "receipt", "confirm"}
        /\ Goto(h, "refused") /\ "refused" \in Point
        /\ journal' = journal /\ senders' = senders /\ tx' = tx /\ signed' = signed
        /\ UNCHANGED <<journal, ledger, signed>>
    BY <1>10 DEF Refuse, ledger, Point
  <2>2. CASE request[h].at \in {"verify", "authorize", "journal"}
    BY <2>1, <2>2, GotoFacts, EarlyKeepsGateInv
  <2>3. CASE request[h].at \in {"send", "receipt", "confirm"}
    BY <2>1, <2>3, GotoFacts, LateKeepsGateInv
  <2>4. QED
    BY <2>1, <2>2, <2>3
<1>11. CASE SignFails(h)
  <2>1. /\ request[h].at = "sign" /\ Goto(h, "serve") /\ "serve" \in Point
        /\ journal' = journal /\ senders' = senders /\ tx' = tx /\ signed' = signed
    BY <1>11 DEF SignFails, ledger, Point
  <2>2. QED
    BY <2>1, GotoFacts, LateKeepsGateInv
<1>12. QED
  BY <1>1, <1>2, <1>3, <1>4, <1>5, <1>6, <1>7, <1>8, <1>9, <1>10, <1>11 DEF Step

\* A process dies: its requests have no answer, and the files stay.
LEMMA CrashKeepsGateInv ==
  ASSUME GateInv, NEW p \in Process, Crash(p)
  PROVE  GateInv'
<1> USE DEF GateInv
<1>1. /\ request \in [Handler -> Record]
      /\ journal' = journal /\ senders' = senders /\ tx' = tx /\ signed' = signed
  BY DEF TypeOK, Record, Crash, ledger
<1>2. \A h \in Handler :
        /\ request'[h] \in Record
        /\ request'[h].payment = request[h].payment
        /\ request'[h].process = request[h].process
        /\ request'[h].evidence = request[h].evidence
        /\ \/ request'[h].at = request[h].at
           \/ request'[h].at = "dead" /\ request[h].at \notin End /\ request[h].process = p
  BY <1>1 DEF Crash, Record, Point
<1>3. request' \in [Handler -> Record]
  BY <1>2 DEF Crash
<1>4. TypeOK'
  BY <1>1, <1>3 DEF TypeOK, Record
<1>5. Untouched' /\ OneClaim'
  BY <1>1, <1>2 DEF Untouched, OneClaim, Claimed
<1>6. Sent'
  BY <1>1, <1>2, SendersAreHandlers DEF Sent
<1>7. \A h \in Handler : request[h].at = "new" => request[h].process = NoProcess
  BY DEF Progress
<1>8. Progress'
  <2>1. SUFFICES ASSUME NEW h \in Handler PROVE Progress!(h)'
    BY DEF Progress
  <2>2. CASE request'[h].at = request[h].at
    BY <1>1, <1>2, <2>2 DEF Progress
  <2>3. CASE request'[h].at = "dead" /\ request[h].at \notin End /\ request[h].process = p
    BY <1>1, <1>2, <1>7, <2>3 DEF Progress, Claimed, End
  <2>4. QED
    BY <1>2, <2>2, <2>3
<1>9. QED
  BY <1>4, <1>5, <1>6, <1>8

\* The ledger executes or rejects what was submitted, which has a file.
LEMMA LedgerKeepsGateInv ==
  ASSUME GateInv, NEW x \in Payment, Land(x) \/ Void(x)
  PROVE  GateInv'
<1> USE DEF GateInv
<1>1. /\ tx[x] = "sent"
      /\ request' = request /\ journal' = journal /\ senders' = senders /\ signed' = signed
      /\ tx \in [Payment -> TxState]
      /\ \E state \in {"landed", "void"} : tx' = [tx EXCEPT ![x] = state]
  BY DEF Land, Void, TypeOK
<1>2. /\ tx' \in [Payment -> TxState]
      /\ tx'[x] # "none" /\ \A y \in Payment : y # x => tx'[y] = tx[y]
  BY <1>1 DEF TxState
<1>3. TypeOK'
  BY <1>1, <1>2 DEF TypeOK
<1>4. Untouched' /\ OneClaim' /\ Sent'
  BY <1>1, <1>2, SendersAreHandlers DEF Untouched, OneClaim, Sent
<1>5. Progress'
  <2>1. SUFFICES ASSUME NEW h \in Handler PROVE Progress!(h)'
    BY DEF Progress
  <2>2. CASE request[h].payment = x
    BY <1>1, <1>2, <2>2 DEF Progress
  <2>3. CASE request[h].payment # x
    <3>1. request[h].at = "new" \/ request[h].payment \in Payment
      BY DEF Progress, TypeOK
    <3>2. request[h].at = "new" \/ tx'[request[h].payment] = tx[request[h].payment]
      BY <1>2, <2>3, <3>1
    <3>3. QED
      BY <1>1, <3>2 DEF Progress, Claimed
  <2>4. QED
    BY <2>2, <2>3
<1>6. QED
  BY <1>3, <1>4, <1>5

\* Every step keeps the invariant.
LEMMA NextGateInv == GateInv /\ [Next]_vars => GateInv'
<1> SUFFICES ASSUME GateInv, [Next]_vars PROVE GateInv'
  OBVIOUS
<1>1. ASSUME NEW h \in Handler, Step(h) PROVE GateInv'
  BY <1>1, StepKeepsGateInv
<1>2. ASSUME NEW p \in Process, Crash(p) PROVE GateInv'
  BY <1>2, CrashKeepsGateInv
<1>3. ASSUME NEW x \in Payment, Land(x) \/ Void(x) PROVE GateInv'
  BY <1>3, LedgerKeepsGateInv
<1>4. CASE UNCHANGED vars
  BY <1>4 DEF vars, GateInv, TypeOK, Untouched, OneClaim, Sent, Progress
<1>5. QED
  BY <1>1, <1>2, <1>3, <1>4 DEF Next

-----------------------------------------------------------------------------
(* The theorems *)

\* The inductive invariant holds in every state the gate reaches.
THEOREM GateInvariant == Spec => []GateInv
<1>1. QED
  BY InitGateInv, NextGateInv, PTL DEF Spec

\* Every variable keeps its type.
THEOREM GateTyping == Spec => []TypeOK
<1>1. GateInv => TypeOK
  BY DEF GateInv
<1>2. QED
  BY <1>1, GateInvariant, PTL

\* A payment buys one answer, and one signature.
THEOREM GateAnswersOnce == Spec => []AnsweredOnce
<1>1. ASSUME GateInv PROVE AnsweredOnce
  <2>1. SUFFICES ASSUME NEW g \in Handler, NEW h \in Handler,
                        request[g].payment = request[h].payment,
                        request[g].at = "answered" \/ g \in signed,
                        request[h].at = "answered" \/ h \in signed
                 PROVE  g = h
    BY DEF AnsweredOnce
  <2>2. request[g].payment \in Payment
    BY <1>1, <2>1 DEF GateInv, TypeOK, Progress
  <2>3. /\ g \in senders[request[g].payment]
        /\ h \in senders[request[g].payment]
    BY <1>1, <2>1 DEF GateInv, Progress, Claimed
  <2>4. QED
    BY <1>1, <2>1, <2>2, <2>3 DEF GateInv, OneClaim
<1>2. QED
  BY <1>1, GateInvariant, PTL

\* A payout is signed on evidence and after payment.
THEOREM GateSignsOnEvidence == Spec => []SignedOnEvidence
<1>1. GateInv => SignedOnEvidence
  BY DEF GateInv, TypeOK, Progress, SignedOnEvidence
<1>2. QED
  BY <1>1, GateInvariant, PTL

-----------------------------------------------------------------------------
(* Refinement of PaidAnswer *)

\* A step of one handler that leaves the ledger alone is one of PaidAnswer's, or
\* no step of it, by what it changes in what the asker was told.
LEMMA ToldSteps ==
  ASSUME GateInv, NEW h \in Handler,
         request' \in [Handler -> Record],
         request'[h].payment = request[h].payment,
         \A g \in Handler : g # h => request'[g] = request[g],
         UNCHANGED ledger,
         Told(h) = "waiting",
         \/ Told(h)' = "waiting"
         \/ Told(h)' = "declined" /\ \A x \in Payment : h \notin senders[x]
         \/ Told(h)' = "refused"
         \/ Told(h)' = "answered" /\ request[h].at = "serve"
  PROVE  [Promise!Next]_(Promise!vars)
<1> DEFINE offers == [g \in Handler |-> request[g].payment]
           tells == [g \in Handler |-> Told(g)]
<1>1. offers' = offers /\ senders' = senders /\ tx' = tx
  BY DEF ledger
<1>2. \A g \in Handler : g # h => Told(g)' = Told(g)
  BY DEF Told
<1>3. tells' = [tells EXCEPT ![h] = Told(h)']
  BY <1>2
<1>4. offers[h] = request[h].payment /\ tells[h] = "waiting"
  OBVIOUS
<1>5. request[h].payment \in Payment
  BY DEF GateInv, TypeOK, Progress, Told
<1>6. CASE Told(h)' = "waiting"
  <2>1. tells' = tells
    BY <1>3, <1>4, <1>6
  <2>2. QED
    BY <1>1, <2>1 DEF Promise!vars
<1>7. CASE Told(h)' = "declined" /\ \A x \in Payment : h \notin senders[x]
  <2>1. Promise!Decline(h)
    BY <1>1, <1>3, <1>4, <1>5, <1>7 DEF Promise!Decline
  <2>2. QED
    BY <2>1 DEF Promise!Next
<1>8. CASE Told(h)' = "refused"
  <2>1. Promise!Refuse({h})
    BY <1>1, <1>2, <1>4, <1>8 DEF Promise!Refuse
  <2>2. QED
    BY <2>1 DEF Promise!Next
<1>9. CASE Told(h)' = "answered" /\ request[h].at = "serve"
  <2>1. h \in senders[request[h].payment] /\ tx[request[h].payment] = "landed"
    BY <1>9 DEF GateInv, Progress, Claimed
  <2>2. Promise!Answer(h)
    BY <1>1, <1>3, <1>4, <1>9, <2>1 DEF Promise!Answer
  <2>3. QED
    BY <2>2 DEF Promise!Next
<1>10. QED
  BY <1>6, <1>7, <1>8, <1>9

\* Steps of a handler that leave the ledger alone.
LEMMA QuietSteps ==
  ASSUME GateInv, NEW h \in Handler, Step(h), ~Send(h),
         \A p \in Process, x \in Payment : ~Arrive(h, p, x)
  PROVE  [Promise!Next]_(Promise!vars)
<1> TypeOK
  BY DEF GateInv
<1>1. UNCHANGED ledger
  BY DEF Step, Verify, VerifyFails, Attest, SourceUnavailable, Authorize, Claim,
         AlreadyAttempted, Receipt, Confirm, Sign, SignFails, Serve, Refuse
<1>2. /\ request' \in [Handler -> Record]
      /\ request'[h].payment = request[h].payment
      /\ \A g \in Handler : g # h => request'[g] = request[g]
  <2>1. CASE \E found \in {"match", "no match"} : Attest(h, found)
    <3>1. PICK found \in {"match", "no match"} : Attest(h, found)
      BY <2>1
    <3>2. /\ request \in [Handler -> Record]
          /\ request' = [request EXCEPT ![h].at = "authorize", ![h].evidence = found]
      BY <3>1 DEF Attest, TypeOK, Record
    <3>3. QED
      BY <3>2 DEF Record, Point, Evidence
  <2>2. CASE \E point \in Point : Goto(h, point)
    BY <2>2, GotoFacts
  <2>3. QED
    BY <2>1, <2>2 DEF Step, Verify, VerifyFails, SourceUnavailable, Authorize, Claim,
         AlreadyAttempted, Receipt, Confirm, Sign, SignFails, Serve, Refuse, Point
<1>3. \/ /\ request[h].at \in {"verify", "attest", "authorize", "journal", "receipt",
                               "confirm", "sign"}
         /\ request'[h].at \in {"attest", "authorize", "journal", "send", "confirm",
                                "sign", "serve"}
      \/ /\ request[h].at \in {"verify", "attest"} /\ request'[h].at = "declined"
      \/ /\ request[h].at \in {"verify", "authorize", "journal", "send", "receipt", "confirm"}
         /\ request'[h].at = "refused"
      \/ /\ request[h].at = "serve" /\ request'[h].at = "answered"
  <2>1. CASE \E found \in {"match", "no match"} : Attest(h, found)
    BY <2>1 DEF Attest, TypeOK
  <2>2. CASE ~\E found \in {"match", "no match"} : Attest(h, found)
    <3>1. \A point \in Point : Goto(h, point) => request'[h].at = point
      BY GotoFacts
    <3>2. QED
      BY <2>2, <3>1 DEF Step, Verify, VerifyFails, SourceUnavailable, Authorize, Claim,
         AlreadyAttempted, Receipt, Confirm, Sign, SignFails, Serve, Refuse, Point
  <2>3. QED
    BY <2>1, <2>2
<1>4. Told(h) = "waiting"
  BY <1>3 DEF Told
<1>5. request[h].at \in {"verify", "attest"} => \A x \in Payment : h \notin senders[x]
  BY DEF GateInv, Sent
<1>6. \/ Told(h)' = "waiting"
      \/ Told(h)' = "declined" /\ \A x \in Payment : h \notin senders[x]
      \/ Told(h)' = "refused"
      \/ Told(h)' = "answered" /\ request[h].at = "serve"
  BY <1>3, <1>5 DEF Told
<1>7. QED
  BY <1>1, <1>2, <1>4, <1>6, ToldSteps

\* The gate implements PaidAnswer: arriving is Present, sending is Submit.
THEOREM GateKeepsPaidAnswer == Spec => KeepsPaidAnswer
<1> DEFINE offers == [g \in Handler |-> request[g].payment]
           tells == [g \in Handler |-> Told(g)]
<1>1. Init => Promise!Init
  BY DEF Init, Promise!Init, Told
<1>2. ASSUME GateInv, [Next]_vars
      PROVE  [Promise!Next]_(Promise!vars)
  <2> TypeOK
    BY <1>2 DEF GateInv
  <2>1. ASSUME NEW h \in Handler, NEW p \in Process, NEW x \in Payment, Arrive(h, p, x)
        PROVE  Promise!Present(h, x)
    <3>1. /\ request \in [Handler -> Record] /\ request[h].at = "new"
          /\ request' = [request EXCEPT ![h].at = "verify", ![h].process = p, ![h].payment = x]
          /\ senders' = senders /\ tx' = tx
      BY <2>1 DEF TypeOK, Record, Arrive, ledger
    <3>2. /\ request'[h].at = "verify" /\ request'[h].payment = x
          /\ \A g \in Handler : g # h => request'[g] = request[g]
      BY <3>1 DEF Record
    <3>3. \A g \in Handler : /\ Told(g)' = IF g = h THEN "waiting" ELSE Told(g)
                             /\ request'[g].payment = IF g = h THEN x ELSE request[g].payment
      BY <3>2 DEF Told
    <3>4. tells' = [tells EXCEPT ![h] = "waiting"] /\ offers' = [offers EXCEPT ![h] = x]
      BY <3>3
    <3>5. tells[h] = "unasked"
      BY <3>1 DEF Told
    <3>6. QED
      BY <3>1, <3>4, <3>5 DEF Promise!Present
  <2>2. ASSUME NEW h \in Handler, Send(h)
        PROVE  Promise!Submit(h)
    <3> DEFINE x == request[h].payment
    <3>1. /\ request[h].at = "send" /\ Goto(h, "receipt") /\ "receipt" \in Point
          /\ senders' = [senders EXCEPT ![x] = @ \cup {h}]
          /\ tx' = [tx EXCEPT ![x] = IF @ = "none" THEN "sent" ELSE @]
      BY <2>2 DEF Send, Point
    <3>2. x \in Payment /\ senders[x] = {} /\ tx[x] = "none"
      BY <1>2, <3>1 DEF GateInv, TypeOK, Progress
    <3>3. senders' = [senders EXCEPT ![x] = {h}] /\ tx' = [tx EXCEPT ![x] = "sent"]
      BY <3>1, <3>2
    <3>4. \A g \in Handler : Told(g)' = Told(g) /\ request'[g].payment = request[g].payment
      BY <3>1, GotoFacts DEF Told
    <3>5. tells' = tells /\ offers' = offers
      BY <3>4
    <3>6. tells[h] = "waiting" /\ offers[h] = x
      BY <3>1 DEF Told
    <3>7. QED
      BY <3>2, <3>3, <3>5, <3>6 DEF Promise!Submit
  <2>3. ASSUME NEW p \in Process, Crash(p)
        PROVE  Promise!Next
    <3> DEFINE lost == {h \in Handler : request[h].process = p /\ request[h].at \notin End}
    <3>1. /\ request \in [Handler -> Record] /\ senders' = senders /\ tx' = tx
          /\ request' = [h \in Handler |-> IF h \in lost THEN [request[h] EXCEPT !.at = "dead"]
                                           ELSE request[h]]
      BY <2>3 DEF TypeOK, Record, Crash, ledger
    <3>2. \A h \in lost : request[h].at # "new"
      BY <1>2 DEF GateInv, Progress
    <3>3. \A h \in lost : Told(h) = "waiting"
      BY <3>2 DEF Told, End
    <3>4. \A h \in Handler : /\ request'[h].payment = request[h].payment
                             /\ Told(h)' = IF h \in lost THEN "refused" ELSE Told(h)
      BY <3>1 DEF Told, Record
    <3>5. tells' = [h \in Handler |-> IF h \in lost THEN "refused" ELSE tells[h]]
      BY <3>4
    <3>6. offers' = offers
      BY <3>4
    <3>7. \A h \in lost : tells[h] = "waiting"
      BY <3>3
    <3>8. Promise!Refuse(lost)
      BY <3>1, <3>5, <3>6, <3>7 DEF Promise!Refuse
    <3>9. lost \in SUBSET Handler
      OBVIOUS
    <3>10. QED
      BY <3>8, <3>9 DEF Promise!Next
  <2>4. ASSUME NEW x \in Payment, Land(x) \/ Void(x)
        PROVE  Promise!Next
    <3>1. request' = request /\ senders' = senders
      BY <2>4 DEF Land, Void
    <3>2. tells' = tells /\ offers' = offers
      BY <3>1 DEF Told
    <3>3. Promise!Land(x) \/ Promise!Void(x)
      BY <2>4, <3>1, <3>2 DEF Land, Void, Promise!Land, Promise!Void
    <3>4. QED
      BY <3>3 DEF Promise!Next
  <2>5. CASE UNCHANGED vars
    <3>1. tells' = tells /\ offers' = offers
      BY <2>5 DEF Told, vars
    <3>2. QED
      BY <2>5, <3>1 DEF vars, Promise!vars
  <2>6. ASSUME NEW h \in Handler, Step(h)
        PROVE  [Promise!Next]_(Promise!vars)
    <3>1. CASE \E p \in Process, x \in Payment : Arrive(h, p, x)
      BY <2>1, <3>1 DEF Promise!Next
    <3>2. CASE Send(h)
      BY <2>2, <3>2 DEF Promise!Next
    <3>3. QED
      BY <1>2, <2>6, <3>1, <3>2, QuietSteps
  <2>7. QED
    BY <1>2, <2>3, <2>4, <2>5, <2>6 DEF Next
<1>3. QED
  BY <1>1, <1>2, GateInvariant, PTL DEF Spec, KeepsPaidAnswer, Promise!Spec

\* A payment buys one answer or signature, and a signature only on evidence.
THEOREM GateEarnsAnswers == Spec => []AnswersAreEarned
<1>1. QED
  BY GateAnswersOnce, GateSignsOnEvidence, PTL DEF AnswersAreEarned
=============================================================================
