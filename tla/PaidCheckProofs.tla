-------------------------- MODULE PaidCheckProofs --------------------------
(***************************************************************************)
(* Theorems about policy checks, for any requests, accounts, policies and  *)
(* numbers of oracle services: CheckInv is an invariant.                   *)
(***************************************************************************)
EXTENDS PaidCheck, TLAPS

USE CheckAssumption

\* Requests to services are pairs.
LEMMA Pairs ==
  /\ \A r \in Request, s \in Source :
       <<r, s>> \in Ask /\ <<r, s>>[1] = r /\ <<r, s>>[2] = s
  /\ \A x \in Ask : x[1] \in Request /\ x[2] \in Source /\ x = <<x[1], x[2]>>
  BY DEF Ask

\* Nothing is at work, nothing was asked.
LEMMA InitCheckInv == Init => CheckInv
<1> SUFFICES ASSUME Init PROVE CheckInv
  OBVIOUS
<1>1. /\ offer = [x \in Ask |-> NoPayment] /\ told = [x \in Ask |-> "unasked"]
      /\ senders = [x \in Ask |-> {}] /\ tx = [x \in Ask |-> "none"]
      /\ clock = 0 /\ call = Idle
      /\ check = [r \in Request |-> [status |-> "none", owner |-> Nobody, policy |-> NoPolicy,
                                     at |-> 0, rows |-> [s \in Source |-> "none"]]]
  BY DEF Init, Service!Init
<1>2. TypeOK
  <2>1. check \in [Request -> Check] /\ clock \in Nat
    BY <1>1 DEF Check, Row
  <2>2. call \in [at : Point, request : Request \cup {NoRequest},
                  policy : Policy \cup {NoPolicy}, source : Source, row : Row]
    BY <1>1 DEF Idle, Point, Row, Source
  <2>3. Service!TypeOK
    BY <1>1 DEF Service!TypeOK, Service!TxState, Service!Reply
  <2>4. QED
    BY <2>1, <2>2, <2>3 DEF TypeOK
<1>3. Told
  BY <1>1 DEF Told
<1>4. Rows
  BY <1>1, Pairs DEF Rows
<1>5. Progress
  BY <1>1 DEF Progress, Idle
<1>6. Order
  BY <1>1 DEF Order, Idle
<1>7. QED
  BY <1>2, <1>3, <1>4, <1>5, <1>6 DEF CheckInv

-----------------------------------------------------------------------------
(* The services *)

\* A service tells something once, and nothing but an answer it was asked for.
LEMMA ServeFacts ==
  ASSUME TypeOK, Told, NEW x \in Ask, Serve(x) \/ Settle(x)
  PROVE  /\ Service!TypeOK' /\ Told'
         /\ \A y \in Ask : /\ told'[y] = "unasked" <=> told[y] = "unasked"
                           /\ told[y] \in {"answered", "declined"} => told'[y] = told[y]
<1>1. /\ offer \in [Ask -> Ask \cup {NoPayment}] /\ told \in [Ask -> Service!Reply]
      /\ senders \in [Ask -> SUBSET Ask] /\ tx \in [Ask -> Service!TxState]
  BY DEF TypeOK, Service!TypeOK
<1>2. CASE Service!Submit(x)
  <2>1. /\ told[x] = "waiting" /\ offer[x] = x /\ senders[x] = {}
        /\ offer' = offer /\ told' = told
    BY <1>2 DEF Service!Submit, Told
  <2>2. senders' = [senders EXCEPT ![x] = {x}] /\ tx' = [tx EXCEPT ![x] = "sent"]
    BY <1>2, <2>1 DEF Service!Submit
  <2>3. QED
    BY <1>1, <2>1, <2>2 DEF Told, Service!TypeOK, Service!TxState
<1>3. CASE Service!Decline(x)
  <2>1. /\ told[x] = "waiting" /\ offer[x] = x /\ x \notin senders[x]
        /\ told' = [told EXCEPT ![x] = "declined"]
        /\ offer' = offer /\ senders' = senders /\ tx' = tx
    BY <1>3 DEF Service!Decline, Told
  <2>2. senders[x] = {}
    BY <2>1 DEF Told
  <2>3. QED
    BY <1>1, <2>1, <2>2 DEF Told, Service!TypeOK, Service!Reply
<1>4. CASE Service!Refuse({x})
  <2>1. /\ told[x] = "waiting"
        /\ told' = [h \in Ask |-> IF h \in {x} THEN "refused" ELSE told[h]]
        /\ offer' = offer /\ senders' = senders /\ tx' = tx
    BY <1>4 DEF Service!Refuse
  <2>2. QED
    BY <1>1, <2>1 DEF Told, Service!TypeOK, Service!Reply
<1>5. CASE Service!Answer(x)
  <2>1. /\ told[x] = "waiting" /\ offer[x] = x /\ tx[x] = "landed"
        /\ told' = [told EXCEPT ![x] = "answered"]
        /\ offer' = offer /\ senders' = senders /\ tx' = tx
    BY <1>5 DEF Service!Answer, Told
  <2>2. QED
    BY <1>1, <2>1 DEF Told, Service!TypeOK, Service!Reply
<1>6. CASE Service!Land(x) \/ Service!Void(x)
  <2>1. /\ tx[x] = "sent" /\ offer' = offer /\ told' = told /\ senders' = senders
        /\ \E state \in {"landed", "void"} : tx' = [tx EXCEPT ![x] = state]
    BY <1>6 DEF Service!Land, Service!Void
  <2>2. QED
    BY <1>1, <2>1 DEF Told, Service!TypeOK, Service!TxState
<1>7. QED
  BY <1>2, <1>3, <1>4, <1>5, <1>6 DEF Serve, Settle

\* What a service does leaves the journal true.
LEMMA ServeKeepsCheckInv ==
  ASSUME CheckInv, NEW x \in Ask, Serve(x) \/ Settle(x)
  PROVE  CheckInv'
<1>1. check' = check /\ clock' = clock /\ call' = call
  BY DEF Serve, Settle
<1>2. /\ Service!TypeOK' /\ Told'
      /\ \A y \in Ask : /\ told'[y] = "unasked" <=> told[y] = "unasked"
                        /\ told[y] \in {"answered", "declined"} => told'[y] = told[y]
  BY ServeFacts DEF CheckInv
<1>3. TypeOK'
  BY <1>1, <1>2 DEF CheckInv, TypeOK
<1>4. Rows'
  <2>1. SUFFICES ASSUME NEW r \in Request, NEW s \in Source PROVE Rows!(r, s)'
    BY DEF Rows
  <2>2. <<r, s>> \in Ask
    BY Pairs
  <2>3. QED
    BY <1>1, <1>2, <2>2 DEF CheckInv, Rows
<1>5. call.at # "idle" => asked \in Ask
  BY Pairs DEF CheckInv, Progress, TypeOK, asked
<1>6. asked' = asked
  BY <1>1 DEF asked
<1>7. Progress'
  BY <1>1, <1>2, <1>5, <1>6 DEF CheckInv, Progress
<1>8. Order'
  BY <1>1 DEF CheckInv, Order, Settled, NeedsReview, Latest
<1>9. QED
  BY <1>2, <1>3, <1>4, <1>7, <1>8 DEF CheckInv

-----------------------------------------------------------------------------
(* The order of checks *)

\* The order of checks holds as long as their policies and times stay, and
\* settled checks stay so.
LEMMA OrderKept ==
  ASSUME Order, clock' = clock,
         \A r \in Request : /\ check'[r].policy = check[r].policy
                            /\ check'[r].at = check[r].at
                            /\ check'[r].status = "none" <=> check[r].status = "none"
                            /\ Settled(r) => Settled(r)',
         call'.at = "describe" => call.at = "describe" /\ call'.policy = call.policy
  PROVE  Order'
<1>1. \A p : Latest(p)' = Latest(p)
  BY DEF Latest
<1>2. QED
  BY <1>1 DEF Order

\* Steps of the call that leave the journal and the services alone.
LEMMA QuietKeepsCheckInv ==
  ASSUME CheckInv, UNCHANGED <<check, clock, services>>,
         call' \in [at : Point, request : Request \cup {NoRequest},
                    policy : Policy \cup {NoPolicy}, source : Source, row : Row],
         call'.at # "describe", Progress'
  PROVE  CheckInv'
<1>1. check' = check /\ clock' = clock /\ offer' = offer /\ told' = told
      /\ senders' = senders /\ tx' = tx
  BY DEF services
<1>2. TypeOK'
  BY <1>1 DEF CheckInv, TypeOK, Service!TypeOK
<1>3. Told' /\ Rows'
  BY <1>1 DEF CheckInv, Told, Rows
<1>4. Order'
  BY <1>1, OrderKept DEF CheckInv, Settled, NeedsReview
<1>5. QED
  BY <1>2, <1>3, <1>4 DEF CheckInv

\* The steps that wait: terms, answers, and the loss of either
\* (src/x402/client.js:64-81, src/demo/policyChecks.js:28-45).
LEMMA WaitKeepsCheckInv ==
  ASSUME CheckInv,
         AskTerms \/ AskFails \/ CheckpointFails \/ HearDeclined \/ HearAnswer \/ Lose \/ Abandon
  PROVE  CheckInv'
<1>1. call \in [at : Point, request : Request \cup {NoRequest},
                policy : Policy \cup {NoPolicy}, source : Source, row : Row]
  BY DEF CheckInv, TypeOK
<1>2. CASE Abandon
  <2>1. call' = Idle /\ UNCHANGED <<check, clock, services>>
    BY <1>2 DEF Abandon
  <2>2. Progress'
    BY <2>1 DEF Progress, Idle
  <2>3. QED
    BY <2>1, <2>2, QuietKeepsCheckInv DEF Idle, Point, Row, Source
<1>3. CASE AskTerms
  <2>1. /\ call.at = "ask" /\ call' = [call EXCEPT !.at = "checkpoint"]
        /\ UNCHANGED <<check, clock, services>>
    BY <1>3 DEF AskTerms
  <2>2. /\ call' \in [at : Point, request : Request \cup {NoRequest},
                      policy : Policy \cup {NoPolicy}, source : Source, row : Row]
        /\ call'.at = "checkpoint" /\ call'.request = call.request
        /\ call'.policy = call.policy /\ call'.source = call.source
    BY <1>1, <2>1 DEF Point
  <2>3. Progress'
    BY <2>1, <2>2 DEF CheckInv, Progress
  <2>4. QED
    BY <2>1, <2>2, <2>3, QuietKeepsCheckInv
<1>4. ASSUME NEW row \in Outcome, Outcomes(row),
             call.at \in {"ask", "checkpoint", "wait"},
             row = "paid" => told[asked] = "answered",
             row = "unavailable" => told[asked] \in {"unasked", "declined"}
      PROVE  CheckInv'
  <2>1. /\ call' = [call EXCEPT !.at = "save", !.row = row]
        /\ UNCHANGED <<check, clock, services>>
    BY <1>4 DEF Outcomes
  <2>2. /\ call' \in [at : Point, request : Request \cup {NoRequest},
                      policy : Policy \cup {NoPolicy}, source : Source, row : Row]
        /\ call'.at = "save" /\ call'.request = call.request /\ call'.row = row
        /\ call'.policy = call.policy /\ call'.source = call.source
    BY <1>1, <2>1 DEF Point, Row, Outcome
  <2>3. asked' = asked /\ told' = told /\ check' = check /\ clock' = clock
    BY <2>1, <2>2 DEF asked, services
  <2>4. Progress'
    BY <1>4, <2>2, <2>3 DEF CheckInv, Progress
  <2>5. QED
    BY <2>1, <2>2, <2>4, QuietKeepsCheckInv
<1>5. CASE AskFails
  <2>1. call.at = "ask" /\ Outcomes("unavailable")
    BY <1>5 DEF AskFails
  <2>2. told[asked] = "unasked"
    <3>1. /\ call.request \in Request /\ call.source \in Source
          /\ check[call.request].rows[call.source] = "checking"
      BY <1>1, <2>1 DEF CheckInv, Progress
    <3>2. asked \in Ask
      BY <3>1, Pairs DEF asked
    <3>3. QED
      BY <3>1, <3>2 DEF CheckInv, Rows, asked, Outcome
  <2>3. QED
    BY <1>4, <2>1, <2>2 DEF Outcome
<1>6. CASE CheckpointFails
  BY <1>4, <1>6 DEF CheckpointFails, Outcome
<1>7. CASE HearDeclined
  BY <1>4, <1>7 DEF HearDeclined, Outcome
<1>8. CASE HearAnswer
  BY <1>4, <1>8 DEF HearAnswer, Outcome
<1>9. CASE Lose
  BY <1>4, <1>9 DEF Lose, Outcome
<1>10. QED
  BY <1>2, <1>3, <1>5, <1>6, <1>7, <1>8, <1>9

-----------------------------------------------------------------------------
(* Rows *)

\* Saving a row changes nothing else in the journal.
LEMMA SaveRowFacts ==
  ASSUME CheckInv, call.at # "idle", NEW row \in Row, SaveRow(row)
  PROVE  /\ check' \in [Request -> Check]
         /\ check'[call.request].rows[call.source] = row
         /\ \A r \in Request, s \in Source :
              r # call.request \/ s # call.source => check'[r].rows[s] = check[r].rows[s]
         /\ \A r \in Request : /\ check'[r].status = check[r].status
                               /\ check'[r].policy = check[r].policy
                               /\ check'[r].at = check[r].at
<1>1. /\ check \in [Request -> Check] /\ call.request \in Request /\ call.source \in Source
      /\ check' = [check EXCEPT ![call.request].rows[call.source] = row]
  BY DEF CheckInv, TypeOK, Progress, SaveRow
<1>2. /\ check[call.request] \in Check
      /\ check'[call.request] = [check[call.request] EXCEPT !.rows[call.source] = row]
      /\ \A r \in Request : r # call.request => check'[r] = check[r]
  BY <1>1
<1>3. check[call.request].rows \in [Source -> Row]
  BY <1>2 DEF Check
<1>4. /\ check'[call.request].rows = [check[call.request].rows EXCEPT ![call.source] = row]
      /\ check'[call.request].status = check[call.request].status
      /\ check'[call.request].policy = check[call.request].policy
      /\ check'[call.request].at = check[call.request].at
      /\ check'[call.request] \in Check
  <2>1. [check[call.request].rows EXCEPT ![call.source] = row] \in [Source -> Row]
    BY <1>1, <1>3
  <2>2. QED
    BY <1>2, <2>1 DEF Check
<1>5. check' \in [Request -> Check]
  BY <1>1, <1>4
<1>6. check'[call.request].rows[call.source] = row
  BY <1>1, <1>3, <1>4
<1>7. \A r \in Request, s \in Source :
        r # call.request \/ s # call.source => check'[r].rows[s] = check[r].rows[s]
  BY <1>1, <1>2, <1>3, <1>4
<1>8. QED
  BY <1>2, <1>4, <1>5, <1>6, <1>7

\* A row that says no more than what was told keeps the journal true.
LEMMA RowKeepsCheckInv ==
  ASSUME CheckInv, call.at \notin {"idle", "describe"}, NEW row \in Row, SaveRow(row),
         told[asked] # "unasked" => row \in Outcome \cup {"submitted"},
         row = "paid" => told[asked] = "answered",
         row = "unavailable" => told[asked] \in {"unasked", "declined"},
         UNCHANGED <<clock, services>>,
         call' \in [at : Point, request : Request \cup {NoRequest},
                    policy : Policy \cup {NoPolicy}, source : Source, row : Row],
         call'.at # "describe", Progress'
  PROVE  CheckInv'
<1>1. clock' = clock /\ offer' = offer /\ told' = told /\ senders' = senders /\ tx' = tx
  BY DEF services
<1>2. /\ check' \in [Request -> Check]
      /\ check'[call.request].rows[call.source] = row
      /\ \A r \in Request, s \in Source :
           r # call.request \/ s # call.source => check'[r].rows[s] = check[r].rows[s]
      /\ \A r \in Request : /\ check'[r].status = check[r].status
                            /\ check'[r].policy = check[r].policy
                            /\ check'[r].at = check[r].at
  BY SaveRowFacts
<1>3. /\ call.request \in Request /\ call.source \in Source
      /\ check[call.request].status = "pending"
      /\ check[call.request].policy # NoPolicy
  BY DEF CheckInv, Progress, TypeOK
<1>4. TypeOK'
  BY <1>1, <1>2 DEF CheckInv, TypeOK, Service!TypeOK
<1>5. Told'
  BY <1>1 DEF CheckInv, Told
<1>6. Rows'
  <2>1. SUFFICES ASSUME NEW r \in Request, NEW s \in Source PROVE Rows!(r, s)'
    BY DEF Rows
  <2>2. CASE r = call.request /\ s = call.source
    BY <1>1, <1>2, <1>3, <2>2 DEF asked
  <2>3. CASE r # call.request \/ s # call.source
    BY <1>1, <1>2, <2>3 DEF CheckInv, Rows
  <2>4. QED
    BY <2>2, <2>3
<1>7. Order'
  <2>1. ASSUME NEW r \in Request, Settled(r) PROVE Settled(r)'
    <3>1. r # call.request
      BY <1>3, <2>1 DEF Settled
    <3>2. QED
      BY <1>2, <2>1, <3>1 DEF Settled, NeedsReview
  <2>2. QED
    BY <1>1, <1>2, <2>1, OrderKept DEF CheckInv
<1>8. QED
  BY <1>4, <1>5, <1>6, <1>7 DEF CheckInv

\* A row is opened, its payment named, its outcome saved
\* (src/demo/policyChecks.js:27, 29, 46).
LEMMA RowStepsKeepCheckInv ==
  ASSUME CheckInv, OpenRow \/ Checkpoint \/ Save
  PROVE  CheckInv'
<1> DEFINE r == call.request
           source == call.source
<1>1. /\ call \in [at : Point, request : Request \cup {NoRequest},
                   policy : Policy \cup {NoPolicy}, source : Source, row : Row]
      /\ call.at \in {"row", "checkpoint", "save"}
      /\ UNCHANGED <<clock, services>>
  BY DEF CheckInv, TypeOK, OpenRow, Checkpoint, Save
<1>2. /\ r \in Request /\ source \in Source /\ asked \in Ask
      /\ source \in Nat /\ N \in Nat /\ 1 <= source /\ source <= N
  BY <1>1, Pairs DEF CheckInv, Progress, asked, Source
<1>3. clock' = clock /\ told' = told
  BY <1>1 DEF services
<1>4. ASSUME NEW row \in Row, SaveRow(row)
      PROVE  /\ check'[r].rows[source] = row
             /\ \A s \in Source : s # source => check'[r].rows[s] = check[r].rows[s]
             /\ check'[r].status = check[r].status
             /\ check'[r].policy = check[r].policy
             /\ check'[r].at = check[r].at
  BY <1>1, <1>2, <1>4, SaveRowFacts
<1>5. told[asked] # "unasked" => check[r].rows[source] \in Outcome \cup {"submitted"}
  BY <1>2 DEF CheckInv, Rows, asked
<1>6. CASE OpenRow
  <2>1. /\ call.at = "row" /\ SaveRow("checking") /\ "checking" \in Row
        /\ call' = [call EXCEPT !.at = "ask"]
    BY <1>6 DEF OpenRow, Row
  <2>2. /\ call' \in [at : Point, request : Request \cup {NoRequest},
                      policy : Policy \cup {NoPolicy}, source : Source, row : Row]
        /\ call'.at = "ask" /\ call'.request = r
        /\ call'.policy = call.policy /\ call'.source = source
    BY <1>1, <2>1 DEF Point
  <2>3. told[asked] = "unasked"
    BY <1>5, <2>1 DEF CheckInv, Progress, Outcome
  <2>4. Progress'
    <3>1. /\ check[r].status = "pending" /\ check[r].at = clock /\ call.policy \in Policy
          /\ check[r].policy = call.policy
          /\ \A s \in Source : s < source => check[r].rows[s] \in Outcome
          /\ \A s \in Source : s > source => check[r].rows[s] = "none"
      BY <2>1 DEF CheckInv, Progress
    <3>2. \A s \in Source : s < source \/ s > source => s # source
      BY <1>2 DEF Source
    <3>3. /\ check'[r].rows[source] = "checking"
          /\ \A s \in Source : s # source => check'[r].rows[s] = check[r].rows[s]
          /\ check'[r].status = "pending" /\ check'[r].at = clock
          /\ check'[r].policy = call.policy
      BY <1>4, <2>1, <3>1
    <3>4. /\ \A s \in Source : s < source => check'[r].rows[s] \in Outcome
          /\ \A s \in Source : s > source => check'[r].rows[s] = "none"
      BY <3>1, <3>2, <3>3
    <3>5. QED
      BY <1>2, <1>3, <2>2, <3>1, <3>3, <3>4 DEF Progress
  <2>5. QED
    BY <1>1, <2>1, <2>2, <2>3, <2>4, RowKeepsCheckInv
<1>7. CASE Checkpoint
  <2>1. /\ call.at = "checkpoint" /\ SaveRow("submitted") /\ "submitted" \in Row
        /\ call' = [call EXCEPT !.at = "pay", !.row = "submitted"]
    BY <1>7 DEF Checkpoint, Row
  <2>2. /\ call' \in [at : Point, request : Request \cup {NoRequest},
                      policy : Policy \cup {NoPolicy}, source : Source, row : Row]
        /\ call'.at = "pay" /\ call'.request = r
        /\ call'.policy = call.policy /\ call'.source = source
    BY <1>1, <2>1 DEF Point
  <2>3. told[asked] = "unasked" /\ told'[asked'] = "unasked"
    BY <1>3, <1>5, <2>1, <2>2 DEF CheckInv, Progress, Outcome, asked
  <2>4. Progress'
    BY <1>3, <1>4, <2>1, <2>2, <2>3 DEF CheckInv, Progress
  <2>5. QED
    BY <1>1, <2>1, <2>2, <2>3, <2>4, RowKeepsCheckInv
<1>8. CASE Save
  <2>1. /\ call.at = "save" /\ SaveRow(call.row) /\ call.row \in Row
        /\ call' = IF source < N
                   THEN [call EXCEPT !.at = "row", !.source = @ + 1, !.row = "none"]
                   ELSE [call EXCEPT !.at = "finish"]
    BY <1>1, <1>8 DEF Save
  <2>2. /\ call.row \in Outcome
        /\ call.row = "paid" => told[asked] = "answered"
        /\ call.row = "unavailable" => told[asked] \in {"unasked", "declined"}
    BY <2>1 DEF CheckInv, Progress
  <2>3. /\ check'[r].rows[source] \in Outcome
        /\ \A s \in Source : s < source => check'[r].rows[s] \in Outcome
        /\ \A s \in Source : s > source => check'[r].rows[s] = "none"
    <3>1. /\ \A s \in Source : s < source => check[r].rows[s] \in Outcome
          /\ \A s \in Source : s > source => check[r].rows[s] = "none"
      BY <1>1 DEF CheckInv, Progress
    <3>2. \A s \in Source : s < source \/ s > source => s # source
      BY <1>2 DEF Source
    <3>3. QED
      BY <1>4, <2>1, <2>2, <3>1, <3>2
  <2>4. CASE source < N
    <3>1. /\ call' = [call EXCEPT !.at = "row", !.source = source + 1, !.row = "none"]
          /\ source + 1 \in Source
      BY <1>2, <2>1, <2>4 DEF Source
    <3>2. /\ call' \in [at : Point, request : Request \cup {NoRequest},
                        policy : Policy \cup {NoPolicy}, source : Source, row : Row]
          /\ call'.at = "row" /\ call'.request = r
          /\ call'.policy = call.policy /\ call'.source = source + 1
      BY <1>1, <3>1 DEF Point, Row
    <3>3. \A s \in Source : /\ s < source + 1 => s < source \/ s = source
                            /\ s > source + 1 => s > source
      BY <1>2 DEF Source
    <3>4. /\ \A s \in Source : s < source + 1 => check'[r].rows[s] \in Outcome
          /\ \A s \in Source : s > source + 1 => check'[r].rows[s] = "none"
      BY <2>3, <3>3
    <3>5. check'[r].rows[source + 1] = "none"
      BY <1>2, <2>3, <3>1
    <3>6. /\ check'[r].status = "pending" /\ check'[r].at = clock /\ call.policy \in Policy
          /\ check'[r].policy = call.policy
      BY <1>4, <2>1 DEF CheckInv, Progress
    <3>7. Progress'
      BY <1>2, <1>3, <3>2, <3>4, <3>5, <3>6 DEF Progress
    <3>8. QED
      BY <1>1, <2>1, <2>2, <3>2, <3>7, RowKeepsCheckInv
  <2>5. CASE ~(source < N)
    <3>1. call' = [call EXCEPT !.at = "finish"] /\ source = N
      BY <1>2, <2>1, <2>5
    <3>2. /\ call' \in [at : Point, request : Request \cup {NoRequest},
                        policy : Policy \cup {NoPolicy}, source : Source, row : Row]
          /\ call'.at = "finish" /\ call'.request = r
          /\ call'.policy = call.policy /\ call'.source = source
      BY <1>1, <3>1 DEF Point
    <3>3. /\ check'[r].status = "pending" /\ check'[r].at = clock /\ call.policy \in Policy
          /\ check'[r].policy = call.policy
      BY <1>4, <2>1 DEF CheckInv, Progress
    <3>4. Progress'
      BY <1>2, <1>3, <2>3, <3>1, <3>2, <3>3 DEF Progress
    <3>5. QED
      BY <1>1, <2>1, <2>2, <3>2, <3>4, RowKeepsCheckInv
  <2>6. QED
    BY <2>4, <2>5
<1>9. QED
  BY <1>6, <1>7, <1>8

-----------------------------------------------------------------------------
(* The payment *)

\* A payment is offered once, after the journal has it
\* (src/x402/client.js:72-77, src/demo/policyChecks.js:29).
LEMMA PayKeepsCheckInv ==
  ASSUME CheckInv, Pay
  PROVE  CheckInv'
<1>1. /\ offer \in [Ask -> Ask \cup {NoPayment}] /\ told \in [Ask -> Service!Reply]
      /\ call \in [at : Point, request : Request \cup {NoRequest},
                   policy : Policy \cup {NoPolicy}, source : Source, row : Row]
  BY DEF CheckInv, TypeOK, Service!TypeOK
<1>2. /\ call.at = "pay" /\ told[asked] = "unasked"
      /\ offer' = [offer EXCEPT ![asked] = asked]
      /\ told' = [told EXCEPT ![asked] = "waiting"]
      /\ senders' = senders /\ tx' = tx /\ check' = check /\ clock' = clock
      /\ call' = [call EXCEPT !.at = "wait"]
  BY DEF Pay, Service!Present
<1>3. /\ call.request \in Request /\ call.source \in Source
      /\ check[call.request].rows[call.source] = "submitted"
  BY <1>1, <1>2 DEF CheckInv, Progress
<1>4. asked \in Ask /\ asked = <<call.request, call.source>>
  BY <1>3, Pairs DEF asked
<1>5. /\ call' \in [at : Point, request : Request \cup {NoRequest},
                    policy : Policy \cup {NoPolicy}, source : Source, row : Row]
      /\ call'.at = "wait" /\ call'.request = call.request
      /\ call'.policy = call.policy /\ call'.source = call.source
  BY <1>1, <1>2 DEF Point
<1>6. /\ told'[asked] = "waiting" /\ offer'[asked] = asked
      /\ \A x \in Ask : x # asked => told'[x] = told[x] /\ offer'[x] = offer[x]
  BY <1>1, <1>2, <1>4
<1>7. TypeOK'
  <2>1. Service!TypeOK'
    BY <1>1, <1>2, <1>4 DEF CheckInv, TypeOK, Service!TypeOK, Service!Reply
  <2>2. QED
    BY <1>2, <1>5, <2>1 DEF CheckInv, TypeOK
<1>8. Told'
  BY <1>2, <1>6 DEF CheckInv, Told
<1>9. Rows'
  <2>1. SUFFICES ASSUME NEW r \in Request, NEW s \in Source PROVE Rows!(r, s)'
    BY DEF Rows
  <2>2. CASE <<r, s>> = asked
    <3>1. r = call.request /\ s = call.source
      BY <1>4, <2>2
    <3>2. QED
      BY <1>2, <1>3, <1>6, <2>2, <3>1 DEF CheckInv, Rows
  <2>3. CASE <<r, s>> # asked
    <3>1. told'[<<r, s>>] = told[<<r, s>>]
      BY <1>6, <2>3, Pairs
    <3>2. QED
      BY <1>2, <3>1 DEF CheckInv, Rows
  <2>4. QED
    BY <2>2, <2>3
<1>10. Progress'
  BY <1>2, <1>5 DEF CheckInv, Progress
<1>11. Order'
  BY <1>2, <1>5, OrderKept DEF CheckInv, Settled, NeedsReview
<1>12. QED
  BY <1>7, <1>8, <1>9, <1>10, <1>11 DEF CheckInv

-----------------------------------------------------------------------------
(* The check *)

\* Rows that stay say no more than before.
LEMMA RowsKept ==
  ASSUME Rows, told' = told,
         \A r \in Request :
           /\ check'[r].rows = check[r].rows
           /\ check'[r].status = "complete" =>
                check[r].status = "complete" \/ \A s \in Source : check[r].rows[s] \in Outcome
           /\ check'[r].policy = NoPolicy => check[r].policy = NoPolicy
  PROVE  Rows'
<1>1. SUFFICES ASSUME NEW r \in Request, NEW s \in Source PROVE Rows!(r, s)'
  BY DEF Rows
<1>2. check'[r].rows[s] = check[r].rows[s]
  OBVIOUS
<1>3. QED
  BY <1>2 DEF Rows

\* A check whose policy is not recorded has no rows.
LEMMA NoRows ==
  ASSUME CheckInv, NEW r \in Request, check[r].policy = NoPolicy
  PROVE  \A s \in Source : check[r].rows[s] = "none"
<1>1. Rows
  BY DEF CheckInv
<1>2. QED
  BY <1>1 DEF Rows

\* The last check of a policy is settled only if all of them are.
LEMMA LastSettled ==
  ASSUME TypeOK, Order, NEW p, p # NoPolicy, \A q \in Latest(p) : Settled(q),
         NEW q \in Request, check[q].policy = p
  PROVE  Settled(q)
<1>1. PICK last \in Latest(p) : TRUE
  BY DEF Order
<1>2. /\ last \in Request /\ check[last].policy = p /\ check[q].at <= check[last].at
  BY DEF Latest
<1>3. check[q].at \in Nat /\ check[last].at \in Nat
  BY <1>2 DEF TypeOK, Check
<1>4. check[q].status # "none" /\ check[last].status # "none"
  BY <1>2 DEF Order
<1>5. CASE check[q].at < check[last].at
  BY <1>2, <1>5 DEF Order
<1>6. CASE check[q].at = check[last].at
  BY <1>2, <1>4, <1>6 DEF Order
<1>7. QED
  BY <1>2, <1>3, <1>5, <1>6

\* A check begins later than every other, and only if all earlier checks of
\* its policy are settled (src/demo/policyChecks.js:12-21).
LEMMA BeginKeepsCheckInv ==
  ASSUME CheckInv, NEW r \in Request, NEW a \in Account, NEW p \in Policy, Begin(r, a, p)
  PROVE  CheckInv'
<1>1. /\ check \in [Request -> Check] /\ clock \in Nat /\ p # NoPolicy
      /\ check[r].status = "none" /\ clock' = clock + 1
      /\ check' = [check EXCEPT ![r].status = "pending", ![r].owner = a, ![r].at = clock + 1]
      /\ call' = [at |-> "describe", request |-> r, policy |-> p, source |-> 1, row |-> "none"]
      /\ offer' = offer /\ told' = told /\ senders' = senders /\ tx' = tx
  BY DEF CheckInv, TypeOK, Begin, services
<1>2. /\ check[r].policy = NoPolicy
      /\ \A s \in Source : check[r].rows[s] = "none"
  <2>1. check[r].policy = NoPolicy
    BY <1>1 DEF CheckInv, Order
  <2>2. QED
    BY <2>1, NoRows
<1>3. /\ check'[r].status = "pending" /\ check'[r].at = clock + 1
      /\ check'[r].policy = NoPolicy /\ check'[r].rows = check[r].rows
      /\ check'[r] \in Check
      /\ \A q \in Request : q # r => check'[q] = check[q]
  <2>1. check'[r] = [check[r] EXCEPT !.status = "pending", !.owner = a, !.at = clock + 1]
    BY <1>1
  <2>2. check[r] \in Check
    BY <1>1
  <2>3. /\ check'[r].status = "pending" /\ check'[r].at = clock + 1
        /\ check'[r].policy = NoPolicy /\ check'[r].rows = check[r].rows
    BY <1>2, <2>1, <2>2 DEF Check
  <2>4. check'[r] \in Check
    <3>1. a \in Account \cup {Nobody} /\ clock + 1 \in Nat
          /\ "pending" \in {"none", "pending", "complete"}
      BY <1>1
    <3>2. check'[r] = [status |-> "pending", owner |-> a, policy |-> check[r].policy,
                       at |-> clock + 1, rows |-> check[r].rows]
      BY <2>1, <2>2 DEF Check
    <3>3. check[r].policy \in Policy \cup {NoPolicy} /\ check[r].rows \in [Source -> Row]
      BY <2>2 DEF Check
    <3>4. QED
      BY <3>1, <3>2, <3>3 DEF Check
  <2>5. \A q \in Request : q # r => check'[q] = check[q]
    BY <1>1
  <2>6. QED
    BY <2>3, <2>4, <2>5
<1>4. \A q \in Request : check[q].at \in Nat /\ check[q].at <= clock
  BY <1>1 DEF CheckInv, Order, Check
<1>5. TypeOK'
  <2>1. check' \in [Request -> Check]
    BY <1>1, <1>3
  <2>2. call' \in [at : Point, request : Request \cup {NoRequest},
                   policy : Policy \cup {NoPolicy}, source : Source, row : Row]
    BY <1>1 DEF Point, Row, Source
  <2>3. QED
    BY <1>1, <2>1, <2>2 DEF CheckInv, TypeOK, Service!TypeOK
<1>6. Told'
  BY <1>1 DEF CheckInv, Told
<1>7. Rows'
  <2>1. \A q \in Request :
          /\ check'[q].rows = check[q].rows
          /\ check'[q].status = "complete" => check[q].status = "complete"
          /\ check'[q].policy = NoPolicy => check[q].policy = NoPolicy
    BY <1>2, <1>3
  <2>2. QED
    BY <1>1, <2>1, RowsKept DEF CheckInv
<1>8. Progress'
  <2>1. \A s \in Source : s >= 1
    BY DEF Source
  <2>2. 1 \in Source
    BY DEF Source
  <2>3. /\ call'.at = "describe" /\ call'.request = r /\ call'.policy = p /\ call'.source = 1
        /\ \A s \in Source : check'[r].rows[s] = "none"
    BY <1>1, <1>2, <1>3
  <2>4. \A s \in Source : ~(s < 1)
    BY DEF Source
  <2>5. QED
    BY <1>1, <1>3, <2>2, <2>3, <2>4 DEF Progress
<1>9. Order'
  <2>1. \A q \in Request : q # r => Settled(q)' = Settled(q)
    BY <1>3 DEF Settled, NeedsReview
  <2>2. \A policy : policy # NoPolicy => Latest(policy)' = Latest(policy)
    BY <1>2, <1>3 DEF Latest
  <2>3. \A q \in Request : /\ check'[q].at <= clock'
                           /\ check'[q].status = "none" => check'[q].policy = NoPolicy
                           /\ check'[q].policy # NoPolicy => Latest(check[q].policy)' # {}
    <3>1. SUFFICES ASSUME NEW q \in Request
                   PROVE  /\ check'[q].at <= clock'
                          /\ check'[q].status = "none" => check'[q].policy = NoPolicy
                          /\ check'[q].policy # NoPolicy => Latest(check[q].policy)' # {}
      OBVIOUS
    <3>2. CASE q = r
      BY <1>1, <1>3, <3>2
    <3>3. CASE q # r
      BY <1>1, <1>3, <1>4, <2>2, <3>3 DEF CheckInv, Order
    <3>4. QED
      BY <3>2, <3>3
  <2>4. \A q, s \in Request :
          check'[q].status # "none" /\ check'[s].status # "none" /\ check'[q].at = check'[s].at
          => q = s
    BY <1>1, <1>3, <1>4 DEF CheckInv, Order
  <2>5. \A q, s \in Request :
          check'[q].policy = check'[s].policy /\ check'[q].policy # NoPolicy
          /\ check'[q].at < check'[s].at => Settled(q)'
    BY <1>3, <2>1 DEF CheckInv, Order
  <2>6. \A q \in Request : check'[q].policy = p => Settled(q)'
    <3>1. SUFFICES ASSUME NEW q \in Request, check'[q].policy = p PROVE Settled(q)'
      OBVIOUS
    <3>2. q # r /\ check[q].policy = p
      BY <1>1, <1>3, <3>1
    <3>3. \A last \in Latest(p) : Settled(last)
      BY DEF Begin, Settled
    <3>4. Settled(q)
      BY <1>1, <3>2, <3>3, LastSettled DEF CheckInv
    <3>5. QED
      BY <2>1, <3>2, <3>4
  <2>7. \A q \in Request : check'[q].policy # NoPolicy => check'[q].policy = check[q].policy
    BY <1>3
  <2>8. call'.policy = p
    BY <1>1
  <2>9. QED
    BY <2>3, <2>4, <2>5, <2>6, <2>7, <2>8 DEF Order
<1>10. QED
  BY <1>5, <1>6, <1>7, <1>8, <1>9 DEF CheckInv

\* A check that is described is the last of its policy
\* (src/demo/policyChecks.js:22-23).
LEMMA DescribeKeepsCheckInv ==
  ASSUME CheckInv, Describe
  PROVE  CheckInv'
<1> DEFINE r == call.request
           p == call.policy
<1>1. /\ check \in [Request -> Check] /\ clock \in Nat
      /\ call \in [at : Point, request : Request \cup {NoRequest},
                   policy : Policy \cup {NoPolicy}, source : Source, row : Row]
      /\ call.at = "describe" /\ call' = [call EXCEPT !.at = "row"]
      /\ check' = [check EXCEPT ![r].policy = p]
      /\ clock' = clock /\ offer' = offer /\ told' = told /\ senders' = senders /\ tx' = tx
  BY DEF CheckInv, TypeOK, Describe, services
<1>2. /\ r \in Request /\ p \in Policy /\ p # NoPolicy
      /\ check[r].status = "pending" /\ check[r].at = clock /\ check[r].policy = NoPolicy
      /\ \A s \in Source : check[r].rows[s] = "none"
      /\ call.source = 1
  <2>1. /\ r \in Request /\ p \in Policy /\ p # NoPolicy
        /\ check[r].status = "pending" /\ check[r].at = clock /\ check[r].policy = NoPolicy
        /\ call.source = 1
    BY <1>1 DEF CheckInv, Progress
  <2>2. QED
    BY <2>1, NoRows
<1>3. /\ check'[r].status = "pending" /\ check'[r].at = clock /\ check'[r].policy = p
      /\ check'[r].rows = check[r].rows /\ check'[r] \in Check
      /\ \A q \in Request : q # r => check'[q] = check[q]
  <2>1. check'[r] = [check[r] EXCEPT !.policy = p] /\ check[r] \in Check
    BY <1>1, <1>2
  <2>2. QED
    BY <1>1, <1>2, <2>1 DEF Check
<1>4. \A q \in Request : /\ check'[q].status = check[q].status /\ check'[q].at = check[q].at
                         /\ check'[q].rows = check[q].rows
  BY <1>2, <1>3
<1>5. /\ call' \in [at : Point, request : Request \cup {NoRequest},
                    policy : Policy \cup {NoPolicy}, source : Source, row : Row]
      /\ call'.at = "row" /\ call'.request = r /\ call'.policy = p /\ call'.source = 1
  BY <1>1, <1>2 DEF Point
<1>6. TypeOK'
  <2>1. check' \in [Request -> Check]
    BY <1>1, <1>3
  <2>2. QED
    BY <1>1, <1>5, <2>1 DEF CheckInv, TypeOK, Service!TypeOK
<1>7. Told'
  BY <1>1 DEF CheckInv, Told
<1>8. Rows'
  <2>1. \A q \in Request :
          /\ check'[q].rows = check[q].rows
          /\ check'[q].status = "complete" => check[q].status = "complete"
          /\ check'[q].policy = NoPolicy => check[q].policy = NoPolicy
    BY <1>2, <1>3
  <2>2. QED
    BY <1>1, <2>1, RowsKept DEF CheckInv
<1>9. Progress'
  <2>1. 1 \in Source /\ \A s \in Source : ~(s < 1)
    BY DEF Source
  <2>2. QED
    BY <1>1, <1>2, <1>3, <1>5, <2>1 DEF Progress
<1>10. Order'
  <2>1. \A q \in Request : Settled(q)' = Settled(q)
    BY <1>4 DEF Settled, NeedsReview
  <2>2. \A q \in Request : check[q].at \in Nat /\ check[q].at <= clock
    BY <1>1 DEF CheckInv, Order, Check
  <2>3. \A q \in Request : check'[q].policy # NoPolicy => Latest(check[q].policy)' # {}
    <3>1. \A policy : policy = p => r \in Latest(policy)'
      <4>1. \A q \in Request : check'[q].at <= check'[r].at
        BY <1>3, <1>4, <2>2
      <4>2. QED
        BY <1>2, <1>3, <4>1 DEF Latest
    <3>2. \A policy : policy # NoPolicy /\ policy # p => Latest(policy)' = Latest(policy)
      BY <1>2, <1>3 DEF Latest
    <3>3. SUFFICES ASSUME NEW q \in Request, check'[q].policy # NoPolicy
                   PROVE  Latest(check[q].policy)' # {}
      OBVIOUS
    <3>4. CASE check'[q].policy = p
      BY <3>1, <3>4
    <3>5. CASE check'[q].policy # p
      <4>1. q # r /\ check'[q].policy = check[q].policy
        BY <1>3, <3>5
      <4>2. Latest(check[q].policy) # {}
        BY <3>3, <4>1 DEF CheckInv, Order
      <4>3. QED
        BY <3>2, <3>3, <3>5, <4>1, <4>2
    <3>6. QED
      BY <3>4, <3>5
  <2>4. \A q, s \in Request :
          check'[q].policy = check'[s].policy /\ check'[q].policy # NoPolicy
          /\ check'[q].at < check'[s].at => Settled(q)'
    <3>1. SUFFICES ASSUME NEW q \in Request, NEW s \in Request,
                          check'[q].policy = check'[s].policy, check'[q].policy # NoPolicy,
                          check'[q].at < check'[s].at
                   PROVE  Settled(q)
      BY <2>1
    <3>2. q # r
      BY <1>1, <1>2, <1>4, <2>2, <3>1
    <3>3. check[q].policy = check'[q].policy
      BY <1>3, <3>2
    <3>4. CASE s = r
      BY <1>1, <1>3, <3>1, <3>3, <3>4 DEF CheckInv, Order
    <3>5. CASE s # r
      BY <1>3, <1>4, <3>1, <3>3, <3>5 DEF CheckInv, Order
    <3>6. QED
      BY <3>4, <3>5
  <2>5. \A q, s \in Request :
          check'[q].status # "none" /\ check'[s].status # "none" /\ check'[q].at = check'[s].at
          => q = s
    BY <1>4 DEF CheckInv, Order
  <2>6. \A q \in Request : /\ check'[q].at <= clock'
                           /\ check'[q].status = "none" => check'[q].policy = NoPolicy
    BY <1>1, <1>2, <1>3, <1>4, <2>2 DEF CheckInv, Order
  <2>7. QED
    BY <1>5, <2>3, <2>4, <2>5, <2>6 DEF Order
<1>11. QED
  BY <1>6, <1>7, <1>8, <1>9, <1>10 DEF CheckInv

\* A check is finished when every service's outcome is saved
\* (src/demo/policyChecks.js:48-49).
LEMMA FinishKeepsCheckInv ==
  ASSUME CheckInv, Finish
  PROVE  CheckInv'
<1> DEFINE r == call.request
<1>1. /\ check \in [Request -> Check]
      /\ call.at = "finish" /\ call' = Idle
      /\ check' = [check EXCEPT ![r].status = "complete"]
      /\ clock' = clock /\ offer' = offer /\ told' = told /\ senders' = senders /\ tx' = tx
  BY DEF CheckInv, TypeOK, Finish, services
<1>2. /\ r \in Request /\ check[r].status = "pending" /\ check[r].policy # NoPolicy
      /\ \A s \in Source : s < N => check[r].rows[s] \in Outcome
      /\ check[r].rows[N] \in Outcome
  BY <1>1 DEF CheckInv, Progress
<1>3. \A s \in Source : check[r].rows[s] \in Outcome
  BY <1>2 DEF Source
<1>4. /\ check'[r].status = "complete" /\ check'[r].at = check[r].at
      /\ check'[r].policy = check[r].policy /\ check'[r].rows = check[r].rows
      /\ check'[r] \in Check
      /\ \A q \in Request : q # r => check'[q] = check[q]
  <2>1. check'[r] = [check[r] EXCEPT !.status = "complete"] /\ check[r] \in Check
    BY <1>1, <1>2
  <2>2. QED
    BY <1>1, <1>2, <2>1 DEF Check
<1>5. TypeOK'
  <2>1. check' \in [Request -> Check]
    BY <1>1, <1>4
  <2>2. call' \in [at : Point, request : Request \cup {NoRequest},
                   policy : Policy \cup {NoPolicy}, source : Source, row : Row]
    BY <1>1 DEF Idle, Point, Row, Source
  <2>3. QED
    BY <1>1, <2>1, <2>2 DEF CheckInv, TypeOK, Service!TypeOK
<1>6. Told'
  BY <1>1 DEF CheckInv, Told
<1>7. Rows'
  <2>1. \A q \in Request :
          /\ check'[q].rows = check[q].rows
          /\ check'[q].status = "complete" =>
               check[q].status = "complete" \/ \A s \in Source : check[q].rows[s] \in Outcome
          /\ check'[q].policy = NoPolicy => check[q].policy = NoPolicy
    BY <1>3, <1>4
  <2>2. QED
    BY <1>1, <2>1, RowsKept DEF CheckInv
<1>8. Progress'
  BY <1>1 DEF Progress, Idle
<1>9. Order'
  <2>1. \A q \in Request : Settled(q) => Settled(q)'
    BY <1>2, <1>4 DEF Settled, NeedsReview
  <2>2. \A q \in Request : /\ check'[q].policy = check[q].policy
                           /\ check'[q].at = check[q].at
                           /\ check'[q].status = "none" <=> check[q].status = "none"
    BY <1>2, <1>4
  <2>3. QED
    BY <1>1, <2>1, <2>2, OrderKept DEF CheckInv, Idle
<1>10. QED
  BY <1>5, <1>6, <1>7, <1>8, <1>9 DEF CheckInv

-----------------------------------------------------------------------------
(* Theorems *)

\* No step breaks the invariant.
LEMMA NextCheckInv == CheckInv /\ [Next]_vars => CheckInv'
<1> SUFFICES ASSUME CheckInv, [Next]_vars PROVE CheckInv'
  OBVIOUS
<1>1. CASE UNCHANGED vars
  <2>1. /\ check' = check /\ clock' = clock /\ call' = call /\ offer' = offer
        /\ told' = told /\ senders' = senders /\ tx' = tx
    BY <1>1 DEF vars
  <2>2. TypeOK'
    BY <2>1 DEF CheckInv, TypeOK, Service!TypeOK
  <2>3. Told' /\ Rows'
    BY <2>1 DEF CheckInv, Told, Rows
  <2>4. Progress'
    BY <2>1 DEF CheckInv, Progress, asked
  <2>5. Order'
    BY <2>1, OrderKept DEF CheckInv, Settled, NeedsReview
  <2>6. QED
    BY <2>2, <2>3, <2>4, <2>5 DEF CheckInv
<1>2. ASSUME NEW r \in Request, NEW a \in Account, NEW p \in Policy, Begin(r, a, p)
      PROVE  CheckInv'
  BY <1>2, BeginKeepsCheckInv
<1>3. CASE Describe
  BY <1>3, DescribeKeepsCheckInv
<1>4. CASE OpenRow \/ Checkpoint \/ Save
  BY <1>4, RowStepsKeepCheckInv
<1>5. CASE AskTerms \/ AskFails \/ CheckpointFails \/ HearDeclined \/ HearAnswer \/ Lose
           \/ Abandon
  BY <1>5, WaitKeepsCheckInv
<1>6. CASE Pay
  BY <1>6, PayKeepsCheckInv
<1>7. CASE Finish
  BY <1>7, FinishKeepsCheckInv
<1>8. ASSUME NEW x \in Ask, Serve(x) \/ Settle(x)
      PROVE  CheckInv'
  BY <1>8, ServeKeepsCheckInv
<1>9. QED
  BY <1>1, <1>2, <1>3, <1>4, <1>5, <1>6, <1>7, <1>8 DEF Next

\* A settled check has no payment outstanding.
LEMMA CostFollows == CheckInv => CostIsExact
<1> SUFFICES ASSUME CheckInv, NEW r \in Request, check[r].status = "complete",
                    ~NeedsReview(r), NEW s \in Source
             PROVE  /\ check[r].rows[s] = "paid" <=> tx[<<r, s>>] = "landed"
                    /\ ~MayLand(<<r, s>>)
  BY DEF CostIsExact
<1>1. /\ check[r].rows[s] \in {"unavailable", "paid"}
      /\ check[r].rows[s] = "paid" => told[<<r, s>>] = "answered"
      /\ check[r].rows[s] = "unavailable" => told[<<r, s>>] \in {"unasked", "declined"}
  BY DEF CheckInv, Rows, Outcome, NeedsReview
<1>2. /\ told[<<r, s>>] = "answered" => tx[<<r, s>>] = "landed"
      /\ told[<<r, s>>] \in {"unasked", "declined"} => tx[<<r, s>>] = "none"
  BY Pairs DEF CheckInv, Told
<1>3. QED
  BY <1>1, <1>2 DEF MayLand

\* Whatever the services do and whenever the client stops, the journal, the
\* call and what the services told agree (src/demo/policyChecks.js:10-50).
THEOREM CheckInvariant == Spec => []CheckInv
  BY InitCheckInv, NextCheckInv, PTL DEF Spec

\* The journal and the call keep their types; at most N services are asked.
THEOREM CheckTyping == Spec => []TypeOK
<1>1. CheckInv => TypeOK
  BY DEF CheckInv
<1>2. QED
  BY <1>1, CheckInvariant, PTL

\* The journal names every payment that was submitted, because it is saved
\* before the payment is sent (src/demo/policyChecks.js:29).
THEOREM ChecksSubmittedIsSaved == Spec => []SubmittedIsSaved
<1>1. CheckInv => SubmittedIsSaved
  <2> SUFFICES ASSUME CheckInv, NEW r \in Request, NEW s \in Source, tx[<<r, s>>] # "none"
               PROVE  check[r].rows[s] \in {"submitted", "paid", "review"}
    BY DEF SubmittedIsSaved
  <2>1. told[<<r, s>>] \notin {"unasked", "declined"}
    BY Pairs DEF CheckInv, Told
  <2>2. QED
    BY <2>1 DEF CheckInv, Rows, Outcome
<1>2. QED
  BY <1>1, CheckInvariant, PTL

\* The cost a settled check reports is what left the account, and nothing more
\* can leave it for this check (src/demo/policyChecks.js:31-46, totalAtomic).
THEOREM ChecksCostIsExact == Spec => []CostIsExact
  BY CostFollows, CheckInvariant, PTL

\* Only the last check of a policy can have a payment nobody knows of, whoever
\* asked (src/demo/policyChecks.js:6-9, 15-20).
THEOREM ChecksOneOpen == Spec => []OneOpenCheck
<1>1. CheckInv => OneOpenCheck
  <2> SUFFICES ASSUME CheckInv, NEW q \in Request, NEW r \in Request,
                      check[q].policy = check[r].policy, check[r].policy # NoPolicy,
                      Open(q), Open(r)
               PROVE  q = r
    BY DEF OneOpenCheck
  <2>1. ASSUME NEW x \in Request, Settled(x) PROVE ~Open(x)
    BY <2>1, CostFollows DEF CostIsExact, Settled, Open
  <2>2. /\ check[q].status # "none" /\ check[r].status # "none"
        /\ check[q].at \in Nat /\ check[r].at \in Nat
    BY DEF CheckInv, TypeOK, Check, Order
  <2>3. ~(check[q].at < check[r].at) /\ ~(check[r].at < check[q].at)
    BY <2>1 DEF CheckInv, Order
  <2>4. QED
    BY <2>2, <2>3 DEF CheckInv, Order
<1>2. QED
  BY <1>1, CheckInvariant, PTL

\* The books of the checks are complete and exact, for any accounts, policies and services.
THEOREM ChecksAlwaysAddUp == Spec => []ChecksAddUp
<1>1. QED
  BY ChecksSubmittedIsSaved, ChecksCostIsExact, ChecksOneOpen, PTL DEF ChecksAddUp
=============================================================================
