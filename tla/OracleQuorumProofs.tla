------------------------ MODULE OracleQuorumProofs -------------------------
(***************************************************************************)
(* Theorems of OracleQuorum, for any number of oracles, any threshold, any *)
(* policies and any terms in any order in their topic.                     *)
(*                                                                         *)
(* PaidOnEvidence is not inductive: that a payout rests on evidence is     *)
(* decided when an oracle looks, and used when it signs.  The invariant    *)
(* follows a vote through the request that carries it: what a request is   *)
(* for was compared with the terms (Matched), it reaches its signature     *)
(* only with a match (Evident), so an oracle that signed has found one     *)
(* (Signed), and an executed schedule has its signatures (Executed).       *)
(***************************************************************************)
EXTENDS OracleQuorum, FiniteSetTheorems, TLAPS

Matched ==
    \A o \in Oracle : request[o] # Idle =>
        /\ request[o].schedule.memo = request[o].policy
        /\ request[o].schedule.pays = request[o].policy
        /\ Agent \in signatures[request[o].schedule]

Evident ==
    \A o \in Oracle : request[o].at = "sign" => <<o, request[o].policy>> \in attested

Signed ==
    \A s \in Schedule : \A o \in signatures[s] \cap Oracle : <<o, s.memo>> \in attested

Executed ==
    \A s \in executed : Complete(signatures[s]) /\ s.pays = s.memo

\* A refused schedule is past its end, so nothing executes it any more.
Late == \A s \in refused : s \notin executed /\ ~(clock < s.expiry)

IInv == TypeOK /\ Matched /\ Evident /\ Signed /\ Executed /\ Late

-----------------------------------------------------------------------------
LEMMA RequestForms ==
    ASSUME NEW r \in Request
    PROVE  /\ r = Idle <=> r.at = "idle"
           /\ r # Idle =>
                /\ r.at \in {"look", "sign"} /\ r.schedule \in Schedule /\ r.policy \in Policy
                /\ r.until \in Time /\ r.tries \in 0..MaxTries
                /\ r \in [at: {"look", "sign"}, schedule: Schedule, policy: Policy,
                          until: Time, tries: 0..MaxTries]
    BY DEF Request, Idle

LEMMA Expiries == \A s \in Schedule : s.expiry \in Nat
    BY ConstantsAssumption DEF Schedule, Payout

LEMMA LookingTyped ==
    ASSUME NEW s \in Schedule, NEW p \in Policy, NEW t \in Time
    PROVE  Looking(s, p, t) \in Request /\ Looking(s, p, t) # Idle
    BY ConstantsAssumption DEF Looking, Request, Idle

LEMMA Initially == Init => IInv
  <1> SUFFICES ASSUME Init PROVE IInv
      OBVIOUS
  <1> USE DEF Init
  <1>1. TypeOK
      BY ConstantsAssumption DEF TypeOK, Time, Request, Signer
  <1>2. Matched /\ Evident
      BY DEF Matched, Evident, Idle
  <1>3. Signed
      BY ConstantsAssumption DEF Signed
  <1>4. Executed /\ Late
      BY DEF Executed, Late
  <1> QED
      BY <1>1, <1>2, <1>3, <1>4 DEF IInv

-----------------------------------------------------------------------------
\* A step that leaves the ledger and the requests alone.
LEMMA TickKeeps == ASSUME IInv, Tick PROVE IInv'
  <1> USE DEF IInv, Tick, ledger
  <1>1. TypeOK'
      BY ConstantsAssumption DEF TypeOK, Time
  <1>2. Matched' /\ Evident' /\ Signed'
      BY DEF Matched, Evident, Signed
  <1>3. Executed'
      BY DEF Executed, Complete
  <1>4. Late'
    <2>1. clock \in Nat /\ clock' = clock + 1
        BY ConstantsAssumption DEF TypeOK, Time
    <2> QED
        BY <2>1, Expiries DEF Late, TypeOK
  <1> QED
      BY <1>1, <1>2, <1>3, <1>4

LEMMA CatalogueKeeps ==
    ASSUME IInv, NEW o \in Oracle, NEW row \in Row[o], List(o, row) \/ Revise(o, row)
    PROVE  IInv'
  <1> USE DEF IInv, List, Revise, ledger
  <1>1. TypeOK'
      BY DEF TypeOK
  <1>2. Matched' /\ Evident' /\ Signed'
      BY DEF Matched, Evident, Signed
  <1>3. Executed' /\ Late'
      BY DEF Executed, Complete, Late
  <1> QED
      BY <1>1, <1>2, <1>3

LEMMA ScheduleKeeps ==
    ASSUME IInv, NEW p \in Policy, SchedulePayout(p)
    PROVE  IInv'
  <1> USE DEF IInv, SchedulePayout, world
  <1>0. Payout(p) \in Schedule /\ Agent \in Signer
      BY DEF Schedule, Signer
  <1>s. \A s \in Schedule : signatures[s] \subseteq signatures'[s]
      BY <1>0 DEF TypeOK
  <1>1. TypeOK'
      BY <1>0 DEF TypeOK
  <1>2. Matched'
      BY <1>s, RequestForms DEF Matched, TypeOK
  <1>3. Evident' /\ Late'
      BY DEF Evident, Late
  <1>4. Signed'
      BY <1>0, ConstantsAssumption DEF Signed, TypeOK
  <1>5. Executed'
    <2>1. Payout(p) \notin executed
        BY <1>0 DEF Executed, Complete
    <2>2. \A s \in executed : s \in Schedule /\ signatures'[s] = signatures[s]
        BY <2>1 DEF TypeOK
    <2> QED
        BY <2>2 DEF Executed, Complete
  <1> QED
      BY <1>1, <1>2, <1>3, <1>4, <1>5

-----------------------------------------------------------------------------
LEMMA VerifyKeeps ==
    ASSUME IInv, NEW o \in Oracle, NEW s \in Schedule, NEW i \in DOMAIN topic, Verify(o, s, i)
    PROVE  IInv'
  <1> USE DEF IInv, Verify, world, ledger
  <1>1. PICK p \in Policy :
            /\ VerifiedPolicy(s, p, i)
            /\ request' = [request EXCEPT ![o] = Looking(s, p, clock)]
      OBVIOUS
  <1>2. s.memo = p /\ s.pays = p /\ Agent \in signatures[s]
      BY <1>1 DEF VerifiedPolicy, MatchesTerms
  <1>3. Looking(s, p, clock) \in Request
      BY LookingTyped DEF TypeOK
  <1>4. TypeOK'
      BY <1>1, <1>3 DEF TypeOK
  <1>5. Matched'
      BY <1>1, <1>2 DEF Matched, TypeOK, Looking
  <1>6. Evident'
      BY <1>1 DEF Evident, TypeOK, Looking
  <1>7. Signed' /\ Executed' /\ Late'
      BY DEF Signed, Executed, Complete, Late
  <1> QED
      BY <1>4, <1>5, <1>6, <1>7

\* A step of the service short of its signature.
LEMMA EndKeeps ==
    ASSUME IInv, NEW o \in Oracle,
           request' = [request EXCEPT ![o] = Idle],
           UNCHANGED <<world, ledger, refused>>,
           attested \subseteq attested', attested' \subseteq Oracle \X Policy
    PROVE  IInv'
  <1> USE DEF IInv, world, ledger
  <1>1. TypeOK'
      BY DEF TypeOK, Request
  <1>2. Matched'
      BY DEF Matched, TypeOK
  <1>3. Evident'
      BY DEF Evident, TypeOK, Idle
  <1>4. Signed' /\ Executed' /\ Late'
      BY DEF Signed, Executed, Complete, Late
  <1> QED
      BY <1>1, <1>2, <1>3, <1>4

LEMMA RetryKeeps ==
    ASSUME IInv, NEW o \in Oracle, RetryCatalogue(o)
    PROVE  IInv'
  <1> USE DEF IInv, RetryCatalogue, world, ledger
  <1>1. request[o] \in Request /\ request[o] # Idle
      BY DEF TypeOK, Idle
  <1>2. request[o].tries + 1 \in 0..MaxTries
      BY <1>1, RequestForms, ConstantsAssumption
  <1>3. request'[o] \in Request /\ request'[o] # Idle
      BY <1>1, <1>2, RequestForms DEF TypeOK, Request, Idle
  <1>4. /\ request'[o].at = "look"
        /\ request'[o].schedule = request[o].schedule
        /\ request'[o].policy = request[o].policy
      BY <1>1, RequestForms DEF TypeOK
  <1>5. \A q \in Oracle : q # o => request'[q] = request[q]
      BY DEF TypeOK
  <1>6. TypeOK'
      BY <1>3 DEF TypeOK
  <1>7. Matched' /\ Evident'
      BY <1>1, <1>4, <1>5 DEF Matched, Evident
  <1>8. Signed' /\ Executed' /\ Late'
      BY DEF Signed, Executed, Complete, Late
  <1> QED
      BY <1>6, <1>7, <1>8

LEMMA AttestKeeps ==
    ASSUME IInv, NEW o \in Oracle, Attest(o)
    PROVE  IInv'
  <1> USE DEF IInv
  <1>1. request[o] \in Request /\ request[o] # Idle /\ request[o].policy \in Policy
      BY RequestForms DEF TypeOK, Attest, Idle
  <1>2. CASE request' = [request EXCEPT ![o] = Idle]
    <2>1. attested \subseteq attested' /\ attested' \subseteq Oracle \X Policy
        BY <1>1 DEF Attest, TypeOK
    <2>2. UNCHANGED <<world, ledger, refused>>
        BY DEF Attest, world, ledger
    <2> QED
        BY <1>2, <2>1, <2>2, EndKeeps
  <1>3. CASE /\ attested' = attested \cup {<<o, request[o].policy>>}
             /\ request' = [request EXCEPT ![o].at = "sign"]
    <2> USE DEF Attest, world, ledger
    <2>1. request'[o] \in Request /\ request'[o] # Idle
        BY <1>1, <1>3, RequestForms DEF TypeOK, Request, Idle
    <2>2. /\ request'[o].schedule = request[o].schedule
          /\ request'[o].policy = request[o].policy
        BY <1>1, <1>3, RequestForms DEF TypeOK
    <2>3. \A q \in Oracle : q # o => request'[q] = request[q]
        BY <1>3 DEF TypeOK
    <2>4. TypeOK'
        BY <1>1, <1>3, <2>1 DEF TypeOK
    <2>5. Matched'
        BY <1>1, <2>2, <2>3 DEF Matched
    <2>6. Evident'
        BY <1>3, <2>2, <2>3 DEF Evident
    <2>7. Signed'
        BY <1>3 DEF Signed
    <2>8. Executed' /\ Late'
        BY DEF Executed, Complete, Late
    <2> QED
        BY <2>4, <2>5, <2>6, <2>7, <2>8
  <1> QED
      BY <1>2, <1>3 DEF Attest

LEMMA SignKeeps ==
    ASSUME IInv, NEW o \in Oracle, SignSchedule(o)
    PROVE  IInv'
  <1> USE DEF IInv
  <1> DEFINE s == request[o].schedule
  <1>1. /\ request[o] \in Request /\ request[o] # Idle /\ s \in Schedule
        /\ request[o].policy \in Policy
      BY RequestForms DEF TypeOK, SignSchedule, Idle
  <1>2. /\ s.memo = request[o].policy /\ s.pays = s.memo /\ Agent \in signatures[s]
        /\ <<o, s.memo>> \in attested
      BY <1>1 DEF Matched, Evident, SignSchedule
  <1>3. /\ request' = [request EXCEPT ![o] = Idle]
        /\ UNCHANGED <<clock, topic, catalogue, attested>>
      BY DEF SignSchedule, world
  <1>4. Evident'
      BY <1>3 DEF Evident, TypeOK, Idle
  <1>5. CASE Signable(s)
    <2>1. /\ signatures' = [signatures EXCEPT ![s] = @ \cup {o}]
          /\ executed' = executed \cup (IF Complete(signatures[s] \cup {o}) THEN {s} ELSE {})
          /\ refused' = refused
        BY <1>5 DEF SignSchedule, AddSignature
    <2>2. \A t \in Schedule : /\ signatures[t] \subseteq signatures'[t]
                              /\ t # s => signatures'[t] = signatures[t]
        BY <2>1 DEF TypeOK
    <2>3. signatures'[s] = signatures[s] \cup {o}
        BY <1>1, <2>1 DEF TypeOK
    <2>4. TypeOK'
        BY <1>1, <1>3, <2>1 DEF TypeOK, Signer, Request
    <2>5. Matched'
        BY <1>3, <2>2, RequestForms DEF Matched, TypeOK
    <2>6. Signed'
        BY <1>2, <1>3, <2>2, <2>3 DEF Signed
    <2>7. Executed'
      <3>1. s \notin executed
          BY <1>5 DEF Signable
      <3> QED
          BY <1>2, <2>1, <2>2, <2>3, <3>1 DEF Executed, Complete, TypeOK
    <2>8. Late'
        BY <1>3, <1>5, <2>1 DEF Late, Signable
    <2> QED
        BY <1>4, <2>4, <2>5, <2>6, <2>7, <2>8
  <1>6. CASE ~Signable(s)
    <2>1. /\ refused' = IF s \in executed THEN refused ELSE refused \cup {s}
          /\ UNCHANGED <<signatures, executed>>
        BY <1>6 DEF SignSchedule, ledger
    <2>2. TypeOK'
        BY <1>1, <1>3, <2>1 DEF TypeOK, Request
    <2>3. Matched'
        BY <1>3, <2>1 DEF Matched, TypeOK
    <2>4. Signed' /\ Executed'
        BY <1>3, <2>1 DEF Signed, Executed, Complete
    <2>5. Late'
        BY <1>3, <1>6, <2>1 DEF Late, Signable
    <2> QED
        BY <1>4, <2>2, <2>3, <2>4, <2>5
  <1> QED
      BY <1>5, <1>6

LEMMA Inductive == IInv /\ [Next]_vars => IInv'
  <1> SUFFICES ASSUME IInv, [Next]_vars PROVE IInv'
      OBVIOUS
  <1>1. CASE Tick
      BY <1>1, TickKeeps
  <1>2. CASE \E p \in Policy : SchedulePayout(p)
      BY <1>2, ScheduleKeeps
  <1>3. CASE \E o \in Oracle : \E row \in Row[o] : List(o, row) \/ Revise(o, row)
      BY <1>3, CatalogueKeeps
  <1>4. CASE \E o \in Oracle, s \in Schedule, i \in DOMAIN topic : Verify(o, s, i)
      BY <1>4, VerifyKeeps
  <1>5. ASSUME NEW o \in Oracle, Serve(o) \/ Crash(o) PROVE IInv'
    <2>1. CASE Unavailable(o) \/ Crash(o)
        BY <2>1, EndKeeps DEF Unavailable, Crash, IInv, TypeOK
    <2> QED
        BY <1>5, <2>1, RetryKeeps, AttestKeeps, SignKeeps DEF Serve
  <1>6. CASE UNCHANGED vars
    <2> USE <1>6 DEF vars, IInv
    <2>1. TypeOK'
        BY DEF TypeOK
    <2>2. Matched' /\ Evident' /\ Signed'
        BY DEF Matched, Evident, Signed
    <2>3. Executed' /\ Late'
        BY DEF Executed, Complete, Late
    <2> QED
        BY <2>1, <2>2, <2>3
  <1> QED
      BY <1>1, <1>2, <1>3, <1>4, <1>5, <1>6 DEF Next

-----------------------------------------------------------------------------
LEMMA Invariant == Spec => []IInv
  <1> QED
      BY Initially, Inductive, PTL DEF Spec

\* The variables of the quorum keep their types.
THEOREM QuorumTyping == Spec => []TypeOK
  <1>1. IInv => TypeOK
      BY DEF IInv
  <1> QED
      BY <1>1, Invariant, PTL

\* Signatures are votes: with Threshold of them, Threshold oracles found a match.
LEMMA VotesAreMatches ==
    ASSUME IInv, NEW s \in executed
    PROVE  Cardinality({o \in Oracle : <<o, s.memo>> \in attested}) >= Threshold
  <1> DEFINE found == {o \in Oracle : <<o, s.memo>> \in attested}
             votes == signatures[s] \cap Oracle
  <1>1. s \in Schedule /\ Cardinality(votes) >= Threshold
      BY DEF IInv, TypeOK, Executed, Complete
  <1>2. votes \subseteq found
      BY <1>1 DEF IInv, Signed
  <1>3. IsFiniteSet(found) /\ IsFiniteSet(votes)
      BY ConstantsAssumption, FS_Subset
  <1>4. /\ Cardinality(votes) <= Cardinality(found)
        /\ Cardinality(votes) \in Nat /\ Cardinality(found) \in Nat
      BY <1>2, <1>3, FS_Subset, FS_CardinalityType
  <1> QED
      BY <1>1, <1>4, ConstantsAssumption

\* A transfer executes only when the agent committed it and Threshold different oracles
\* each found a qualifying event for the terms it was committed for.
THEOREM QuorumPaidOnEvidence == Spec => []PaidOnEvidence
  <1>1. ASSUME IInv PROVE PaidOnEvidence
    <2>1. ASSUME NEW s \in executed PROVE s.pays = s.memo /\ Agent \in signatures[s]
        BY <1>1 DEF IInv, Executed, Complete
    <2> QED
        BY <1>1, <2>1, VotesAreMatches DEF PaidOnEvidence, QuorumReached
  <1> QED
      BY <1>1, Invariant, PTL

\* A refusal that is reported as an error never belongs to a payout that was made.
THEOREM QuorumNoFalseAlarm == Spec => []NoFalseAlarm
  <1>1. IInv => NoFalseAlarm
      BY DEF IInv, Late, NoFalseAlarm
  <1> QED
      BY <1>1, Invariant, PTL

\* Payouts are made on evidence and never reported as failures, for any oracles and
\* threshold.
THEOREM QuorumJustifiesPayouts == Spec => []PayoutsAreJustified
  <1>1. QED
      BY QuorumPaidOnEvidence, QuorumNoFalseAlarm, PTL DEF PayoutsAreJustified
=============================================================================
