------------------------- MODULE ReviewTablesProofs -------------------------
(***************************************************************************)
(* Lemmas on the statements of ReviewTables: what they return, and that    *)
(* the transaction of an applicable request keeps a database well formed.  *)
(***************************************************************************)
EXTENDS ReviewTables, FiniteSetTheorems, WellFoundedInduction,
        SequenceTheorems, TLAPS

-----------------------------------------------------------------------------
(* Types *)

\* The operation of a request says which of the three sets it is from.
LEMMA RequestKinds ==
    ASSUME NEW q \in Requests
    PROVE  /\ q.op = "create_run" <=> q \in CreateRequests
           /\ q.op = "issue_challenge" <=> q \in IssueRequests
           /\ q.op = "record_review" <=> q \in ReviewRequests
           /\ q.op \in {"create_run", "issue_challenge", "record_review"}
           /\ q.run_id \in RunIds /\ q.decision_digest \in Digests
           /\ RunRow(q) \in RunRows
  BY DEF Requests, CreateRequests, IssueRequests, ReviewRequests, RunRow, RunRows

\* The rows a request writes have the types of their tables.
LEMMA ChallengeRowType ==
    ASSUME NEW q \in IssueRequests
    PROVE  /\ ChallengeRow(q) \in ChallengeRows
           /\ ChallengeFact(ChallengeRow(q)) \in ChallengeFacts
           /\ LegalWindow(ChallengeRow(q))
           /\ Live(ChallengeRow(q))
  <1>1. q.now \in Nat /\ q.ttl \in MinTtl..MaxTtl /\ q.now + q.ttl \in Nat
    BY TtlAssumption DEF IssueRequests
  <1>2. ChallengeRow(q) \in ChallengeRows
    BY <1>1 DEF IssueRequests, ChallengeRow, ChallengeRows
  <1>3. ChallengeFact(ChallengeRow(q)) \in ChallengeFacts
    BY <1>1 DEF IssueRequests, ChallengeRow, ChallengeFact, ChallengeFacts
  <1>4. LegalWindow(ChallengeRow(q))
    BY <1>1, TtlAssumption DEF ChallengeRow, LegalWindow
  <1>5. Live(ChallengeRow(q))
    BY DEF Live, ChallengeRow
  <1> QED
    BY <1>2, <1>3, <1>4, <1>5

LEMMA ReviewRowType ==
    ASSUME NEW q \in ReviewRequests, q.nonce \in Nonces
    PROVE  ReviewRow(q) \in ReviewRows
  BY DEF ReviewRequests, ReviewRow, ReviewRows, ReviewActions, FinalStates, StateForAction

LEMMA PayloadType ==
    ASSUME NEW q \in Requests
    PROVE  PayloadOf(q) \in Payloads /\ EventType(q) \in EventTypes
  <1>1. CASE q.op = "create_run"
    <2>1. PayloadOf(q) = RunRow(q) /\ EventType(q) = "RUN_CREATED"
      BY <1>1 DEF PayloadOf, EventType
    <2> QED
      BY <2>1, RequestKinds DEF Payloads, RunFacts, RunRows, EventTypes
  <1>2. CASE q.op = "issue_challenge"
    <2>1. PayloadOf(q) = ChallengeFact(ChallengeRow(q)) /\ EventType(q) = "CHALLENGE_ISSUED"
      BY <1>2 DEF PayloadOf, EventType
    <2> QED
      BY <1>2, <2>1, RequestKinds, ChallengeRowType DEF Payloads, EventTypes
  <1>3. CASE q.op = "record_review"
    <2>1. PayloadOf(q) = ReviewFact(ReviewRow(q)) /\ EventType(q) = "REVIEW_RECORDED"
      BY <1>3 DEF PayloadOf, EventType
    <2>2. q \in ReviewRequests
      BY <1>3, RequestKinds
    <2>3. ReviewFact(ReviewRow(q)) \in ReviewFacts
      BY <2>2 DEF ReviewRequests, ReviewFact, ReviewRow, ReviewFacts, ReviewActions,
                  FinalStates, StateForAction
    <2> QED
      BY <2>1, <2>3 DEF Payloads, EventTypes
  <1> QED
    BY <1>1, <1>2, <1>3, RequestKinds

\* Each statement maps databases to databases.
LEMMA StatementTypes ==
    ASSUME NEW d \in Databases, NEW q \in Requests
    PROVE  /\ q.op = "create_run" => InsertRun(d, q) \in Databases
           /\ SupersedeLive(d, q) \in Databases
           /\ q.op = "issue_challenge" => InsertChallenge(d, q) \in Databases
           /\ q.op = "record_review" /\ q.nonce \in Nonces => InsertReview(d, q) \in Databases
           /\ q.op = "record_review" => Consume(d, q) \in Databases
           /\ AppendEvent(d, q) \in Databases
  <1>1. q.op = "create_run" => InsertRun(d, q) \in Databases
    BY RequestKinds DEF InsertRun, Databases
  <1>2. SupersedeLive(d, q) \in Databases
    <2>1. \A c \in ChallengeRows : SupersedeRow(c, q) \in ChallengeRows
      BY DEF ChallengeRows, SupersedeRow
    <2> QED
      BY <2>1 DEF SupersedeLive, Databases
  <1>3. q.op = "issue_challenge" => InsertChallenge(d, q) \in Databases
    BY RequestKinds, ChallengeRowType DEF InsertChallenge, Databases
  <1>4. q.op = "record_review" /\ q.nonce \in Nonces => InsertReview(d, q) \in Databases
    BY RequestKinds, ReviewRowType DEF InsertReview, Databases
  <1>5. ASSUME q.op = "record_review" PROVE Consume(d, q) \in Databases
    <2>1. \A c \in ChallengeRows : ConsumeRow(c, q) \in ChallengeRows
      BY <1>5, RequestKinds DEF ChallengeRows, ConsumeRow, ReviewRequests
    <2> QED
      BY <2>1 DEF Consume, Databases
  <1>6. AppendEvent(d, q) \in Databases
    <2>1. LastHash(d.events) \in Hashes
      <3>1. CASE d.events = <<>>
        BY <3>1 DEF LastHash, Genesis, Hashes
      <3>2. CASE d.events # <<>>
        <4>1. d.events[Len(d.events)] \in EventRows
          BY <3>2 DEF Databases
        <4> QED
          BY <3>2, <4>1 DEF LastHash, EventRows
      <3> QED
        BY <3>1, <3>2
    <2>2. EventHash(EventType(q), PayloadOf(q), LastHash(d.events)) \in Hashes
      BY <2>1, PayloadType DEF EventHash, Hashes
    <2>3. EventRow(d.events, q) \in EventRows
      BY <2>1, <2>2, PayloadType DEF EventRow, EventRows
    <2>4. Append(d.events, EventRow(d.events, q)) \in Seq(EventRows)
      BY <2>3 DEF Databases
    <2> QED
      BY <2>4 DEF AppendEvent, Databases
  <1> QED
    BY <1>1, <1>2, <1>3, <1>4, <1>5, <1>6

-----------------------------------------------------------------------------
(* The effect of a transaction, table by table *)

LEMMA EffectOfCreate ==
    ASSUME NEW d \in Databases, NEW q \in Requests, q.op = "create_run"
    PROVE  LET e == Effect(d, q) IN
           /\ e.runs = d.runs \union {RunRow(q)}
           /\ e.challenges = d.challenges
           /\ e.reviews = d.reviews
           /\ e.events = Append(d.events, EventRow(d.events, q))
  BY DEF Effect, Rows, InsertRun, AppendEvent, Databases

LEMMA EffectOfIssue ==
    ASSUME NEW d \in Databases, NEW q \in Requests, q.op = "issue_challenge"
    PROVE  LET e == Effect(d, q) IN
           /\ e.runs = d.runs
           /\ e.challenges = {SupersedeRow(c, q) : c \in d.challenges} \union {ChallengeRow(q)}
           /\ e.reviews = d.reviews
           /\ e.events = Append(d.events, EventRow(d.events, q))
  BY DEF Effect, Rows, InsertChallenge, SupersedeLive, AppendEvent, Databases

LEMMA EffectOfReview ==
    ASSUME NEW d \in Databases, NEW q \in Requests, q.op = "record_review"
    PROVE  LET e == Effect(d, q) IN
           /\ e.runs = d.runs
           /\ e.challenges = {ConsumeRow(c, q) : c \in d.challenges}
           /\ e.reviews = d.reviews \union {ReviewRow(q)}
           /\ e.events = Append(d.events, EventRow(d.events, q))
  BY DEF Effect, Rows, InsertReview, Consume, AppendEvent, Databases

-----------------------------------------------------------------------------
(* Appending to the ledger *)

\* The appended event chains to the last one.
LEMMA VerifyAppend ==
    ASSUME NEW events \in Seq(EventRows), NEW q \in Requests, VerifyLedger(events)
    PROVE  VerifyLedger(Append(events, EventRow(events, q)))
  <1> DEFINE new == EventRow(events, q)
             longer == Append(events, new)
  <1>1. /\ longer \in Seq({new} \union EventRows)
        /\ DOMAIN longer = 1..Len(events) + 1 /\ DOMAIN events = 1..Len(events)
        /\ Len(events) \in Nat
        /\ \A i \in 1..Len(events) : longer[i] = events[i]
        /\ longer[Len(events) + 1] = new
    OBVIOUS
  <1>2. ASSUME NEW i \in DOMAIN longer
        PROVE  /\ longer[i].previous_hash = IF i = 1 THEN Genesis ELSE longer[i-1].event_hash
               /\ longer[i].event_hash =
                    EventHash(longer[i].event_type, longer[i].payload, longer[i].previous_hash)
    <2>1. CASE i \in 1..Len(events)
      <3>1. longer[i] = events[i] /\ (i # 1 => longer[i-1] = events[i-1])
        BY <1>1, <2>1
      <3> HIDE DEF longer, new
      <3> QED
        BY <1>1, <2>1, <3>1 DEF VerifyLedger
    <2>2. CASE i = Len(events) + 1
      <3>1. longer[i] = new
        BY <1>1, <2>2
      <3>2. new.previous_hash = LastHash(events)
            /\ new.event_hash = EventHash(new.event_type, new.payload, new.previous_hash)
        BY DEF EventRow
      <3>3. LastHash(events) = IF i = 1 THEN Genesis ELSE longer[i-1].event_hash
        <4>1. CASE events = <<>>
          BY <2>2, <4>1 DEF LastHash
        <4>2. CASE events # <<>>
          <5>1. Len(events) \in 1..Len(events) /\ i # 1 /\ i - 1 = Len(events)
            BY <2>2, <4>2
          <5>2. longer[i-1] = events[Len(events)]
            BY <1>1, <5>1
          <5> QED
            BY <4>2, <5>1, <5>2 DEF LastHash
        <4> QED
          BY <4>1, <4>2
      <3> HIDE DEF longer, new
      <3> QED
        BY <3>1, <3>2, <3>3
    <2> QED
      BY <1>1, <2>1, <2>2
  <1> QED
    BY <1>2 DEF VerifyLedger

\* The ledger then records one more payload, of the type of the event.
LEMMA RecordedAppend ==
    ASSUME NEW events \in Seq(EventRows), NEW e, NEW type
    PROVE  Recorded(Append(events, e), type) =
             Recorded(events, type) \union (IF e.event_type = type THEN {e.payload} ELSE {})
  <1> DEFINE longer == Append(events, e)
  <1>1. /\ DOMAIN longer = 1..Len(events) + 1 /\ DOMAIN events = 1..Len(events)
        /\ Len(events) \in Nat
        /\ \A i \in 1..Len(events) : longer[i] = events[i]
        /\ longer[Len(events) + 1] = e
    OBVIOUS
  <1>2. DOMAIN longer = DOMAIN events \union {Len(events) + 1}
    BY <1>1
  <1> HIDE DEF longer
  <1>3. Recorded(longer, type) =
          Recorded(events, type) \union (IF e.event_type = type THEN {e.payload} ELSE {})
    BY <1>1, <1>2 DEF Recorded
  <1> QED
    BY <1>3 DEF longer

\* A payload is recorded exactly when some event of the type carries it.
LEMMA RecordedMember ==
    ASSUME NEW events, NEW type, NEW p
    PROVE  p \in Recorded(events, type) <=>
             \E i \in DOMAIN events : events[i].event_type = type /\ events[i].payload = p
  BY DEF Recorded

\* A challenge stays the last of its run until another one is issued for it,
LEMMA IssuedLastAppend ==
    ASSUME NEW events \in Seq(EventRows), NEW e, NEW ch,
           e.event_type = "CHALLENGE_ISSUED" => e.payload.run_id # ch.run_id
    PROVE  IssuedLast(Append(events, e), ch) <=> IssuedLast(events, ch)
  <1> DEFINE longer == Append(events, e)
  <1>1. /\ DOMAIN longer = 1..Len(events) + 1 /\ DOMAIN events = 1..Len(events)
        /\ Len(events) \in Nat
        /\ \A i \in 1..Len(events) : longer[i] = events[i]
        /\ longer[Len(events) + 1] = e
    OBVIOUS
  <1>2. ChallengeFact(ch).run_id = ch.run_id
    BY DEF ChallengeFact
  <1> HIDE DEF longer
  <1>3. ASSUME IssuedLast(events, ch) PROVE IssuedLast(longer, ch)
    BY <1>1, <1>3 DEF IssuedLast
  <1>4. ASSUME IssuedLast(longer, ch) PROVE IssuedLast(events, ch)
    <2>1. PICK i \in DOMAIN longer :
             /\ longer[i].event_type = "CHALLENGE_ISSUED"
             /\ longer[i].payload = ChallengeFact(ch)
             /\ \A j \in DOMAIN longer :
                    j > i /\ longer[j].event_type = "CHALLENGE_ISSUED"
                      => longer[j].payload.run_id # ch.run_id
      BY <1>4 DEF IssuedLast
    <2>2. i \in DOMAIN events
      BY <1>1, <1>2, <2>1
    <2> QED
      BY <1>1, <2>1, <2>2 DEF IssuedLast
  <1> QED
    BY <1>3, <1>4 DEF longer

\* and is not the last any more when that happens.
LEMMA IssuedLastReplaced ==
    ASSUME NEW events \in Seq(EventRows), NEW e, NEW ch,
           e.event_type = "CHALLENGE_ISSUED", e.payload.run_id = ch.run_id,
           e.payload # ChallengeFact(ch)
    PROVE  ~IssuedLast(Append(events, e), ch)
  <1> DEFINE longer == Append(events, e)
  <1>1. /\ DOMAIN longer = 1..Len(events) + 1
        /\ Len(events) \in Nat
        /\ longer[Len(events) + 1] = e
    OBVIOUS
  <1> HIDE DEF longer
  <1>2. ~IssuedLast(longer, ch)
    BY <1>1 DEF IssuedLast
  <1> QED
    BY <1>2 DEF longer

\* The event appended last is the last one issued for its run.
LEMMA IssuedLastNew ==
    ASSUME NEW events \in Seq(EventRows), NEW e, NEW ch,
           e.event_type = "CHALLENGE_ISSUED", e.payload = ChallengeFact(ch)
    PROVE  IssuedLast(Append(events, e), ch)
  <1> DEFINE longer == Append(events, e)
  <1>1. /\ DOMAIN longer = 1..Len(events) + 1
        /\ Len(events) \in Nat
        /\ longer[Len(events) + 1] = e
    OBVIOUS
  <1> HIDE DEF longer
  <1>2. IssuedLast(longer, ch)
    BY <1>1 DEF IssuedLast
  <1> QED
    BY <1>2 DEF longer

\* An event about a run that has no review in the ledger keeps reviews last.
LEMMA ReviewIsLastAppend ==
    ASSUME NEW events \in Seq(EventRows), NEW e, ReviewIsLast(events),
           \A p \in Recorded(events, "REVIEW_RECORDED") : p.run_id # e.payload.run_id
    PROVE  ReviewIsLast(Append(events, e))
  <1> DEFINE longer == Append(events, e)
  <1>1. /\ DOMAIN longer = 1..Len(events) + 1 /\ DOMAIN events = 1..Len(events)
        /\ Len(events) \in Nat
        /\ \A i \in 1..Len(events) : longer[i] = events[i]
        /\ longer[Len(events) + 1] = e
    OBVIOUS
  <1> HIDE DEF longer
  <1>2. \A i \in DOMAIN events : events[i].event_type = "REVIEW_RECORDED"
           => events[i].payload.run_id # e.payload.run_id
    BY RecordedMember
  <1>3. ReviewIsLast(longer)
    BY <1>1, <1>2 DEF ReviewIsLast
  <1> QED
    BY <1>3 DEF longer

-----------------------------------------------------------------------------
(* An applicable transaction keeps the database well formed *)

LEMMA EmptyWellFormed == EmptyDatabase \in Databases /\ WellFormed(EmptyDatabase)
  <1>1. EmptyDatabase \in Databases
    BY DEF EmptyDatabase, Databases
  <1>2. OnePacket(EmptyDatabase) /\ OneChallengePerNonce(EmptyDatabase)
        /\ OneLive(EmptyDatabase) /\ ChallengesAgreeWithReviews(EmptyDatabase)
        /\ LatestChallengeCounts(EmptyDatabase)
        /\ \A ch \in EmptyDatabase.challenges : LegalWindow(ch)
    BY DEF EmptyDatabase, OnePacket, OneChallengePerNonce, OneLive,
           ChallengesAgreeWithReviews, LatestChallengeCounts
  <1>3. DOMAIN EmptyDatabase.events = {}
    BY DEF EmptyDatabase
  <1>4. VerifyLedger(EmptyDatabase.events) /\ ReviewIsLast(EmptyDatabase.events)
    BY <1>3 DEF VerifyLedger, ReviewIsLast
  <1>5. LedgerAgreesWithTables(EmptyDatabase)
    <2>1. \A type : Recorded(EmptyDatabase.events, type) = {}
      BY <1>3 DEF Recorded
    <2>2. NoEventTwice(EmptyDatabase.events)
      BY <1>3 DEF NoEventTwice
    <2>3. /\ EmptyDatabase.runs = {}
          /\ {ChallengeFact(ch) : ch \in EmptyDatabase.challenges} = {}
          /\ {ReviewFact(v) : v \in EmptyDatabase.reviews} = {}
      BY DEF EmptyDatabase
    <2> QED
      BY <2>1, <2>2, <2>3 DEF LedgerAgreesWithTables
  <1> QED
    BY <1>1, <1>2, <1>4, <1>5 DEF WellFormed

\* What the ledger says of the reviews of a run is in the table.
LEMMA UnreviewedInLedger ==
    ASSUME NEW d, NEW run, LedgerAgreesWithTables(d), ~Reviewed(d, run)
    PROVE  \A p \in Recorded(d.events, "REVIEW_RECORDED") : p.run_id # run
  BY DEF LedgerAgreesWithTables, Reviewed, ReviewFact

\* An event whose payload is new keeps the events distinct.
LEMMA DistinctAppend ==
    ASSUME NEW events \in Seq(EventRows), NEW e,
           e.payload \notin Recorded(events, e.event_type), NoEventTwice(events)
    PROVE  NoEventTwice(Append(events, e))
  <1> DEFINE longer == Append(events, e)
  <1>1. /\ DOMAIN longer = 1..Len(events) + 1 /\ DOMAIN events = 1..Len(events)
        /\ Len(events) \in Nat
        /\ \A i \in 1..Len(events) : longer[i] = events[i]
        /\ longer[Len(events) + 1] = e
    OBVIOUS
  <1>2. \A i \in DOMAIN events :
          events[i].event_type = e.event_type => events[i].payload # e.payload
    BY RecordedMember
  <1> HIDE DEF longer
  <1>3. NoEventTwice(longer)
    BY <1>1, <1>2 DEF NoEventTwice
  <1> QED
    BY <1>3 DEF longer

LEMMA CreateKeepsWellFormed ==
    ASSUME NEW d \in Databases, WellFormed(d),
           NEW q \in Requests, q.op = "create_run", ~Bound(d, q)
    PROVE  WellFormed(Effect(d, q))
  <1> DEFINE e == Effect(d, q)
             new == EventRow(d.events, q)
  <1>1. /\ e.runs = d.runs \union {RunRow(q)} /\ e.challenges = d.challenges
        /\ e.reviews = d.reviews /\ e.events = Append(d.events, new)
    BY EffectOfCreate
  <1>2. new.event_type = "RUN_CREATED" /\ new.payload = RunRow(q)
    BY DEF EventRow, EventType, PayloadOf
  <1>3. RunRow(q).run_id = q.run_id
    BY DEF RunRow
  <1>4. d.events \in Seq(EventRows)
    BY DEF Databases
  <1>5. ~Reviewed(d, q.run_id)
    BY DEF Bound, Reviewed, WellFormed, OnePacket, RunRow
  <1> HIDE DEF e, new
  <1>6. OnePacket(e)
    BY <1>1, <1>3 DEF WellFormed, OnePacket, Bound
  <1>7. OneChallengePerNonce(e) /\ OneLive(e) /\ ChallengesAgreeWithReviews(e)
        /\ \A ch \in e.challenges : LegalWindow(ch)
    BY <1>1 DEF WellFormed, OneChallengePerNonce, OneLive, ChallengesAgreeWithReviews
  <1>8. VerifyLedger(e.events)
    BY <1>1, <1>4, VerifyAppend DEF WellFormed, new
  <1>9. LedgerAgreesWithTables(e)
    <2>1. RunRow(q) \notin d.runs
      BY <1>3 DEF Bound
    <2>2. \A type : Recorded(e.events, type) = Recorded(d.events, type)
             \union (IF new.event_type = type THEN {new.payload} ELSE {})
      BY <1>1, <1>4, RecordedAppend
    <2>3. new.payload \notin Recorded(d.events, new.event_type)
      BY <1>2, <2>1 DEF WellFormed, LedgerAgreesWithTables
    <2>4. NoEventTwice(e.events)
      BY <1>1, <1>4, <2>3, DistinctAppend DEF WellFormed, LedgerAgreesWithTables
    <2> QED
      BY <1>1, <1>2, <2>2, <2>4 DEF WellFormed, LedgerAgreesWithTables
  <1>10. LatestChallengeCounts(e)
    <2>1. ASSUME NEW ch \in e.challenges PROVE ~ch.superseded <=> IssuedLast(e.events, ch)
      <3>1. ~ch.superseded <=> IssuedLast(d.events, ch)
        BY <1>1, <2>1 DEF WellFormed, LatestChallengeCounts
      <3> QED
        BY <1>1, <1>2, <1>4, <3>1, IssuedLastAppend
    <2> QED
      BY <2>1 DEF LatestChallengeCounts
  <1>11. ReviewIsLast(e.events)
    <2>1. \A p \in Recorded(d.events, "REVIEW_RECORDED") : p.run_id # new.payload.run_id
      BY <1>2, <1>3, <1>5, UnreviewedInLedger DEF WellFormed
    <2> QED
      BY <1>1, <1>4, <2>1, ReviewIsLastAppend DEF WellFormed
  <1> QED
    BY <1>6, <1>7, <1>8, <1>9, <1>10, <1>11 DEF WellFormed, e

LEMMA IssueKeepsWellFormed ==
    ASSUME NEW d \in Databases, WellFormed(d),
           NEW q \in Requests, q.op = "issue_challenge", Issuable(d, q), ~NonceTaken(d, q)
    PROVE  WellFormed(Effect(d, q))
  <1> DEFINE e == Effect(d, q)
             new == EventRow(d.events, q)
             row == ChallengeRow(q)
  <1>1. /\ e.runs = d.runs
        /\ e.challenges = {SupersedeRow(c, q) : c \in d.challenges} \union {row}
        /\ e.reviews = d.reviews /\ e.events = Append(d.events, new)
    BY EffectOfIssue
  <1>2. new.event_type = "CHALLENGE_ISSUED" /\ new.payload = ChallengeFact(row)
    BY DEF EventRow, EventType, PayloadOf
  <1>3. /\ row.run_id = q.run_id /\ row.nonce = q.nonce /\ row.consumed_at = Null
        /\ ~row.superseded /\ RunRow(row) = RunRow(q) /\ LegalWindow(row)
        /\ ChallengeFact(row).run_id = q.run_id /\ ChallengeFact(row).nonce = q.nonce
    BY ChallengeRowType, RequestKinds DEF ChallengeRow, RunRow, ChallengeFact
  <1>4. d.events \in Seq(EventRows) /\ d.challenges \subseteq ChallengeRows
    BY DEF Databases
  <1>5. ~Reviewed(d, q.run_id) /\ RunRow(q) \in d.runs
    BY DEF Issuable, BoundToDigest
  \* What superseding changes of a row, and what it leaves alone.
  <1>6. \A c \in ChallengeRows :
           LET s == SupersedeRow(c, q) IN
           /\ s.nonce = c.nonce /\ s.run_id = c.run_id
           /\ s.decision_digest = c.decision_digest /\ s.issued_at = c.issued_at
           /\ s.expires_at = c.expires_at /\ s.consumed_at = c.consumed_at
           /\ c.superseded => s.superseded
           /\ c.run_id = q.run_id => ~Live(s)
           /\ c.run_id # q.run_id => s = c
           /\ ~s.superseded => s = c
           /\ c.consumed_at # Null => s = c
           /\ RunRow(s) = RunRow(c) /\ ChallengeFact(s) = ChallengeFact(c)
    BY DEF SupersedeRow, ChallengeRows, Live, RunRow, ChallengeFact
  <1> HIDE DEF e, new, row
  <1>7. OnePacket(e)
    BY <1>1, <1>3, <1>4, <1>5, <1>6 DEF WellFormed, OnePacket
  <1>8. OneChallengePerNonce(e)
    <2>1. \A c \in d.challenges : c.nonce # q.nonce
      BY DEF NonceTaken
    <2> QED
      BY <1>1, <1>3, <1>4, <1>6, <2>1 DEF WellFormed, OneChallengePerNonce
  <1>9. OneLive(e)
    <2>1. \A s \in e.challenges : Live(s) => s = row \/ (s \in d.challenges /\ s.run_id # q.run_id)
      BY <1>1, <1>4, <1>6 DEF Live
    <2> QED
      BY <1>3, <2>1 DEF WellFormed, OneLive
  <1>10. \A ch \in e.challenges : LegalWindow(ch)
    BY <1>1, <1>3, <1>4, <1>6 DEF WellFormed, LegalWindow
  <1>11. ChallengesAgreeWithReviews(e)
    <2>1. ASSUME NEW v \in e.reviews PROVE \E ch \in e.challenges : Redeems(v, ch)
      <3>1. PICK ch \in d.challenges : Redeems(v, ch)
        BY <1>1, <2>1 DEF WellFormed, ChallengesAgreeWithReviews
      <3>2. ch.run_id # q.run_id
        BY <1>1, <1>5, <3>1 DEF Redeems, Reviewed
      <3>3. SupersedeRow(ch, q) = ch /\ SupersedeRow(ch, q) \in e.challenges
        BY <1>1, <1>4, <1>6, <3>2
      <3> QED
        BY <3>1, <3>3
    <2>2. ASSUME NEW ch \in e.challenges, ch.consumed_at # Null
          PROVE  \E v \in e.reviews : v.nonce = ch.nonce /\ v.run_id = ch.run_id
      BY <1>1, <1>3, <1>4, <1>6, <2>2 DEF WellFormed, ChallengesAgreeWithReviews
    <2>3. ASSUME NEW v \in e.reviews, NEW ch \in e.challenges, v.run_id = ch.run_id
          PROVE  ~Live(ch)
      <3>1. ch # row
        BY <1>1, <1>3, <1>5, <2>3 DEF Reviewed
      <3>2. PICK c \in d.challenges : ch = SupersedeRow(c, q)
        BY <1>1, <3>1
      <3>3. ~Live(c)
        BY <1>1, <1>4, <1>6, <2>3, <3>2 DEF WellFormed, ChallengesAgreeWithReviews
      <3> QED
        BY <1>4, <1>6, <3>2, <3>3 DEF Live
    <2> QED
      BY <2>1, <2>2, <2>3 DEF ChallengesAgreeWithReviews
  <1>12. VerifyLedger(e.events)
    BY <1>1, <1>4, VerifyAppend DEF WellFormed, new
  <1>13. LedgerAgreesWithTables(e)
    <2>1. ChallengeFact(row) \notin {ChallengeFact(c) : c \in d.challenges}
      <3>1. \A c \in d.challenges : ChallengeFact(c).nonce # q.nonce
        BY DEF NonceTaken, ChallengeFact
      <3> QED
        BY <1>3, <3>1
    <2>2. \A type : Recorded(e.events, type) = Recorded(d.events, type)
             \union (IF new.event_type = type THEN {new.payload} ELSE {})
      BY <1>1, <1>4, RecordedAppend
    <2>3. new.payload \notin Recorded(d.events, new.event_type)
      BY <1>2, <2>1 DEF WellFormed, LedgerAgreesWithTables
    <2>4. NoEventTwice(e.events)
      BY <1>1, <1>4, <2>3, DistinctAppend DEF WellFormed, LedgerAgreesWithTables
    <2>5. {ChallengeFact(c) : c \in e.challenges}
            = {ChallengeFact(c) : c \in d.challenges} \union {ChallengeFact(row)}
      BY <1>1, <1>4, <1>6
    <2>6. Recorded(e.events, "RUN_CREATED") = e.runs
      <3>1. Recorded(e.events, "RUN_CREATED") = Recorded(d.events, "RUN_CREATED") \union {}
        BY <1>2, <2>2
      <3>2. Recorded(d.events, "RUN_CREATED") = d.runs
        BY DEF WellFormed, LedgerAgreesWithTables
      <3> QED
        BY <1>1, <3>1, <3>2
    <2>7. Recorded(e.events, "CHALLENGE_ISSUED") = {ChallengeFact(c) : c \in e.challenges}
      BY <1>2, <2>2, <2>5 DEF WellFormed, LedgerAgreesWithTables
    <2>8. Recorded(e.events, "REVIEW_RECORDED") = {ReviewFact(v) : v \in e.reviews}
      BY <1>1, <1>2, <2>2 DEF WellFormed, LedgerAgreesWithTables
    <2> QED
      BY <2>4, <2>6, <2>7, <2>8 DEF LedgerAgreesWithTables
  <1>14. LatestChallengeCounts(e)
    <2>1. ASSUME NEW ch \in e.challenges PROVE ~ch.superseded <=> IssuedLast(e.events, ch)
      <3>1. CASE ch = row
        BY <1>1, <1>2, <1>3, <1>4, <3>1, IssuedLastNew
      <3>2. CASE ch # row
        <4>1. PICK c \in d.challenges : ch = SupersedeRow(c, q)
          BY <1>1, <3>2
        <4>2. ~c.superseded <=> IssuedLast(d.events, c)
          BY <4>1 DEF WellFormed, LatestChallengeCounts
        <4>3. CASE c.run_id = q.run_id
          \* Every earlier challenge of the run is superseded: none is consumed,
          \* for the run has no review.
          <5>1. c.consumed_at = Null
            BY <1>5, <4>3 DEF WellFormed, ChallengesAgreeWithReviews, Reviewed
          <5>2. ch.consumed_at = Null /\ ~Live(ch) /\ ch.run_id = q.run_id
                /\ ch.nonce = c.nonce
            BY <1>4, <1>6, <4>1, <4>3, <5>1
          <5>3. ch.superseded \in BOOLEAN /\ ch.superseded
            BY <1>4, <4>1, <5>2 DEF Live, SupersedeRow, ChallengeRows
          <5>4. ChallengeFact(row) # ChallengeFact(ch)
            BY <1>3, <4>1, <5>2 DEF NonceTaken, ChallengeFact
          <5>5. ~IssuedLast(e.events, ch)
            BY <1>1, <1>2, <1>3, <1>4, <5>2, <5>4, IssuedLastReplaced
          <5> QED
            BY <5>3, <5>5
        <4>4. CASE c.run_id # q.run_id
          <5>1. ch = c
            BY <1>4, <1>6, <4>1, <4>4
          <5>2. IssuedLast(e.events, c) <=> IssuedLast(d.events, c)
            BY <1>1, <1>2, <1>3, <1>4, <4>4, IssuedLastAppend
          <5> QED
            BY <4>2, <5>1, <5>2
        <4> QED
          BY <4>3, <4>4
      <3> QED
        BY <3>1, <3>2
    <2> QED
      BY <2>1 DEF LatestChallengeCounts
  <1>15. ReviewIsLast(e.events)
    <2>1. \A p \in Recorded(d.events, "REVIEW_RECORDED") : p.run_id # new.payload.run_id
      BY <1>2, <1>3, <1>5, UnreviewedInLedger DEF WellFormed
    <2> QED
      BY <1>1, <1>4, <2>1, ReviewIsLastAppend DEF WellFormed
  <1> QED
    BY <1>7, <1>8, <1>9, <1>10, <1>11, <1>12, <1>13, <1>14, <1>15 DEF WellFormed, e

LEMMA ReviewKeepsWellFormed ==
    ASSUME NEW d \in Databases, WellFormed(d),
           NEW q \in Requests, q.op = "record_review", Reviewable(d, q),
           \A ch \in d.challenges : ch.nonce = q.nonce => ch.issued_at <= q.now
    PROVE  WellFormed(Effect(d, q))
  <1> DEFINE e == Effect(d, q)
             new == EventRow(d.events, q)
             row == ReviewRow(q)
  <1>1. /\ e.runs = d.runs
        /\ e.challenges = {ConsumeRow(c, q) : c \in d.challenges}
        /\ e.reviews = d.reviews \union {row} /\ e.events = Append(d.events, new)
    BY EffectOfReview
  <1>2. new.event_type = "REVIEW_RECORDED" /\ new.payload = ReviewFact(row)
    BY DEF EventRow, EventType, PayloadOf
  <1>3. /\ row.run_id = q.run_id /\ row.nonce = q.nonce /\ row.reviewed_at = q.now
        /\ row.decision_digest = q.decision_digest
        /\ RunRow(row) = RunRow(q) /\ ReviewFact(row).run_id = q.run_id
    BY DEF ReviewRow, RunRow, ReviewFact
  <1>4. d.events \in Seq(EventRows) /\ d.challenges \subseteq ChallengeRows
        /\ q.now \in Nat /\ q.now # Null
    BY RequestKinds, NullAssumption DEF Databases, ReviewRequests
  <1>5. ~Reviewed(d, q.run_id) /\ RunRow(q) \in d.runs
    BY DEF Reviewable, BoundToDigest
  <1>6. PICK used \in d.challenges : used.nonce = q.nonce /\ Redeemable(used, q)
    BY DEF Reviewable
  <1>7. \A c \in d.challenges : c.nonce = q.nonce => c = used
    BY <1>6 DEF WellFormed, OneChallengePerNonce
  \* What consuming changes of a row, and what it leaves alone.
  <1>8. \A c \in ChallengeRows :
           LET s == ConsumeRow(c, q) IN
           /\ s.nonce = c.nonce /\ s.run_id = c.run_id
           /\ s.decision_digest = c.decision_digest /\ s.issued_at = c.issued_at
           /\ s.expires_at = c.expires_at /\ s.superseded = c.superseded
           /\ c.nonce = q.nonce => s.consumed_at = q.now /\ ~Live(s)
           /\ c.nonce # q.nonce => s = c
           /\ RunRow(s) = RunRow(c) /\ ChallengeFact(s) = ChallengeFact(c)
    BY <1>4 DEF ConsumeRow, ChallengeRows, Live, RunRow, ChallengeFact
  <1> HIDE DEF e, new, row
  <1>9. OnePacket(e)
    BY <1>1, <1>3, <1>4, <1>5, <1>8 DEF WellFormed, OnePacket, Reviewed
  <1>10. OneChallengePerNonce(e)
    BY <1>1, <1>4, <1>8 DEF WellFormed, OneChallengePerNonce
  <1>11. OneLive(e)
    <2>1. \A s \in e.challenges : Live(s) => s \in d.challenges
      BY <1>1, <1>4, <1>8
    <2> QED
      BY <2>1 DEF WellFormed, OneLive
  <1>12. \A ch \in e.challenges : LegalWindow(ch)
    BY <1>1, <1>4, <1>8 DEF WellFormed, LegalWindow
  <1>13. ChallengesAgreeWithReviews(e)
    <2>1. ASSUME NEW v \in e.reviews PROVE \E ch \in e.challenges : Redeems(v, ch)
      <3>1. CASE v = row
        <4>1. Redeems(row, ConsumeRow(used, q))
          BY <1>3, <1>4, <1>6, <1>8 DEF Redeems, Redeemable
        <4> QED
          BY <1>1, <3>1, <4>1
      <3>2. CASE v # row
        <4>1. v \in d.reviews
          BY <1>1, <3>2
        <4>2. PICK ch \in d.challenges : Redeems(v, ch)
          BY <4>1 DEF WellFormed, ChallengesAgreeWithReviews
        <4>3. ch.nonce # q.nonce
          BY <1>5, <1>6, <1>7, <4>1, <4>2 DEF Redeems, Redeemable, Reviewed
        <4> QED
          BY <1>1, <1>4, <1>8, <4>2, <4>3
      <3> QED
        BY <3>1, <3>2
    <2>2. ASSUME NEW ch \in e.challenges, ch.consumed_at # Null
          PROVE  \E v \in e.reviews : v.nonce = ch.nonce /\ v.run_id = ch.run_id
      <3>1. PICK c \in d.challenges : ch = ConsumeRow(c, q)
        BY <1>1
      <3>2. CASE c.nonce = q.nonce
        BY <1>1, <1>3, <1>4, <1>6, <1>7, <1>8, <3>1, <3>2 DEF Redeemable
      <3>3. CASE c.nonce # q.nonce
        BY <1>1, <1>4, <1>8, <2>2, <3>1, <3>3 DEF WellFormed, ChallengesAgreeWithReviews
      <3> QED
        BY <3>2, <3>3
    <2>3. ASSUME NEW v \in e.reviews, NEW ch \in e.challenges, v.run_id = ch.run_id, Live(ch)
          PROVE  FALSE
      <3>1. PICK c \in d.challenges : ch = ConsumeRow(c, q)
        BY <1>1
      <3>2. ch = c /\ c.nonce # q.nonce
        BY <1>4, <1>8, <2>3, <3>1
      <3>3. CASE v = row
        <4>1. c.run_id = used.run_id /\ Live(used) /\ Live(c)
          BY <1>3, <1>6, <2>3, <3>2, <3>3 DEF Redeemable, Live
        <4>2. c = used
          BY <4>1 DEF WellFormed, OneLive
        <4> QED
          BY <1>6, <3>2, <4>2
      <3>4. CASE v # row
        BY <1>1, <2>3, <3>2, <3>4 DEF WellFormed, ChallengesAgreeWithReviews
      <3> QED
        BY <3>3, <3>4
    <2> QED
      BY <2>1, <2>2, <2>3 DEF ChallengesAgreeWithReviews
  <1>14. VerifyLedger(e.events)
    BY <1>1, <1>4, VerifyAppend DEF WellFormed, new
  <1>15. \A p \in Recorded(d.events, "REVIEW_RECORDED") : p.run_id # q.run_id
    BY <1>5, UnreviewedInLedger DEF WellFormed
  <1>16. LedgerAgreesWithTables(e)
    <2>1. \A type : Recorded(e.events, type) = Recorded(d.events, type)
             \union (IF new.event_type = type THEN {new.payload} ELSE {})
      BY <1>1, <1>4, RecordedAppend
    <2>2. new.payload \notin Recorded(d.events, new.event_type)
      BY <1>2, <1>3, <1>15
    <2>3. NoEventTwice(e.events)
      BY <1>1, <1>4, <2>2, DistinctAppend DEF WellFormed, LedgerAgreesWithTables
    <2>4. {ChallengeFact(c) : c \in e.challenges} = {ChallengeFact(c) : c \in d.challenges}
      BY <1>1, <1>4, <1>8
    <2>5. Recorded(e.events, "RUN_CREATED") = e.runs
      <3>1. Recorded(e.events, "RUN_CREATED") = Recorded(d.events, "RUN_CREATED") \union {}
        BY <1>2, <2>1
      <3>2. Recorded(d.events, "RUN_CREATED") = d.runs
        BY DEF WellFormed, LedgerAgreesWithTables
      <3> QED
        BY <1>1, <3>1, <3>2
    <2>6. Recorded(e.events, "CHALLENGE_ISSUED") = {ChallengeFact(c) : c \in e.challenges}
      BY <1>2, <2>1, <2>4 DEF WellFormed, LedgerAgreesWithTables
    <2>7. Recorded(e.events, "REVIEW_RECORDED") = {ReviewFact(v) : v \in e.reviews}
      <3>1. {ReviewFact(v) : v \in e.reviews}
              = {ReviewFact(v) : v \in d.reviews} \union {ReviewFact(row)}
        BY <1>1
      <3> QED
        BY <1>2, <2>1, <3>1 DEF WellFormed, LedgerAgreesWithTables
    <2> QED
      BY <2>3, <2>5, <2>6, <2>7 DEF LedgerAgreesWithTables
  <1>17. LatestChallengeCounts(e)
    <2>1. ASSUME NEW ch \in e.challenges PROVE ~ch.superseded <=> IssuedLast(e.events, ch)
      <3>1. PICK c \in d.challenges : ch = ConsumeRow(c, q)
        BY <1>1
      <3>2. ~c.superseded <=> IssuedLast(d.events, c)
        BY <3>1 DEF WellFormed, LatestChallengeCounts
      <3>3. IssuedLast(e.events, ch) <=> IssuedLast(d.events, ch)
        BY <1>1, <1>2, <1>4, IssuedLastAppend
      <3>4. /\ ch.superseded = c.superseded /\ ch.run_id = c.run_id
            /\ ChallengeFact(ch) = ChallengeFact(c)
        BY <1>4, <1>8, <3>1
      <3>5. IssuedLast(d.events, ch) <=> IssuedLast(d.events, c)
        BY <3>4 DEF IssuedLast
      <3> QED
        BY <3>2, <3>3, <3>4, <3>5
    <2> QED
      BY <2>1 DEF LatestChallengeCounts
  <1>18. ReviewIsLast(e.events)
    BY <1>1, <1>2, <1>3, <1>4, <1>15, ReviewIsLastAppend DEF WellFormed
  <1> QED
    BY <1>9, <1>10, <1>11, <1>12, <1>13, <1>14, <1>16, <1>17, <1>18 DEF WellFormed, e

-----------------------------------------------------------------------------
(* A hash of the ledger determines the history before it *)

\* A set of natural numbers that is not empty has a least element: the proofs
\* below take a least counterexample.
LEMMA LeastNatural ==
    ASSUME NEW T \in SUBSET Nat, T # {}
    PROVE  \E n \in T : \A m \in T : n <= m
  <1> DEFINE Below == {0..n : n \in T}
  <1>1. IsWellFoundedOn(StrictSubsetOrdering(Nat), FiniteSubsetsOf(Nat))
    BY FS_StrictSubsetOrderingWellFounded
  <1>2. Below \subseteq FiniteSubsetsOf(Nat)
    <2>1. ASSUME NEW n \in T PROVE 0..n \in FiniteSubsetsOf(Nat)
      <3>1. IsFiniteSet(0..n)
        BY FS_Interval
      <3> QED
        BY <3>1 DEF FiniteSubsetsOf
    <2> QED
      BY <2>1
  <1>3. Below # {}
    OBVIOUS
  <1> HIDE DEF Below
  <1>4. PICK X \in Below : \A Y \in Below : ~(<<Y, X>> \in StrictSubsetOrdering(Nat))
    BY <1>1, <1>2, <1>3, WFMin
  <1>5. PICK n \in T : X = 0..n
    BY <1>4 DEF Below
  <1>6. ASSUME NEW m \in T, m < n PROVE FALSE
    <2>1. 0..m \in Below /\ 0..m \in SUBSET Nat /\ X \in SUBSET Nat
      BY <1>5 DEF Below
    <2>2. 0..m \subseteq 0..n /\ n \in 0..n /\ n \notin 0..m
      BY <1>6
    <2>3. 0..m \subseteq X /\ X # 0..m
      BY <1>5, <2>2
    <2> QED
      BY <1>4, <2>1, <2>3 DEF StrictSubsetOrdering
  <1> QED
    BY <1>6

\* The hash of an event of a verified ledger extends that of the event before.
LEMMA VerifiedStep ==
    ASSUME NEW events \in Seq(EventRows), VerifyLedger(events), NEW i \in DOMAIN events
    PROVE  /\ events[i] \in EventRows
           /\ events[i].event_hash = Append(events[i].previous_hash,
                                           <<events[i].event_type, events[i].payload>>)
           /\ events[i].previous_hash = IF i = 1 THEN <<>> ELSE events[i-1].event_hash
           /\ events[i].previous_hash \in Hashes
  <1>1. events[i] \in EventRows
    OBVIOUS
  <1>2. events[i].previous_hash \in Hashes
    BY <1>1 DEF EventRows
  <1>3. events[i].event_hash =
          Append(events[i].previous_hash, <<events[i].event_type, events[i].payload>>)
    BY DEF VerifyLedger, EventHash
  <1>4. events[i].previous_hash = IF i = 1 THEN <<>> ELSE events[i-1].event_hash
    BY DEF VerifyLedger, Genesis
  <1> QED
    BY <1>1, <1>2, <1>3, <1>4

\* A hash determines what was hashed: verified events with one hash are equal.
LEMMA OneHashOneEvent ==
    ASSUME NEW a \in EventRows, NEW b \in EventRows,
           a.event_hash = Append(a.previous_hash, <<a.event_type, a.payload>>),
           b.event_hash = Append(b.previous_hash, <<b.event_type, b.payload>>),
           a.event_hash = b.event_hash
    PROVE  a = b
  <1> DEFINE x == <<a.event_type, a.payload>>
             y == <<b.event_type, b.payload>>
             S == EventTypes \X Payloads
             p == a.previous_hash
             q == b.previous_hash
  <1>1. p \in Seq(S) /\ q \in Seq(S) /\ x \in S /\ y \in S
    BY DEF EventRows, Hashes
  <1>2. Append(p, x) = Append(q, y)
    OBVIOUS
  <1> HIDE DEF S, x, y, p, q
  <1>3. p = q /\ x = y
    BY ONLY <1>1, <1>2, AppendInjective
  <1>4. a.event_type = b.event_type /\ a.payload = b.payload
    BY <1>3 DEF x, y
  <1> QED
    BY <1>3, <1>4 DEF EventRows, p, q

\* The i-th hash is made of i events.
LEMMA HashCountsEvents ==
    ASSUME NEW events \in Seq(EventRows), VerifyLedger(events)
    PROVE  \A i \in DOMAIN events : Len(events[i].event_hash) = i
  <1> DEFINE Wrong == {i \in DOMAIN events : Len(events[i].event_hash) # i}
  <1>1. SUFFICES ASSUME Wrong # {} PROVE FALSE
    OBVIOUS
  <1>2. Wrong \subseteq Nat /\ DOMAIN events = 1..Len(events) /\ Len(events) \in Nat
    OBVIOUS
  <1>3. PICK i \in Wrong : \A j \in Wrong : i <= j
    BY <1>1, <1>2, LeastNatural
  <1>4. i \in DOMAIN events /\ i \in 1..Len(events) /\ Len(events[i].event_hash) # i
    BY <1>2, <1>3
  <1>5. Len(events[i].previous_hash) = i - 1
    <2>1. CASE i = 1
      BY <1>4, <2>1, VerifiedStep
    <2>2. CASE i # 1
      <3>1. i - 1 \in DOMAIN events /\ i - 1 \notin Wrong
        BY <1>2, <1>3, <1>4, <2>2
      <3> QED
        BY <1>4, <2>2, <3>1, VerifiedStep
    <2> QED
      BY <2>1, <2>2
  <1>6. Len(events[i].event_hash) = Len(events[i].previous_hash) + 1
    BY <1>4, VerifiedStep DEF Hashes
  <1> QED
    BY <1>4, <1>5, <1>6

\* Two verified ledgers that hold one hash agree up to there: an event, its
\* place and everything before it follow from its hash.
LEMMA OneHashOneHistory ==
    ASSUME NEW s \in Seq(EventRows), VerifyLedger(s), NEW i \in DOMAIN s,
           NEW t \in Seq(EventRows), VerifyLedger(t), NEW j \in DOMAIN t,
           s[i].event_hash = t[j].event_hash
    PROVE  i = j /\ \A k \in 1..i : s[k] = t[k]
  <1>1. i = j
    BY HashCountsEvents
  <1>2. /\ DOMAIN s = 1..Len(s) /\ Len(s) \in Nat /\ i \in 1..Len(s)
        /\ DOMAIN t = 1..Len(t) /\ Len(t) \in Nat /\ i \in 1..Len(t)
    BY <1>1
  \* Wrong is the set of distances from i at which the hashes differ.
  <1> DEFINE Wrong == {k \in 0..i-1 : s[i-k].event_hash # t[i-k].event_hash}
  <1>3. Wrong = {}
    <2>1. SUFFICES ASSUME Wrong # {} PROVE FALSE
      OBVIOUS
    <2>2. Wrong \subseteq Nat
      OBVIOUS
    <2>3. PICK k \in Wrong : \A m \in Wrong : k <= m
      BY <2>1, <2>2, LeastNatural
    <2>4. k # 0 /\ k \in 1..i-1
      BY <1>1, <1>2, <2>3
    <2>5. k - 1 \notin Wrong /\ k - 1 \in 0..i-1
      BY <1>2, <2>3, <2>4
    <2> DEFINE n == i - (k - 1)
    <2>6. /\ n \in DOMAIN s /\ n \in DOMAIN t /\ n # 1 /\ n - 1 = i - k
          /\ s[n].event_hash = t[n].event_hash
      BY <1>2, <2>4, <2>5
    <2> HIDE DEF n
    <2>7. s[n].previous_hash = t[n].previous_hash
      BY <2>6, VerifiedStep, OneHashOneEvent
    <2>8. s[n-1].event_hash = t[n-1].event_hash
      BY <2>6, <2>7, VerifiedStep
    <2> QED
      BY <2>3, <2>6, <2>8
  <1>4. ASSUME NEW k \in 1..i PROVE s[k] = t[k]
    <2>1. k \in DOMAIN s /\ k \in DOMAIN t /\ i - k \in 0..i-1 /\ i - (i - k) = k
      BY <1>2
    <2>2. s[k].event_hash = t[k].event_hash
      BY <1>3, <2>1
    <2> QED
      BY <2>1, <2>2, VerifiedStep, OneHashOneEvent
  <1> QED
    BY <1>1, <1>4

\* The last hash of a ledger that verify_ledger accepts determines the ledger.
THEOREM HeadFixesTheEvents ==
    ASSUME NEW s \in Seq(EventRows), VerifyLedger(s),
           NEW t \in Seq(EventRows), VerifyLedger(t),
           LastHash(s) = LastHash(t)
    PROVE  s = t
  <1>1. ASSUME NEW u \in Seq(EventRows), VerifyLedger(u)
        PROVE  Len(LastHash(u)) = Len(u) /\ (u # <<>> => Len(u) \in DOMAIN u)
    <2>1. CASE u = <<>>
      BY <2>1 DEF LastHash, Genesis
    <2>2. CASE u # <<>>
      <3>1. Len(u) \in DOMAIN u
        BY <2>2
      <3> QED
        BY <1>1, <2>2, <3>1, HashCountsEvents DEF LastHash
    <2> QED
      BY <2>1, <2>2
  <1>2. Len(s) = Len(t)
    BY <1>1
  <1>3. CASE s = <<>>
    BY <1>2, <1>3
  <1>4. CASE s # <<>>
    <2>1. t # <<>> /\ Len(s) \in DOMAIN s /\ Len(t) \in DOMAIN t
      BY <1>1, <1>2, <1>4
    <2>2. s[Len(s)].event_hash = t[Len(t)].event_hash
      BY <1>4, <2>1 DEF LastHash
    <2>3. \A k \in 1..Len(s) : s[k] = t[k]
      BY <2>1, <2>2, OneHashOneHistory
    <2> QED
      BY <1>2, <2>3
  <1> QED
    BY <1>3, <1>4

\* Altered ledgers are ledgers.
LEMMA AlterationsAreLedgers ==
    ASSUME NEW events \in Seq(EventRows)
    PROVE  Alterations(events) \subseteq Seq(EventRows)
  <1> DEFINE n == Len(events)
             exchanged(i) == [events EXCEPT ![i] = events[i+1], ![i+1] = events[i]]
             without(i)   == SubSeq(events, 1, i - 1) \o SubSeq(events, i + 1, Len(events))
  <1>1. n \in Nat /\ DOMAIN events = 1..n /\ \A i \in 1..n : events[i] \in EventRows
    OBVIOUS
  <1>2. ASSUME NEW rows \in Seq(EventRows) PROVE Relink(rows) \in Seq(EventRows)
    <2>1. Len(rows) \in Nat /\ DOMAIN rows = 1..Len(rows)
          /\ \A i \in 1..Len(rows) : rows[i] \in EventRows
      OBVIOUS
    <2>2. ASSUME NEW i \in 1..Len(rows)
          PROVE  [rows[i] EXCEPT !.previous_hash =
                    IF i = 1 THEN Genesis ELSE rows[i-1].event_hash] \in EventRows
      <3>1. CASE i = 1
        <4>1. Genesis \in Hashes
          BY DEF Genesis, Hashes
        <4> QED
          BY <2>1, <3>1, <4>1 DEF EventRows
      <3>2. CASE i # 1
        <4>1. i - 1 \in 1..Len(rows)
          BY <2>1, <3>2
        <4>2. rows[i-1].event_hash \in Hashes
          BY <2>1, <4>1 DEF EventRows
        <4> QED
          BY <2>1, <3>2, <4>2 DEF EventRows
      <3> QED
        BY <3>1, <3>2
    <2>3. Relink(rows) \in [1..Len(rows) -> EventRows]
      BY <2>1, <2>2 DEF Relink
    <2> QED
      BY <2>1, <2>3, SeqDef
  <1>3. ASSUME NEW i \in DOMAIN events, NEW j \in DOMAIN events
        PROVE  [events EXCEPT ![i].payload = events[j].payload] \in Seq(EventRows)
    <2>1. [events[i] EXCEPT !.payload = events[j].payload] \in EventRows
      BY <1>1, <1>3 DEF EventRows
    <2> QED
      BY <1>1, <2>1
  <1>4. ASSUME NEW i \in 1..n-1 PROVE exchanged(i) \in Seq(EventRows)
    BY <1>1
  <1>5. ASSUME NEW i \in DOMAIN events PROVE without(i) \in Seq(EventRows)
    BY <1>1
  <1> HIDE DEF exchanged, without, n
  <1>6. \A i \in 1..n-1 : Relink(exchanged(i)) \in Seq(EventRows)
    BY <1>2, <1>4
  <1>7. \A i \in DOMAIN events : Relink(without(i)) \in Seq(EventRows)
    BY <1>2, <1>5
  <1>8. ASSUME NEW a \in Alterations(events)
        PROVE  \/ \E i, j \in DOMAIN events : a = [events EXCEPT ![i].payload = events[j].payload]
               \/ \E i \in 1..n-1 : a = Relink(exchanged(i))
               \/ \E i \in DOMAIN events : a = Relink(without(i))
    BY <1>8 DEF Alterations, exchanged, without, n
  <1> QED
    BY <1>3, <1>6, <1>7, <1>8

-----------------------------------------------------------------------------
(* The tables can be rebuilt from the ledger *)

\* The fact of a challenge stands for it in the ledger.
LEMMA FactsOfFacts ==
    ASSUME NEW ch, NEW events
    PROVE  /\ ChallengeFact(ChallengeFact(ch)) = ChallengeFact(ch)
           /\ ChallengeFact(ch).run_id = ch.run_id /\ ChallengeFact(ch).nonce = ch.nonce
           /\ IssuedLast(events, ChallengeFact(ch)) <=> IssuedLast(events, ch)
  <1>1. /\ ChallengeFact(ChallengeFact(ch)) = ChallengeFact(ch)
        /\ ChallengeFact(ch).run_id = ch.run_id /\ ChallengeFact(ch).nonce = ch.nonce
    BY DEF ChallengeFact
  <1> QED
    BY <1>1 DEF IssuedLast

\* One challenge is the last of a run.
LEMMA IssuedLastUnique ==
    ASSUME NEW events \in Seq(EventRows), NEW a, NEW b, a.run_id = b.run_id,
           IssuedLast(events, a), IssuedLast(events, b)
    PROVE  ChallengeFact(a) = ChallengeFact(b)
  <1>1. DOMAIN events = 1..Len(events) /\ Len(events) \in Nat
    OBVIOUS
  <1>2. PICK i \in DOMAIN events :
           /\ events[i].event_type = "CHALLENGE_ISSUED" /\ events[i].payload = ChallengeFact(a)
           /\ \A j \in DOMAIN events : j > i /\ events[j].event_type = "CHALLENGE_ISSUED"
                 => events[j].payload.run_id # a.run_id
    BY DEF IssuedLast
  <1>3. PICK k \in DOMAIN events :
           /\ events[k].event_type = "CHALLENGE_ISSUED" /\ events[k].payload = ChallengeFact(b)
           /\ \A j \in DOMAIN events : j > k /\ events[j].event_type = "CHALLENGE_ISSUED"
                 => events[j].payload.run_id # b.run_id
    BY DEF IssuedLast
  <1>4. i = k
    <2>1. ChallengeFact(a).run_id = a.run_id /\ ChallengeFact(b).run_id = a.run_id
      BY FactsOfFacts
    <2>2. ~(k > i) /\ ~(i > k)
      BY <1>2, <1>3, <2>1
    <2> QED
      BY <1>1, <2>2
  <1> QED
    BY <1>2, <1>3, <1>4

\* In a well-formed database the challenge a review redeemed is the last of its run,
LEMMA ReviewedChallengeIsLast ==
    ASSUME NEW d \in Databases, WellFormed(d), NEW v \in d.reviews, NEW ch \in d.challenges,
           ch.run_id = v.run_id
    PROVE  Redeems(v, ch) <=> IssuedLast(d.events, ch)
  <1>1. PICK used \in d.challenges : Redeems(v, used)
    BY DEF WellFormed, ChallengesAgreeWithReviews
  <1>2. IssuedLast(d.events, used) /\ used.run_id = ch.run_id
    BY <1>1 DEF Redeems, WellFormed, LatestChallengeCounts
  <1>3. ASSUME Redeems(v, ch) PROVE IssuedLast(d.events, ch)
    BY <1>3 DEF Redeems, WellFormed, LatestChallengeCounts
  <1>4. ASSUME IssuedLast(d.events, ch) PROVE Redeems(v, ch)
    <2>1. ChallengeFact(ch) = ChallengeFact(used)
      BY <1>2, <1>4, IssuedLastUnique DEF Databases
    <2>2. ch.nonce = used.nonce
      BY <2>1, FactsOfFacts
    <2> QED
      BY <1>1, <2>2 DEF WellFormed, OneChallengePerNonce
  <1> QED
    BY <1>3, <1>4

\* and what the ledger records of the review of a run is this review.
LEMMA ReviewOfRun ==
    ASSUME NEW d \in Databases, WellFormed(d), NEW v \in d.reviews
    PROVE  ReviewOf(d.events, v.run_id) = ReviewFact(v)
  <1>1. ReviewFact(v) \in Recorded(d.events, "REVIEW_RECORDED")
        /\ ReviewFact(v).run_id = v.run_id
    BY DEF WellFormed, LedgerAgreesWithTables, ReviewFact
  <1>2. ASSUME NEW f \in Recorded(d.events, "REVIEW_RECORDED"), f.run_id = v.run_id
        PROVE  f = ReviewFact(v)
    <2>1. PICK w \in d.reviews : f = ReviewFact(w)
      BY DEF WellFormed, LedgerAgreesWithTables
    <2>2. w.run_id = v.run_id
      BY <1>2, <2>1 DEF ReviewFact
    <2> QED
      BY <2>1, <2>2 DEF WellFormed, OnePacket
  <1> QED
    BY <1>1, <1>2 DEF ReviewOf

\* The row of each challenge follows from its event and those after it.
LEMMA ChallengeReplays ==
    ASSUME NEW d \in Databases, WellFormed(d), NEW ch \in d.challenges
    PROVE  ReplayedChallenge(d.events, ChallengeFact(ch)) = ch
  <1> DEFINE f == ChallengeFact(ch)
             r == ReplayedChallenge(d.events, f)
             used == /\ IssuedLast(d.events, f)
                     /\ \E v \in Recorded(d.events, "REVIEW_RECORDED") : v.run_id = f.run_id
  <1>1. ch \in ChallengeRows /\ ch.superseded \in BOOLEAN
    BY DEF Databases, ChallengeRows
  <1>2. r = [nonce |-> ch.nonce, run_id |-> ch.run_id,
             decision_digest |-> ch.decision_digest,
             issued_at |-> ch.issued_at, expires_at |-> ch.expires_at,
             consumed_at |-> IF used THEN ReviewOf(d.events, ch.run_id).reviewed_at ELSE Null,
             superseded |-> ~IssuedLast(d.events, f)]
    BY DEF ReplayedChallenge, ChallengeFact
  <1>3. IssuedLast(d.events, f) <=> IssuedLast(d.events, ch)
    BY FactsOfFacts
  <1>4. (~IssuedLast(d.events, f)) = ch.superseded
    BY <1>1, <1>3 DEF WellFormed, LatestChallengeCounts
  <1>5. f.run_id = ch.run_id
    BY FactsOfFacts
  <1> HIDE DEF f, r
  <1>6. (IF used THEN ReviewOf(d.events, ch.run_id).reviewed_at ELSE Null) = ch.consumed_at
    <2>1. CASE used
      <3>1. PICK v \in d.reviews : ReviewFact(v).run_id = ch.run_id
        BY <1>5, <2>1 DEF WellFormed, LedgerAgreesWithTables
      <3>2. v.run_id = ch.run_id /\ ReviewFact(v).reviewed_at = v.reviewed_at
        BY <3>1 DEF ReviewFact
      <3>3. Redeems(v, ch)
        BY <1>3, <2>1, <3>2, ReviewedChallengeIsLast
      <3>4. ReviewOf(d.events, ch.run_id) = ReviewFact(v)
        BY <3>2, ReviewOfRun
      <3> QED
        BY <2>1, <3>2, <3>3, <3>4 DEF Redeems
    <2>2. CASE ~used
      <3>1. SUFFICES ASSUME ch.consumed_at # Null PROVE FALSE
        BY <2>2
      <3>2. PICK v \in d.reviews : v.nonce = ch.nonce /\ v.run_id = ch.run_id
        BY <3>1 DEF WellFormed, ChallengesAgreeWithReviews
      <3>3. PICK c \in d.challenges : Redeems(v, c)
        BY DEF WellFormed, ChallengesAgreeWithReviews
      <3>4. c = ch
        BY <3>2, <3>3 DEF Redeems, WellFormed, OneChallengePerNonce
      <3>5. IssuedLast(d.events, f)
        BY <1>3, <3>2, <3>3, <3>4, ReviewedChallengeIsLast
      <3>6. ReviewFact(v) \in Recorded(d.events, "REVIEW_RECORDED")
            /\ ReviewFact(v).run_id = ch.run_id
        BY <3>2 DEF WellFormed, LedgerAgreesWithTables, ReviewFact
      <3> QED
        BY <1>5, <2>2, <3>5, <3>6
    <2> QED
      BY <2>1, <2>2
  <1>7. r = ch
    BY <1>1, <1>2, <1>4, <1>6 DEF ChallengeRows
  <1> QED
    BY <1>7 DEF r, f

\* The row of each review follows from its event and the challenge before it.
LEMMA ReviewReplays ==
    ASSUME NEW d \in Databases, WellFormed(d), NEW v \in d.reviews
    PROVE  ReplayedReview(d.events, ReviewFact(v)) = v
  <1>1. PICK ch \in d.challenges : Redeems(v, ch)
    BY DEF WellFormed, ChallengesAgreeWithReviews
  <1>2. ch.run_id = v.run_id /\ ch.nonce = v.nonce
    BY <1>1 DEF Redeems
  <1>3. IssuedLast(d.events, ch)
    BY <1>1, <1>2, ReviewedChallengeIsLast
  <1> DEFINE f == ChallengeFact(ch)
  <1>4. f \in Recorded(d.events, "CHALLENGE_ISSUED") /\ f.run_id = v.run_id
        /\ IssuedLast(d.events, f) /\ f.nonce = v.nonce
    BY <1>2, <1>3, FactsOfFacts DEF WellFormed, LedgerAgreesWithTables
  <1>5. ASSUME NEW g \in Recorded(d.events, "CHALLENGE_ISSUED"), g.run_id = v.run_id,
               IssuedLast(d.events, g)
        PROVE  g = f
    <2>1. PICK c \in d.challenges : g = ChallengeFact(c)
      BY DEF WellFormed, LedgerAgreesWithTables
    <2>2. c.run_id = ch.run_id /\ IssuedLast(d.events, c)
      BY <1>2, <1>5, <2>1, FactsOfFacts
    <2> QED
      BY <1>3, <2>1, <2>2, IssuedLastUnique DEF Databases
  <1> HIDE DEF f
  <1>6. LastChallengeOf(d.events, v.run_id) = f
    BY <1>4, <1>5 DEF LastChallengeOf
  <1>7. v \in ReviewRows
    BY DEF Databases
  <1>8. ReplayedReview(d.events, ReviewFact(v)) =
          [run_id |-> v.run_id, decision_digest |-> v.decision_digest, nonce |-> v.nonce,
           reviewer |-> v.reviewer, action |-> v.action, reviewed_at |-> v.reviewed_at,
           state |-> v.state]
    BY <1>4, <1>6 DEF ReplayedReview, ReviewFact
  <1> QED
    BY <1>7, <1>8 DEF ReviewRows

\* The tables of a well-formed database are those its ledger replays to.
LEMMA TablesReplay ==
    ASSUME NEW d \in Databases, WellFormed(d)
    PROVE  Replay(d.events) = d
  <1>1. Recorded(d.events, "RUN_CREATED") = d.runs
    BY DEF WellFormed, LedgerAgreesWithTables
  <1>2. {ReplayedChallenge(d.events, f) : f \in Recorded(d.events, "CHALLENGE_ISSUED")}
          = d.challenges
    <2>1. Recorded(d.events, "CHALLENGE_ISSUED") = {ChallengeFact(ch) : ch \in d.challenges}
      BY DEF WellFormed, LedgerAgreesWithTables
    <2> QED
      BY <2>1, ChallengeReplays
  <1>3. {ReplayedReview(d.events, v) : v \in Recorded(d.events, "REVIEW_RECORDED")} = d.reviews
    <2>1. Recorded(d.events, "REVIEW_RECORDED") = {ReviewFact(v) : v \in d.reviews}
      BY DEF WellFormed, LedgerAgreesWithTables
    <2> QED
      BY <2>1, ReviewReplays
  <1> QED
    BY <1>1, <1>2, <1>3 DEF Replay, Databases

\* Two well-formed databases whose ledgers end in one hash are the same
\* database: the last event_hash stands for every row of every table.
THEOREM HeadFixesTheDatabase ==
    ASSUME NEW d \in Databases, WellFormed(d), NEW e \in Databases, WellFormed(e),
           LastHash(d.events) = LastHash(e.events)
    PROVE  d = e
  <1>1. d.events = e.events
    BY HeadFixesTheEvents DEF WellFormed, Databases
  <1> QED
    BY <1>1, TablesReplay
=============================================================================
