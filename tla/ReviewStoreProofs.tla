------------------------- MODULE ReviewStoreProofs --------------------------
(***************************************************************************)
(* Theorems about ReviewStore, for any number of clients, runs, packets,   *)
(* nonces and reviewers, any legal lifetimes and any bound on the clock.   *)
(*                                                                         *)
(* IInv is inductive: its conjunct StageInv says that the working copy is  *)
(* the committed database with the statements of one applicable request    *)
(* run on it, so that COMMIT publishes Effect(db, q), and the lemmas of    *)
(* ReviewTablesProofs say that Effect keeps a database well formed.        *)
(***************************************************************************)
EXTENDS ReviewStore, ReviewTablesProofs

USE NullAssumption DEF Stages, InTransaction

-----------------------------------------------------------------------------
(* The steps that leave the committed database alone *)

LEMMA InitIInv == Init => IInv
  <1> SUFFICES ASSUME Init PROVE IInv
    OBVIOUS
  <1> USE DEF Init
  <1>1. TypeOK
    BY EmptyWellFormed, TimeAssumption DEF TypeOK
  <1>2. LockInv
    BY ClientAssumption DEF LockInv
  <1>3. StageInv
    BY DEF StageInv, Stage
  <1>4. ClockInv
    BY DEF ClockInv, EmptyDatabase, NoCall, IssueRequests, ReviewRequests
  <1>5. WellFormed(db) /\ AnswersAreDurable
    BY EmptyWellFormed DEF AnswersAreDurable
  <1> QED
    BY <1>1, <1>2, <1>3, <1>4, <1>5 DEF IInv

\* NoCall is no request.
LEMMA NoCallIsNoRequest == NoCall \notin Requests
  BY DEF NoCall, Requests, CreateRequests, IssueRequests, ReviewRequests

\* A client inside a call has a request; one inside a transaction has the lock.
LEMMA Inside ==
    ASSUME IInv, NEW c \in Clients, pc[c] # "idle"
    PROVE  /\ call[c] \in Requests
           /\ pc[c] \in InTransaction <=> lock = c
           /\ Stage(c)
           /\ tx \in Databases /\ db \in Databases /\ WellFormed(db)
  BY DEF IInv, TypeOK, LockInv, StageInv

LEMMA StutterKeepsIInv == IInv /\ UNCHANGED vars => IInv'
  BY DEF IInv, vars, TypeOK, LockInv, StageInv, Stage, ClockInv, HeldNonces,
         WellFormed, AnswersAreDurable

LEMMA TickKeepsIInv == IInv /\ Tick => IInv'
  <1> SUFFICES ASSUME IInv, Tick PROVE IInv'
    OBVIOUS
  <1>1. TypeOK'
    BY TimeAssumption DEF IInv, TypeOK, Tick
  <1>2. LockInv' /\ StageInv' /\ AnswersAreDurable'
    BY DEF IInv, LockInv, StageInv, Stage, AnswersAreDurable, Tick
  <1>3. ClockInv'
    <2>1. db \in Databases /\ clock \in Nat /\ clock' = clock + 1
      BY TimeAssumption DEF IInv, TypeOK, Tick
    <2>2. \A ch \in db.challenges : ch.issued_at \in Nat
      BY <2>1 DEF Databases, ChallengeRows
    <2>3. \A c \in Clients : call[c] \in IssueRequests \union ReviewRequests => call[c].now \in Nat
      BY DEF IssueRequests, ReviewRequests
    <2> QED
      BY <2>1, <2>2, <2>3 DEF IInv, ClockInv, HeldNonces, Tick
  <1>4. WellFormed(db)'
    BY DEF IInv, Tick
  <1> QED
    BY <1>1, <1>2, <1>3, <1>4 DEF IInv

\* A call starts with the clock of the moment and a nonce issued before.
LEMMA StartKeepsIInv ==
    ASSUME IInv, NEW c \in Clients, NEW q \in Requests, StartCall(c, q),
           q \in IssueRequests \union ReviewRequests => q.now = clock,
           q \in ReviewRequests => q.nonce \in HeldNonces
    PROVE  IInv'
  <1> USE DEF StartCall
  <1>1. TypeOK'
    BY DEF IInv, TypeOK
  <1>2. q # NoCall
    BY NoCallIsNoRequest
  <1>3. LockInv'
    BY <1>2 DEF IInv, TypeOK, LockInv
  <1>4. StageInv'
    BY DEF IInv, TypeOK, StageInv, Stage
  <1>5. ClockInv'
    <2>1. db \in Databases /\ clock \in Nat
      BY TimeAssumption DEF IInv, TypeOK
    <2>2. \A x \in Clients : call'[x] = IF x = c THEN q ELSE call[x]
      BY DEF IInv, TypeOK
    <2> QED
      BY <2>1, <2>2 DEF IInv, ClockInv, HeldNonces
  <1>6. WellFormed(db)' /\ AnswersAreDurable'
    BY DEF IInv, AnswersAreDurable
  <1> QED
    BY <1>1, <1>3, <1>4, <1>5, <1>6 DEF IInv

LEMMA CallKeepsIInv ==
    ASSUME IInv, NEW c \in Clients, Call(c)
    PROVE  IInv'
  <1>0. clock \in Nat /\ db \in Databases
    BY TimeAssumption DEF IInv, TypeOK
  <1>1. CASE CallCreate(c)
    <2>1. PICK r \in RunIds, d \in Digests :
             StartCall(c, [op |-> "create_run", run_id |-> r, decision_digest |-> d])
      BY <1>1 DEF CallCreate
    <2> DEFINE q == [op |-> "create_run", run_id |-> r, decision_digest |-> d]
    <2>2. q \in Requests /\ q \notin IssueRequests \union ReviewRequests
      BY DEF Requests, CreateRequests, IssueRequests, ReviewRequests
    <2> QED
      BY <2>1, <2>2, StartKeepsIInv
  <1>2. CASE CallIssue(c)
    <2>1. PICK r \in RunIds, d \in Digests, n \in Nonces, ttl \in TtlRequests :
             /\ MinTtl <= ttl /\ ttl <= MaxTtl
             /\ StartCall(c, [op |-> "issue_challenge", run_id |-> r, decision_digest |-> d,
                              nonce |-> n, now |-> clock, ttl |-> ttl])
      BY <1>2 DEF CallIssue
    <2> DEFINE q == [op |-> "issue_challenge", run_id |-> r, decision_digest |-> d,
                     nonce |-> n, now |-> clock, ttl |-> ttl]
    <2>2. ttl \in MinTtl..MaxTtl
      BY <2>1, TtlAssumption, TimeAssumption
    <2>3. q \in Requests /\ q.now = clock /\ q \notin ReviewRequests
      BY <1>0, <2>2 DEF Requests, IssueRequests, ReviewRequests
    <2> QED
      BY <2>1, <2>3, StartKeepsIInv
  <1>3. CASE CallReview(c)
    <2>1. PICK r \in RunIds, d \in Digests, n \in HeldNonces,
               who \in Reviewers \union {Blank}, act \in ActionRequests :
             /\ who # Blank
             /\ StartCall(c, [op |-> "record_review", run_id |-> r, decision_digest |-> d,
                              nonce |-> n, reviewer |-> who, action |-> act, now |-> clock])
      BY <1>3 DEF CallReview
    <2> DEFINE q == [op |-> "record_review", run_id |-> r, decision_digest |-> d,
                     nonce |-> n, reviewer |-> who, action |-> act, now |-> clock]
    <2>2. n \in Nonces \union {Null}
      BY <1>0 DEF HeldNonces, Databases, ChallengeRows
    <2>3. q \in Requests /\ q.now = clock
      BY <1>0, <2>1, <2>2, ActionAssumption DEF Requests, ReviewRequests
    <2> QED
      BY <2>1, <2>3, StartKeepsIInv
  <1> QED
    BY <1>1, <1>2, <1>3 DEF Call

LEMMA AbandonKeepsIInv ==
    ASSUME IInv, NEW c \in Clients, Abandon(c)
    PROVE  IInv'
  <1> USE DEF Abandon
  <1>1. TypeOK'
    BY EmptyWellFormed DEF IInv, TypeOK
  <1>2. LockInv'
    BY ClientAssumption DEF IInv, TypeOK, LockInv
  <1>3. StageInv'
    <2>1. ASSUME NEW x \in Clients PROVE Stage(x)'
      <3>1. CASE x = c
        BY <3>1 DEF IInv, TypeOK, Stage
      <3>2. CASE x # c
        <4>1. pc'[x] = pc[x] /\ call'[x] = call[x] /\ db' = db
          BY <3>2 DEF IInv, TypeOK
        <4>2. pc[x] \in InTransaction => tx' = tx
          BY <3>2 DEF IInv, LockInv
        <4> QED
          BY <4>1, <4>2 DEF IInv, StageInv, Stage
      <3> QED
        BY <3>1, <3>2
    <2> QED
      BY <2>1 DEF StageInv
  <1>4. ClockInv'
    <2>1. \A x \in Clients : call'[x] = IF x = c THEN NoCall ELSE call[x]
      BY DEF IInv, TypeOK
    <2> QED
      BY <2>1, NoCallIsNoRequest DEF IInv, ClockInv, HeldNonces, Requests
  <1>5. WellFormed(db)' /\ AnswersAreDurable'
    BY DEF IInv, AnswersAreDurable
  <1> QED
    BY <1>1, <1>2, <1>3, <1>4, <1>5 DEF IInv

LEMMA BeginKeepsIInv ==
    ASSUME IInv, NEW c \in Clients, Begin(c)
    PROVE  IInv'
  <1> USE DEF Begin
  <1>1. TypeOK'
    BY DEF IInv, TypeOK
  <1>2. LockInv'
    BY ClientAssumption DEF IInv, TypeOK, LockInv
  <1>3. StageInv'
    <2>1. ASSUME NEW x \in Clients PROVE Stage(x)'
      <3>1. CASE x = c
        BY <3>1 DEF IInv, TypeOK, Stage
      <3>2. CASE x # c
        <4>1. pc'[x] = pc[x] /\ call'[x] = call[x] /\ db' = db
          BY <3>2 DEF IInv, TypeOK
        <4>2. pc[x] \notin InTransaction
          BY ClientAssumption DEF IInv, LockInv
        <4> QED
          BY <4>1, <4>2 DEF IInv, StageInv, Stage
      <3> QED
        BY <3>1, <3>2
    <2> QED
      BY <2>1 DEF StageInv
  <1>4. ClockInv' /\ WellFormed(db)' /\ AnswersAreDurable'
    BY DEF IInv, ClockInv, HeldNonces, AnswersAreDurable
  <1> QED
    BY <1>1, <1>2, <1>3, <1>4 DEF IInv

\* A statement changes the working copy and the stage of one client only.
LEMMA StatementKeepsIInv ==
    ASSUME IInv, NEW c \in Clients, NEW from \in InTransaction, NEW to \in InTransaction,
           NEW copy \in Databases, Statement(c, from, to, copy), Stage(c)'
    PROVE  IInv'
  <1> USE DEF Statement
  <1>1. TypeOK'
    BY DEF IInv, TypeOK
  <1>2. LockInv'
    BY DEF IInv, TypeOK, LockInv
  <1>3. StageInv'
    <2>1. ASSUME NEW x \in Clients, x # c PROVE Stage(x)'
      <3>1. pc'[x] = pc[x] /\ call'[x] = call[x] /\ db' = db
        BY <2>1 DEF IInv, TypeOK
      <3>2. pc[x] \notin InTransaction
        BY <2>1 DEF IInv, LockInv
      <3> QED
        BY <3>1, <3>2 DEF IInv, StageInv, Stage
    <2> QED
      BY <2>1 DEF StageInv
  <1>4. ClockInv' /\ WellFormed(db)' /\ AnswersAreDurable'
    BY DEF IInv, ClockInv, HeldNonces, AnswersAreDurable
  <1> QED
    BY <1>1, <1>2, <1>3, <1>4 DEF IInv

\* The statements of the three transactions, one by one.
LEMMA TransactionKeepsIInv ==
    ASSUME IInv, NEW c \in Clients,
           \/ SelectForCreate(c) \/ SelectForIssue(c) \/ SelectForReview(c)
           \/ Supersede(c) \/ RunInserted(c) \/ ChallengeInserted(c)
           \/ ReviewInserted(c) \/ ChallengeConsumed(c) \/ EventAppended(c)
    PROVE  IInv'
  <1> DEFINE q == call[c]
  <1>0. pc[c] \in InTransaction
    BY DEF SelectForCreate, SelectForIssue, SelectForReview, Supersede, RunInserted,
           ChallengeInserted, ReviewInserted, ChallengeConsumed, EventAppended, Statement
  <1>1. q \in Requests /\ Stage(c) /\ tx \in Databases /\ db \in Databases
    BY <1>0, Inside
  <1>2. pc \in [Clients -> Stages]
    BY DEF IInv, TypeOK
  \* A review whose guards hold names a nonce that was issued.
  <1>3. Reviewable(db, q) => q.nonce \in Nonces
    BY <1>1 DEF Reviewable, Databases, ChallengeRows
  <1>4. CASE SelectForCreate(c)
    <2> DEFINE to == IF Bound(tx, q) THEN "commit" ELSE "insert"
    <2>1. q.op = "create_run" /\ Accepts(tx, q) /\ Statement(c, "select", to, tx)
      BY <1>4 DEF SelectForCreate
    <2>2. tx = db /\ (Bound(db, q) => BoundToDigest(db, q))
      BY <1>1, <2>1 DEF Statement, Stage, Accepts
    <2>3. pc'[c] = to /\ call' = call /\ db' = db /\ tx' = tx
      BY <1>2, <2>1 DEF Statement
    <2>4. Stage(c)'
      BY <2>1, <2>2, <2>3 DEF Stage
    <2> QED
      BY <1>1, <2>1, <2>4, StatementKeepsIInv
  <1>5. CASE SelectForIssue(c)
    <2>1. q.op = "issue_challenge" /\ Accepts(tx, q) /\ Statement(c, "select", "supersede", tx)
      BY <1>5 DEF SelectForIssue
    <2>2. tx = db /\ Issuable(db, q)
      BY <1>1, <2>1 DEF Statement, Stage, Accepts
    <2>3. pc'[c] = "supersede" /\ call' = call /\ db' = db /\ tx' = tx
      BY <1>2, <2>1 DEF Statement
    <2>4. Stage(c)'
      BY <2>1, <2>2, <2>3 DEF Stage
    <2> QED
      BY <1>1, <2>1, <2>4, StatementKeepsIInv
  <1>6. CASE SelectForReview(c)
    <2>1. q.op = "record_review" /\ Accepts(tx, q) /\ Statement(c, "select", "insert", tx)
      BY <1>6 DEF SelectForReview
    <2>2. tx = db /\ Reviewable(db, q)
      BY <1>1, <2>1 DEF Statement, Stage, Accepts
    <2>3. pc'[c] = "insert" /\ call' = call /\ db' = db /\ tx' = tx
      BY <1>2, <2>1 DEF Statement
    <2>4. Stage(c)'
      BY <2>1, <2>2, <2>3 DEF Stage
    <2> QED
      BY <1>1, <2>1, <2>4, StatementKeepsIInv
  <1>7. CASE Supersede(c)
    <2>1. Statement(c, "supersede", "insert", SupersedeLive(tx, q))
      BY <1>7 DEF Supersede
    <2>2. q.op = "issue_challenge" /\ Issuable(db, q) /\ tx = db
      BY <1>1, <2>1 DEF Statement, Stage
    <2>3. pc'[c] = "insert" /\ call' = call /\ db' = db /\ tx' = SupersedeLive(db, q)
      BY <1>2, <2>1, <2>2 DEF Statement
    <2>4. Stage(c)'
      BY <2>2, <2>3 DEF Stage
    <2> QED
      BY <1>1, <2>1, <2>4, StatementTypes, StatementKeepsIInv
  <1>8. CASE RunInserted(c)
    <2>1. q.op = "create_run" /\ Statement(c, "insert", "append", InsertRun(tx, q))
      BY <1>8 DEF RunInserted
    <2>2. ~Bound(db, q) /\ tx = db
      BY <1>1, <2>1 DEF Statement, Stage
    <2>3. pc'[c] = "append" /\ call' = call /\ db' = db /\ tx' = InsertRun(db, q)
      BY <1>2, <2>1, <2>2 DEF Statement
    <2>4. Stage(c)'
      BY <2>1, <2>2, <2>3 DEF Stage, Applicable, Rows
    <2> QED
      BY <1>1, <2>1, <2>4, StatementTypes, StatementKeepsIInv
  <1>9. CASE ChallengeInserted(c)
    <2>1. q.op = "issue_challenge" /\ ~NonceTaken(tx, q)
          /\ Statement(c, "insert", "append", InsertChallenge(tx, q))
      BY <1>9 DEF ChallengeInserted
    <2>2. Issuable(db, q) /\ tx = SupersedeLive(db, q)
      BY <1>1, <2>1 DEF Statement, Stage
    <2>3. pc'[c] = "append" /\ call' = call /\ db' = db
          /\ tx' = InsertChallenge(SupersedeLive(db, q), q)
      BY <1>2, <2>1, <2>2 DEF Statement
    <2>4. ~NonceTaken(db, q)
      <3>1. \A ch \in db.challenges : SupersedeRow(ch, q).nonce = ch.nonce
        BY <1>1 DEF Databases, ChallengeRows, SupersedeRow
      <3>2. SupersedeLive(db, q).challenges = {SupersedeRow(ch, q) : ch \in db.challenges}
        BY <1>1 DEF SupersedeLive, Databases
      <3> QED
        BY <2>1, <2>2, <3>1, <3>2 DEF NonceTaken
    <2>5. Stage(c)'
      BY <2>1, <2>2, <2>3, <2>4 DEF Stage, Applicable, Rows
    <2> QED
      BY <1>1, <2>1, <2>5, StatementTypes, StatementKeepsIInv
  <1>10. CASE ReviewInserted(c)
    <2>1. q.op = "record_review" /\ Statement(c, "insert", "consume", InsertReview(tx, q))
      BY <1>10 DEF ReviewInserted
    <2>2. Reviewable(db, q) /\ tx = db
      BY <1>1, <2>1 DEF Statement, Stage
    <2>3. pc'[c] = "consume" /\ call' = call /\ db' = db /\ tx' = InsertReview(db, q)
      BY <1>2, <2>1, <2>2 DEF Statement
    <2>4. Stage(c)'
      BY <2>1, <2>2, <2>3 DEF Stage
    <2> QED
      BY <1>1, <1>3, <2>1, <2>2, <2>4, StatementTypes, StatementKeepsIInv
  <1>11. CASE ChallengeConsumed(c)
    <2>1. Statement(c, "consume", "append", Consume(tx, q))
      BY <1>11 DEF ChallengeConsumed
    <2>2. q.op = "record_review" /\ Reviewable(db, q) /\ tx = InsertReview(db, q)
      BY <1>1, <2>1 DEF Statement, Stage
    <2>3. pc'[c] = "append" /\ call' = call /\ db' = db
          /\ tx' = Consume(InsertReview(db, q), q)
      BY <1>2, <2>1, <2>2 DEF Statement
    <2>4. Stage(c)'
      BY <2>2, <2>3 DEF Stage, Applicable, Rows
    <2> QED
      BY <1>1, <2>1, <2>2, <2>4, StatementTypes, StatementKeepsIInv
  <1>12. CASE EventAppended(c)
    <2>1. Statement(c, "append", "commit", AppendEvent(tx, q))
      BY <1>12 DEF EventAppended
    <2>2. Applicable(db, q) /\ tx = Rows(db, q)
      BY <1>1, <2>1 DEF Statement, Stage
    <2>3. pc'[c] = "commit" /\ call' = call /\ db' = db /\ tx' = Effect(db, q)
      BY <1>2, <2>1, <2>2 DEF Statement, Effect
    <2>4. Stage(c)'
      BY <2>2, <2>3 DEF Stage
    <2> QED
      BY <1>1, <2>1, <2>4, StatementTypes, StatementKeepsIInv
  <1> QED
    BY <1>4, <1>5, <1>6, <1>7, <1>8, <1>9, <1>10, <1>11, <1>12

-----------------------------------------------------------------------------
(* COMMIT publishes the effect of one applicable request, or nothing *)

\* The events of the effect: those before, and one that carries the payload.
LEMMA EffectAppends ==
    ASSUME NEW d \in Databases, NEW q \in Requests
    PROVE  /\ Effect(d, q).events = Append(d.events, EventRow(d.events, q))
           /\ EventRow(d.events, q).payload = PayloadOf(q)
           /\ InLedger(Effect(d, q).events, PayloadOf(q))
           /\ \A p : InLedger(d.events, p) => InLedger(Effect(d, q).events, p)
  <1>1. Effect(d, q).events = Append(d.events, EventRow(d.events, q))
    BY EffectOfCreate, EffectOfIssue, EffectOfReview, RequestKinds
  <1>2. EventRow(d.events, q).payload = PayloadOf(q)
    BY DEF EventRow
  <1> DEFINE longer == Append(d.events, EventRow(d.events, q))
  <1>3. d.events \in Seq(EventRows)
    BY DEF Databases
  <1>4. /\ DOMAIN longer = 1..Len(d.events) + 1 /\ DOMAIN d.events = 1..Len(d.events)
        /\ Len(d.events) \in Nat
        /\ \A i \in 1..Len(d.events) : longer[i] = d.events[i]
        /\ longer[Len(d.events) + 1] = EventRow(d.events, q)
    BY <1>3
  <1> HIDE DEF longer
  <1>5. InLedger(longer, PayloadOf(q)) /\ \A p : InLedger(d.events, p) => InLedger(longer, p)
    BY <1>2, <1>4 DEF InLedger
  <1> QED
    BY <1>1, <1>2, <1>5 DEF longer

\* The effect of an applicable request is a database.
LEMMA EffectType ==
    ASSUME NEW d \in Databases, NEW q \in Requests, Applicable(d, q)
    PROVE  Effect(d, q) \in Databases
  <1>1. CASE q.op = "create_run"
    BY <1>1, StatementTypes DEF Effect, Rows
  <1>2. CASE q.op = "issue_challenge"
    BY <1>2, StatementTypes DEF Effect, Rows
  <1>3. CASE q.op = "record_review"
    <2>1. q.nonce \in Nonces
      BY <1>3 DEF Applicable, Reviewable, Databases, ChallengeRows
    <2> QED
      BY <1>3, <2>1, StatementTypes DEF Effect, Rows
  <1> QED
    BY <1>1, <1>2, <1>3, RequestKinds

\* The two kinds of commit.
LEMMA CommitKinds ==
    ASSUME IInv, NEW c \in Clients, Commit(c)
    PROVE  /\ call[c] \in Requests
           /\ \/ Applicable(db, call[c]) /\ db' = Effect(db, call[c])
              \/ call[c].op = "create_run" /\ BoundToDigest(db, call[c]) /\ db' = db
  BY Inside DEF Commit, Stage

LEMMA EffectKeepsWellFormed ==
    ASSUME IInv, NEW c \in Clients, Commit(c), Applicable(db, call[c])
    PROVE  WellFormed(Effect(db, call[c]))
  <1> DEFINE q == call[c]
  <1>1. q \in Requests /\ db \in Databases /\ WellFormed(db)
    BY Inside DEF Commit
  <1>2. CASE q.op = "create_run"
    BY <1>1, <1>2, CreateKeepsWellFormed DEF Applicable
  <1>3. CASE q.op = "issue_challenge"
    BY <1>1, <1>3, IssueKeepsWellFormed DEF Applicable
  <1>4. CASE q.op = "record_review"
    <2>1. q \in ReviewRequests
      BY <1>1, <1>4, RequestKinds
    <2>2. \A ch \in db.challenges : ch.nonce = q.nonce => ch.issued_at <= q.now
      BY <2>1 DEF IInv, ClockInv
    <2>3. Reviewable(db, q)
      BY <1>4 DEF Applicable
    <2> QED
      BY <1>1, <1>4, <2>2, <2>3, ReviewKeepsWellFormed
  <1> QED
    BY <1>1, <1>2, <1>3, <1>4, RequestKinds

\* A challenge of the effect has the nonce and the issue time of one of before,
\* or is the challenge the request inserts under a nonce not used before.
LEMMA EffectChallenges ==
    ASSUME NEW d \in Databases, NEW q \in Requests, Applicable(d, q),
           NEW ch \in Effect(d, q).challenges
    PROVE  \/ \E old \in d.challenges : old.nonce = ch.nonce /\ old.issued_at = ch.issued_at
           \/ /\ q \in IssueRequests
              /\ ch.nonce = q.nonce /\ ch.issued_at = q.now
              /\ ~NonceTaken(d, q)
  <1>1. CASE q.op = "create_run"
    BY <1>1, EffectOfCreate
  <1>2. CASE q.op = "issue_challenge"
    <2>1. CASE ch = ChallengeRow(q)
      BY <1>2, <2>1, RequestKinds DEF ChallengeRow, Applicable
    <2>2. CASE ch # ChallengeRow(q)
      <3>1. PICK old \in d.challenges : ch = SupersedeRow(old, q)
        BY <1>2, <2>2, EffectOfIssue
      <3> QED
        BY <3>1 DEF SupersedeRow, Databases, ChallengeRows
    <2> QED
      BY <2>1, <2>2
  <1>3. CASE q.op = "record_review"
    <2>1. PICK old \in d.challenges : ch = ConsumeRow(old, q)
      BY <1>3, EffectOfReview
    <2> QED
      BY <2>1 DEF ConsumeRow, Databases, ChallengeRows
  <1> QED
    BY <1>1, <1>2, <1>3, RequestKinds

\* No challenge is ever deleted.
LEMMA EffectKeepsChallenges ==
    ASSUME NEW d \in Databases, NEW q \in Requests, Applicable(d, q)
    PROVE  {ch.nonce : ch \in d.challenges} \subseteq {ch.nonce : ch \in Effect(d, q).challenges}
  <1> SUFFICES ASSUME NEW old \in d.challenges
               PROVE  \E ch \in Effect(d, q).challenges : ch.nonce = old.nonce
    OBVIOUS
  <1>1. CASE q.op = "create_run"
    BY <1>1, EffectOfCreate
  <1>2. CASE q.op = "issue_challenge"
    <2>1. SupersedeRow(old, q).nonce = old.nonce
      BY DEF SupersedeRow, Databases, ChallengeRows
    <2> QED
      BY <1>2, <2>1, EffectOfIssue
  <1>3. CASE q.op = "record_review"
    <2>1. ConsumeRow(old, q).nonce = old.nonce
      BY DEF ConsumeRow, Databases, ChallengeRows
    <2> QED
      BY <1>3, <2>1, EffectOfReview
  <1> QED
    BY <1>1, <1>2, <1>3, RequestKinds

LEMMA CommitKeepsIInv ==
    ASSUME IInv, NEW c \in Clients, Commit(c)
    PROVE  IInv'
  <1> DEFINE q == call[c]
  <1>1. /\ q \in Requests /\ db \in Databases /\ pc[c] = "commit" /\ lock = c
        /\ lock' = Null /\ tx' = EmptyDatabase /\ pc' = [pc EXCEPT ![c] = "reply"]
        /\ UNCHANGED <<clock, call, answers>>
    BY Inside DEF Commit
  <1>2. /\ pc \in [Clients -> Stages] /\ clock \in 0..MaxTime /\ answers \subseteq Payloads
        /\ call \in [Clients -> Requests \union {NoCall}]
    BY DEF IInv, TypeOK
  \* The database after the commit, in either case.
  <1>3. db' \in Databases /\ WellFormed(db')
    <2>1. CASE Applicable(db, q) /\ db' = Effect(db, q)
      BY <1>1, <2>1, EffectType, EffectKeepsWellFormed
    <2>2. CASE db' = db
      BY <1>1, <2>2 DEF IInv
    <2> QED
      BY <2>1, <2>2, CommitKinds
  <1>4. InLedger(db'.events, PayloadOf(q))
        /\ \A p : InLedger(db.events, p) => InLedger(db'.events, p)
    <2>1. CASE Applicable(db, q) /\ db' = Effect(db, q)
      BY <1>1, <2>1, EffectAppends
    <2>2. CASE q.op = "create_run" /\ BoundToDigest(db, q) /\ db' = db
      <3>1. RunRow(q) \in Recorded(db.events, "RUN_CREATED")
        BY <2>2 DEF IInv, WellFormed, LedgerAgreesWithTables, BoundToDigest
      <3>2. PayloadOf(q) = RunRow(q)
        BY <2>2 DEF PayloadOf
      <3> QED
        BY <2>2, <3>1, <3>2, RecordedMember DEF InLedger
    <2> QED
      BY <2>1, <2>2, CommitKinds
  <1>5. TypeOK'
    BY <1>1, <1>2, <1>3, EmptyWellFormed DEF TypeOK
  <1>6. LockInv'
    BY <1>1, <1>2, ClientAssumption DEF IInv, LockInv
  <1>7. StageInv'
    <2>1. ASSUME NEW x \in Clients PROVE Stage(x)'
      <3>1. CASE x = c
        <4>1. pc'[x] = "reply" /\ call'[x] = q
          BY <1>1, <1>2, <3>1
        <4> QED
          BY <1>4, <4>1 DEF Stage
      <3>2. CASE x # c
        <4>1. pc'[x] = pc[x] /\ call'[x] = call[x]
          BY <1>1, <1>2, <3>2
        <4>2. pc[x] \notin InTransaction
          BY <1>1, <3>2 DEF IInv, LockInv
        <4> QED
          BY <1>4, <4>1, <4>2 DEF IInv, StageInv, Stage
      <3> QED
        BY <3>1, <3>2
    <2> QED
      BY <2>1 DEF StageInv
  <1>8. ClockInv'
    <2>1. CASE Applicable(db, q) /\ db' = Effect(db, q)
      <3>1. ASSUME NEW ch \in db'.challenges
            PROVE  /\ ch.issued_at <= clock
                   /\ \A x \in Clients : call[x] \in ReviewRequests /\ ch.nonce = call[x].nonce
                         => ch.issued_at <= call[x].now
        <4>1. CASE \E old \in db.challenges : old.nonce = ch.nonce /\ old.issued_at = ch.issued_at
          BY <4>1 DEF IInv, ClockInv
        <4>2. CASE /\ q \in IssueRequests /\ ch.nonce = q.nonce /\ ch.issued_at = q.now
                   /\ ~NonceTaken(db, q)
          <5>1. q.now <= clock
            BY <4>2 DEF IInv, ClockInv
          <5>2. q.nonce \notin HeldNonces
            BY <4>2 DEF HeldNonces, NonceTaken, IssueRequests
          <5>3. \A x \in Clients : call[x] \in ReviewRequests => call[x].nonce \in HeldNonces
            BY DEF IInv, ClockInv
          <5> QED
            BY <4>2, <5>1, <5>2, <5>3
        <4> QED
          BY <1>1, <2>1, <3>1, <4>1, <4>2, EffectChallenges
      <3>2. HeldNonces \subseteq HeldNonces'
        BY <1>1, <2>1, EffectKeepsChallenges DEF HeldNonces
      <3>3. /\ clock' = clock /\ call' = call
            /\ \A x \in Clients :
                 /\ call[x] \in IssueRequests \union ReviewRequests => call[x].now <= clock
                 /\ call[x] \in ReviewRequests => call[x].nonce \in HeldNonces
        BY <1>1 DEF IInv, ClockInv
      <3> QED
        BY <3>1, <3>2, <3>3 DEF ClockInv
    <2>2. CASE db' = db
      BY <1>1, <2>2 DEF IInv, ClockInv, HeldNonces
    <2> QED
      BY <2>1, <2>2, CommitKinds
  <1>9. AnswersAreDurable'
    BY <1>1, <1>4 DEF IInv, AnswersAreDurable
  <1> QED
    BY <1>3, <1>5, <1>6, <1>7, <1>8, <1>9 DEF IInv

LEMMA ReturnKeepsIInv ==
    ASSUME IInv, NEW c \in Clients, Return(c)
    PROVE  IInv'
  <1> USE DEF Return
  <1>1. call[c] \in Requests /\ Stage(c)
    BY Inside
  <1>2. TypeOK'
    BY <1>1, PayloadType DEF IInv, TypeOK
  <1>3. LockInv'
    BY DEF IInv, TypeOK, LockInv
  <1>4. StageInv'
    BY DEF IInv, TypeOK, StageInv, Stage
  <1>5. ClockInv'
    <2>1. \A x \in Clients : call'[x] = IF x = c THEN NoCall ELSE call[x]
      BY DEF IInv, TypeOK
    <2> QED
      BY <2>1, NoCallIsNoRequest DEF IInv, ClockInv, HeldNonces, Requests
  <1>6. WellFormed(db)'
    BY DEF IInv
  <1>7. AnswersAreDurable'
    <2>1. InLedger(db.events, PayloadOf(call[c]))
      BY <1>1 DEF Stage
    <2> QED
      BY <2>1 DEF IInv, AnswersAreDurable
  <1> QED
    BY <1>2, <1>3, <1>4, <1>5, <1>6, <1>7 DEF IInv

LEMMA NextKeepsIInv == IInv /\ [Next]_vars => IInv'
  <1> SUFFICES ASSUME IInv, [Next]_vars PROVE IInv'
    OBVIOUS
  <1>1. CASE Tick
    BY <1>1, TickKeepsIInv
  <1>2. ASSUME NEW c \in Clients, Call(c) PROVE IInv'
    BY <1>2, CallKeepsIInv
  <1>3. ASSUME NEW c \in Clients, Begin(c) PROVE IInv'
    BY <1>3, BeginKeepsIInv
  <1>4. ASSUME NEW c \in Clients, BusyTimeout(c) \/ Refuse(c) \/ NonceConflict(c) \/ Crash(c)
        PROVE  IInv'
    BY <1>4, AbandonKeepsIInv DEF BusyTimeout, Refuse, NonceConflict, Crash
  <1>5. ASSUME NEW c \in Clients,
               \/ SelectForCreate(c) \/ SelectForIssue(c) \/ SelectForReview(c)
               \/ Supersede(c) \/ RunInserted(c) \/ ChallengeInserted(c)
               \/ ReviewInserted(c) \/ ChallengeConsumed(c) \/ EventAppended(c)
        PROVE  IInv'
    BY <1>5, TransactionKeepsIInv
  <1>6. ASSUME NEW c \in Clients, Commit(c) PROVE IInv'
    BY <1>6, CommitKeepsIInv
  <1>7. ASSUME NEW c \in Clients, Return(c) PROVE IInv'
    BY <1>7, ReturnKeepsIInv
  <1>8. CASE UNCHANGED vars
    BY <1>8, StutterKeepsIInv
  <1> QED
    BY <1>1, <1>2, <1>3, <1>4, <1>5, <1>6, <1>7, <1>8 DEF Next, Step

-----------------------------------------------------------------------------
(* The theorems *)

\* IInv holds in every reachable state.
THEOREM InductiveInvariant == Spec => []IInv
  BY InitIInv, NextKeepsIInv, PTL DEF Spec

\* Every variable keeps its type.
THEOREM TypeCorrect == Spec => []TypeOK
  <1>1. IInv => TypeOK
    BY DEF IInv
  <1> QED
    BY <1>1, InductiveInvariant, PTL

\* issue_challenge leaves a run with one redeemable challenge at most.
THEOREM OneLiveChallenge == Spec => []OneLiveChallengePerRun
  <1>1. IInv => OneLiveChallengePerRun
    BY DEF IInv, WellFormed, OneLiveChallengePerRun
  <1> QED
    BY <1>1, InductiveInvariant, PTL

\* A review rests on one live challenge of its run, inside the window, and the
\* challenges and the reviews agree.
THEOREM ReviewsAreSound == Spec => []ReviewRedeemsItsChallenge
  <1>1. IInv => ReviewRedeemsItsChallenge
    BY DEF IInv, WellFormed, ReviewRedeemsItsChallenge
  <1> QED
    BY <1>1, InductiveInvariant, PTL

\* A run, its challenges and its review are about one packet.
THEOREM RunsKeepTheirPacket == Spec => []OnePacketPerRun
  <1>1. IInv => OnePacketPerRun
    BY DEF IInv, WellFormed, OnePacketPerRun
  <1> QED
    BY <1>1, InductiveInvariant, PTL

\* verify_ledger never rejects a database that ReviewStore wrote.
THEOREM LedgerIsSound == Spec => []LedgerVerifies
  <1>1. IInv => LedgerVerifies
    BY DEF IInv, WellFormed, LedgerVerifies
  <1> QED
    BY <1>1, InductiveInvariant, PTL

\* The ledger and the tables record the same facts, whatever fails on the way,
\* and the tables can be rebuilt from the ledger.
THEOREM LedgerRecordsTheTables == Spec => []LedgerMatchesTables
  <1>1. IInv => LedgerMatchesTables
    BY TablesReplay DEF IInv, TypeOK, WellFormed, LedgerMatchesTables
  <1> QED
    BY <1>1, InductiveInvariant, PTL

\* No altered ledger that verify_ledger accepts ends in the hash of the real one.
THEOREM AlteredLedgersShow == Spec => []HeadFixesTheLedger
  <1>1. IInv => HeadFixesTheLedger
    BY AlterationsAreLedgers, HeadFixesTheEvents
       DEF IInv, TypeOK, Databases, WellFormed, HeadFixesTheLedger
  <1> QED
    BY <1>1, InductiveInvariant, PTL

\* The last event_hash stands for the whole database: of all the databases the
\* store could have written, this is the only one whose ledger ends in it.
THEOREM HeadIdentifiesTheDatabase ==
    Spec => [](\A d \in Databases :
                  WellFormed(d) /\ LastHash(d.events) = LastHash(db.events) => d = db)
  <1>1. IInv => \A d \in Databases :
                  WellFormed(d) /\ LastHash(d.events) = LastHash(db.events) => d = db
    BY HeadFixesTheDatabase DEF IInv, TypeOK
  <1> QED
    BY <1>1, InductiveInvariant, PTL

\* In the ledger, the review of a run is the last event of the run and answers
\* the challenge issued last.
THEOREM LedgerOrder == Spec => []LedgerTellsTheProtocol
  <1>1. IInv => LedgerTellsTheProtocol
    <2> SUFFICES ASSUME IInv PROVE LedgerTellsTheProtocol
      OBVIOUS
    <2>1. ASSUME NEW v \in db.reviews
          PROVE  \E ch \in db.challenges : Redeems(v, ch) /\ IssuedLast(db.events, ch)
      <3>1. PICK ch \in db.challenges : Redeems(v, ch)
        BY DEF IInv, WellFormed, ChallengesAgreeWithReviews
      <3>2. IssuedLast(db.events, ch)
        BY <3>1 DEF IInv, WellFormed, LatestChallengeCounts, Redeems
      <3> QED
        BY <3>1, <3>2
    <2> QED
      BY <2>1 DEF IInv, WellFormed, LedgerTellsTheProtocol
  <1> QED
    BY <1>1, InductiveInvariant, PTL

\* What a caller was told is in the committed ledger, also after crashes.
THEOREM AnswersStay == Spec => []AnswersAreDurable
  <1>1. IInv => AnswersAreDurable
    BY DEF IInv
  <1> QED
    BY <1>1, InductiveInvariant, PTL

-----------------------------------------------------------------------------
(* What a step may do to the committed database *)

\* The committed database changes only when a client commits an applicable
\* request, and then by the effect of that request.
LEMMA OnlyCommitsChange ==
    ASSUME IInv, [Next]_vars
    PROVE  \/ db' = db
           \/ \E c \in Clients : /\ call[c] \in Requests /\ Applicable(db, call[c])
                                 /\ db' = Effect(db, call[c])
                                 /\ Commit(c)
  <1>1. ASSUME NEW c \in Clients, Call(c) PROVE db' = db
    BY <1>1 DEF Call, CallCreate, CallIssue, CallReview, StartCall
  <1>2. ASSUME NEW c \in Clients, Step(c), ~Commit(c) PROVE db' = db
    BY <1>2 DEF Step, Begin, BusyTimeout, Refuse, NonceConflict, Abandon, SelectForCreate,
         SelectForIssue, SelectForReview, Supersede, RunInserted, ChallengeInserted,
         ReviewInserted, ChallengeConsumed, EventAppended, Statement, Return
  <1>3. ASSUME NEW c \in Clients, Crash(c) PROVE db' = db
    BY <1>3 DEF Crash, Abandon
  <1>4. CASE Tick \/ UNCHANGED vars
    BY <1>4 DEF Tick, vars
  <1> QED
    BY <1>1, <1>2, <1>3, <1>4, CommitKinds DEF Next

\* No step takes back or rewrites a committed event.
THEOREM LedgerIsAppendOnly == Spec => LedgerAppendOnly
  <1>1. IInv /\ [Next]_vars =>
          [/\ Len(db.events) <= Len(db'.events)
           /\ \A i \in DOMAIN db.events : db'.events[i] = db.events[i]]_vars
    <2> SUFFICES ASSUME IInv, [Next]_vars
                 PROVE  /\ Len(db.events) <= Len(db'.events)
                        /\ \A i \in DOMAIN db.events : db'.events[i] = db.events[i]
      OBVIOUS
    <2>1. db \in Databases /\ db.events \in Seq(EventRows)
      BY DEF IInv, TypeOK, Databases
    <2>2. CASE db' = db
      BY <2>1, <2>2
    <2>3. ASSUME NEW c \in Clients, call[c] \in Requests, Applicable(db, call[c]),
                 db' = Effect(db, call[c])
          PROVE  /\ Len(db.events) <= Len(db'.events)
                 /\ \A i \in DOMAIN db.events : db'.events[i] = db.events[i]
      <3>1. db'.events = Append(db.events, EventRow(db.events, call[c]))
        BY <2>1, <2>3, EffectAppends
      <3> QED
        BY <2>1, <3>1
    <2> QED
      BY <2>2, <2>3, OnlyCommitsChange
  <1> QED
    BY <1>1, InductiveInvariant, PTL DEF Spec, LedgerAppendOnly

\* No step takes back a binding or a review, or reopens a closed challenge.
THEOREM ReviewsAreFinal == Spec => Finality
  <1> DEFINE A == /\ db.runs \subseteq db'.runs
                  /\ db.reviews \subseteq db'.reviews
                  /\ \A ch \in db.challenges : \E new \in db'.challenges :
                        /\ ChallengeFact(new) = ChallengeFact(ch)
                        /\ ch.superseded => new = ch
                        /\ ch.consumed_at # Null => new = ch
  <1>1. IInv /\ [Next]_vars => A
    <2> SUFFICES ASSUME IInv, [Next]_vars PROVE A
      OBVIOUS
    <2>1. db \in Databases /\ db.challenges \subseteq ChallengeRows
      BY DEF IInv, TypeOK, Databases
    <2>2. CASE db' = db
      BY <2>2
    <2>3. ASSUME NEW c \in Clients, call[c] \in Requests, Applicable(db, call[c]),
                 db' = Effect(db, call[c])
          PROVE  A
      <3> DEFINE q == call[c]
      <3>1. CASE q.op = "create_run"
        BY <2>1, <2>3, <3>1, EffectOfCreate
      <3>2. CASE q.op = "issue_challenge"
        <4>1. \A ch \in ChallengeRows :
                 LET new == SupersedeRow(ch, q) IN
                 /\ ChallengeFact(new) = ChallengeFact(ch)
                 /\ ch.superseded => new = ch
                 /\ ch.consumed_at # Null => new = ch
          BY DEF ChallengeRows, SupersedeRow, ChallengeFact
        <4> QED
          BY <2>1, <2>3, <3>2, <4>1, EffectOfIssue
      <3>3. CASE q.op = "record_review"
        <4>1. PICK used \in db.challenges : used.nonce = q.nonce /\ Redeemable(used, q)
          BY <2>3, <3>3 DEF Applicable, Reviewable
        <4>2. \A ch \in db.challenges : ch.nonce = q.nonce => ch = used
          BY <4>1 DEF IInv, WellFormed, OneChallengePerNonce
        <4>3. \A ch \in db.challenges :
                 LET new == ConsumeRow(ch, q) IN
                 /\ ChallengeFact(new) = ChallengeFact(ch)
                 /\ ch.superseded => new = ch
                 /\ ch.consumed_at # Null => new = ch
          BY <2>1, <4>1, <4>2 DEF ChallengeRows, ConsumeRow, ChallengeFact, Redeemable
        <4> QED
          BY <2>1, <2>3, <3>3, <4>3, EffectOfReview
      <3> QED
        BY <2>3, <3>1, <3>2, <3>3, RequestKinds
    <2> QED
      BY <2>2, <2>3, OnlyCommitsChange
  <1> QED
    BY <1>1, InductiveInvariant, PTL DEF Spec, Finality

-----------------------------------------------------------------------------
(* Refinement *)

\* The commit of create_run binds the run.
LEMMA CreateBinds ==
    ASSUME IInv, NEW q \in Requests, q.op = "create_run", Applicable(db, q),
           db' = Effect(db, q)
    PROVE  Protocol!Bind(q.run_id, q.decision_digest)
  <1>1. db \in Databases /\ ~Bound(db, q)
    BY DEF IInv, TypeOK, Applicable
  <1>2. /\ db'.runs = db.runs \union {RunRow(q)}
        /\ db'.challenges = db.challenges /\ db'.reviews = db.reviews
    BY <1>1, EffectOfCreate
  <1>3. IssuedNonces(db') = IssuedNonces(db) /\ OpenChallenges(db') = OpenChallenges(db)
        /\ Verdicts(db') = Verdicts(db)
    BY <1>2 DEF IssuedNonces, OpenChallenges, Verdicts
  <1>4. IssuedNonces(db)' = IssuedNonces(db) /\ OpenChallenges(db)' = OpenChallenges(db)
        /\ Verdicts(db)' = Verdicts(db)
    BY <1>3
  <1> QED
    BY <1>1, <1>2, <1>4 DEF Protocol!Bind, Bound, RunRow

\* The commit of issue_challenge replaces the open challenge of the run.
LEMMA IssueOpens ==
    ASSUME IInv, NEW q \in IssueRequests, Applicable(db, q), db' = Effect(db, q)
    PROVE  Protocol!Issue(RunRow(q), q.nonce, q.now, q.ttl)
  <1>0. db \in Databases /\ q \in Requests /\ q.op = "issue_challenge"
    BY RequestKinds DEF IInv, TypeOK, Requests, IssueRequests
  <1>1. ~Reviewed(db, q.run_id) /\ ~NonceTaken(db, q) /\ db.challenges \subseteq ChallengeRows
    BY <1>0 DEF Applicable, Issuable, Databases
  <1>2. /\ db'.runs = db.runs /\ db'.reviews = db.reviews
        /\ db'.challenges = {SupersedeRow(c, q) : c \in db.challenges} \union {ChallengeRow(q)}
    BY <1>0, EffectOfIssue
  <1> DEFINE fact == ChallengeFact(ChallengeRow(q))
  <1>3. fact = [run_id |-> q.run_id, decision_digest |-> q.decision_digest, nonce |-> q.nonce,
                issued_at |-> q.now, expires_at |-> q.now + q.ttl]
        /\ Live(ChallengeRow(q)) /\ ChallengeRow(q).nonce = q.nonce
    BY DEF ChallengeFact, ChallengeRow, Live
  <1>4. \A c \in db.challenges :
           LET s == SupersedeRow(c, q) IN
           /\ s.nonce = c.nonce
           /\ Live(s) <=> Live(c) /\ c.run_id # q.run_id
           /\ ChallengeFact(s) = ChallengeFact(c)
           /\ ChallengeFact(c).run_id = c.run_id
    BY <1>1 DEF SupersedeRow, ChallengeRows, Live, ChallengeFact
  <1>5. Verdicts(db)' = Verdicts(db) /\ db.runs' = db.runs
    BY <1>2 DEF Verdicts
  <1>6. IssuedNonces(db)' = IssuedNonces(db) \union {q.nonce}
    BY <1>2, <1>3, <1>4 DEF IssuedNonces
  <1>7. OpenChallenges(db)'
          = {o \in OpenChallenges(db) : o.run_id # q.run_id} \union {fact}
    <2> HIDE DEF fact
    <2>1. ASSUME NEW o \in OpenChallenges(db)'
          PROVE  o \in {x \in OpenChallenges(db) : x.run_id # q.run_id} \union {fact}
      <3>1. PICK s \in db'.challenges : Live(s) /\ o = ChallengeFact(s)
        BY DEF OpenChallenges
      <3>2. CASE s = ChallengeRow(q)
        BY <3>1, <3>2 DEF fact
      <3>3. CASE s # ChallengeRow(q)
        <4>1. PICK c \in db.challenges : s = SupersedeRow(c, q)
          BY <1>2, <3>3
        <4>2. Live(c) /\ c.run_id # q.run_id /\ o = ChallengeFact(c) /\ o.run_id = c.run_id
          BY <1>4, <3>1, <4>1
        <4> QED
          BY <4>2 DEF OpenChallenges
      <3> QED
        BY <3>2, <3>3
    <2>2. ASSUME NEW o \in OpenChallenges(db), o.run_id # q.run_id
          PROVE  o \in OpenChallenges(db)'
      <3>1. PICK c \in db.challenges : Live(c) /\ o = ChallengeFact(c)
        BY DEF OpenChallenges
      <3>2. Live(SupersedeRow(c, q)) /\ o = ChallengeFact(SupersedeRow(c, q))
        BY <1>4, <2>2, <3>1
      <3>3. SupersedeRow(c, q) \in db'.challenges
        BY <1>2
      <3> QED
        BY <3>2, <3>3 DEF OpenChallenges
    <2>3. fact \in OpenChallenges(db)'
      BY <1>2, <1>3 DEF OpenChallenges, fact
    <2> QED
      BY <2>1, <2>2, <2>3
  <1>8. ~\E v \in Verdicts(db) : v.run_id = q.run_id
    BY <1>1 DEF Verdicts, Verdict, Reviewed
  <1>9. q.nonce \notin IssuedNonces(db)
    BY <1>1 DEF NonceTaken, IssuedNonces
  <1>10. RunRow(q).run_id = q.run_id /\ RunRow(q).decision_digest = q.decision_digest
    BY DEF RunRow
  <1> HIDE DEF fact
  <1> QED
    BY <1>3, <1>5, <1>6, <1>7, <1>8, <1>9, <1>10 DEF Protocol!Issue, Protocol!Closed

\* The commit of record_review uses up the open challenge that bears its nonce.
LEMMA ReviewDecides ==
    ASSUME IInv, NEW q \in ReviewRequests, Applicable(db, q), db' = Effect(db, q),
           \A ch \in db.challenges : ch.nonce = q.nonce => ch.issued_at <= q.now
    PROVE  \E o \in OpenChallenges(db) :
             /\ o.run_id = q.run_id /\ o.decision_digest = q.decision_digest
             /\ o.nonce = q.nonce
             /\ Protocol!Decide(o, q.reviewer, q.action, q.now)
  <1>0. db \in Databases /\ q \in Requests /\ q.op = "record_review" /\ q.now \in Nat
    BY RequestKinds DEF IInv, TypeOK, Requests, ReviewRequests
  <1>1. ~Reviewed(db, q.run_id) /\ db.challenges \subseteq ChallengeRows
    BY <1>0 DEF Applicable, Reviewable, Databases
  <1>2. /\ db'.runs = db.runs /\ db'.reviews = db.reviews \union {ReviewRow(q)}
        /\ db'.challenges = {ConsumeRow(c, q) : c \in db.challenges}
    BY <1>0, EffectOfReview
  <1>3. PICK used \in db.challenges : used.nonce = q.nonce /\ Redeemable(used, q)
    BY <1>0 DEF Applicable, Reviewable
  <1>4. \A c \in db.challenges : c.nonce = q.nonce => c = used
    BY <1>3 DEF IInv, WellFormed, OneChallengePerNonce
  <1> DEFINE o == ChallengeFact(used)
  <1>5. /\ o \in OpenChallenges(db) /\ o.run_id = q.run_id /\ o.nonce = q.nonce
        /\ o.decision_digest = q.decision_digest
        /\ o.issued_at = used.issued_at /\ o.expires_at = used.expires_at
    BY <1>3 DEF ChallengeFact, OpenChallenges, Redeemable, Live
  <1>6. \A c \in db.challenges :
           LET s == ConsumeRow(c, q) IN
           /\ s.nonce = c.nonce
           /\ Live(s) <=> Live(c) /\ c # used
           /\ ChallengeFact(s) = ChallengeFact(c)
           /\ ChallengeFact(c).nonce = c.nonce
    BY <1>0, <1>1, <1>3, <1>4 DEF ConsumeRow, ChallengeRows, Live, ChallengeFact
  <1> HIDE DEF o
  <1>7. IssuedNonces(db)' = IssuedNonces(db) /\ db.runs' = db.runs
    BY <1>2, <1>6 DEF IssuedNonces
  <1>8. OpenChallenges(db)' = OpenChallenges(db) \ {o}
    <2>1. ASSUME NEW x \in OpenChallenges(db)' PROVE x \in OpenChallenges(db) \ {o}
      <3>1. PICK s \in db'.challenges : Live(s) /\ x = ChallengeFact(s)
        BY DEF OpenChallenges
      <3>2. PICK c \in db.challenges : s = ConsumeRow(c, q)
        BY <1>2
      <3>3. Live(c) /\ c # used /\ x = ChallengeFact(c) /\ x.nonce = c.nonce
        BY <1>6, <3>1, <3>2
      <3>4. x # o
        BY <1>4, <1>5, <3>3
      <3> QED
        BY <3>3, <3>4 DEF OpenChallenges
    <2>2. ASSUME NEW x \in OpenChallenges(db), x # o PROVE x \in OpenChallenges(db)'
      <3>1. PICK c \in db.challenges : Live(c) /\ x = ChallengeFact(c)
        BY DEF OpenChallenges
      <3>2. c # used
        BY <2>2, <3>1 DEF o
      <3>3. Live(ConsumeRow(c, q)) /\ x = ChallengeFact(ConsumeRow(c, q))
        BY <1>6, <3>1, <3>2
      <3>4. ConsumeRow(c, q) \in db'.challenges
        BY <1>2
      <3> QED
        BY <3>3, <3>4 DEF OpenChallenges
    <2> QED
      BY <2>1, <2>2
  <1>9. Verdicts(db)' = Verdicts(db) \union
          {[run_id |-> o.run_id, decision_digest |-> o.decision_digest, nonce |-> o.nonce,
            reviewer |-> q.reviewer, action |-> q.action, reviewed_at |-> q.now]}
    <2>1. Verdict(ReviewRow(q)) =
            [run_id |-> o.run_id, decision_digest |-> o.decision_digest, nonce |-> o.nonce,
             reviewer |-> q.reviewer, action |-> q.action, reviewed_at |-> q.now]
      BY <1>5 DEF Verdict, ReviewRow
    <2>2. Verdicts(db)' = Verdicts(db) \union {Verdict(ReviewRow(q))}
      BY <1>2 DEF Verdicts
    <2> QED
      BY <2>1, <2>2
  <1>10. ~\E v \in Verdicts(db) : v.run_id = o.run_id
    BY <1>1, <1>5 DEF Verdicts, Verdict, Reviewed
  <1>11. o.issued_at <= q.now /\ q.now <= o.expires_at
    <2>1. used.issued_at <= q.now
      BY <1>3
    <2> QED
      BY <1>3, <1>5, <2>1 DEF Redeemable
  <1> QED
    BY <1>5, <1>7, <1>8, <1>9, <1>10, <1>11 DEF Protocol!Decide, Protocol!Closed

\* A step of the store is a step of the protocol under the refinement mapping,
\* or stutters: only COMMIT changes what the protocol sees.
LEMMA StepsFollowTheProtocol == IInv /\ [Next]_vars => [Protocol!Next]_Protocol!vars
  <1> SUFFICES ASSUME IInv, [Next]_vars PROVE [Protocol!Next]_Protocol!vars
    OBVIOUS
  <1>1. CASE db' = db
    BY <1>1 DEF Protocol!vars, IssuedNonces, OpenChallenges, Verdicts
  <1>2. ASSUME NEW c \in Clients, call[c] \in Requests, Applicable(db, call[c]),
               db' = Effect(db, call[c])
        PROVE  Protocol!Next
    <2> DEFINE q == call[c]
    <2>1. CASE q.op = "create_run"
      BY <1>2, <2>1, CreateBinds, RequestKinds DEF Protocol!Next
    <2>2. CASE q.op = "issue_challenge"
      <3>1. q \in IssueRequests /\ q.nonce \in Nonces /\ q.ttl \in MinTtl..MaxTtl
        BY <1>2, <2>2, RequestKinds DEF IssueRequests
      <3>2. q.now \in 0..MaxTime
        BY <3>1, TimeAssumption DEF IInv, TypeOK, ClockInv, IssueRequests
      <3>3. RunRow(q) \in db.runs
        BY <1>2, <2>2 DEF Applicable, Issuable, BoundToDigest
      <3>4. Protocol!Issue(RunRow(q), q.nonce, q.now, q.ttl)
        BY <1>2, <3>1, IssueOpens
      <3> QED
        BY <3>1, <3>2, <3>3, <3>4 DEF Protocol!Next
    <2>3. CASE q.op = "record_review"
      <3>1. q \in ReviewRequests /\ q.reviewer \in Reviewers /\ q.action \in ReviewActions
        BY <1>2, <2>3, RequestKinds DEF ReviewRequests
      <3>2. q.now \in 0..MaxTime
        BY <3>1, TimeAssumption DEF IInv, TypeOK, ClockInv, ReviewRequests
      <3>3. \A ch \in db.challenges : ch.nonce = q.nonce => ch.issued_at <= q.now
        BY <3>1 DEF IInv, ClockInv
      <3>4. PICK o \in OpenChallenges(db) : Protocol!Decide(o, q.reviewer, q.action, q.now)
        BY <1>2, <3>1, <3>3, ReviewDecides
      <3> QED
        BY <3>1, <3>2, <3>4 DEF Protocol!Next
    <2> QED
      BY <1>2, <2>1, <2>2, <2>3, RequestKinds
  <1> QED
    BY <1>1, <1>2, OnlyCommitsChange

\* The detailed store implements the protocol: its steps are steps of the
\* protocol under the refinement mapping, or stutter.
THEOREM StoreImplementsProtocol == Spec => ImplementsProtocol
  <1>1. Init => Protocol!Init
    BY DEF Init, EmptyDatabase, Protocol!Init, IssuedNonces, OpenChallenges, Verdicts
  <1> QED
    BY <1>1, StepsFollowTheProtocol, InductiveInvariant, PTL
       DEF Spec, ImplementsProtocol, Protocol!Spec
=============================================================================
