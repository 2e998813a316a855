---------------------------- MODULE ReviewStore -----------------------------
(***************************************************************************)
(* ReviewStore (store.py): processes that share one SQLite file call       *)
(* create_run, issue_challenge and record_review.  A call checks its       *)
(* arguments and reads the clock, then takes the write lock with BEGIN     *)
(* IMMEDIATE, runs its statements on a private working copy and publishes  *)
(* it with COMMIT.  An exception closes the connection, which rolls back.  *)
(* A process may stop at any point of a call.                              *)
(*                                                                         *)
(* The clock is common to all processes and does not run backwards.        *)
(***************************************************************************)
EXTENDS ReviewTables

CONSTANTS Clients,      \* processes that use the database
          TtlRequests,  \* the ttl_seconds callers ask for, legal or not
          ActionRequests, \* the actions reviewers take
          MaxTime       \* bound on the clock

ASSUME TimeAssumption == MaxTime \in Nat /\ TtlRequests \subseteq Nat
ASSUME ActionAssumption == ActionRequests \subseteq ReviewActions
ASSUME ClientAssumption == Null \notin Clients

VARIABLES clock,    \* what utc_now returns
          db,       \* the committed database
          lock,     \* the client that holds the write lock, or Null
          tx,       \* the working copy of the client that holds the lock
          pc,       \* pc[c]: the next step of the call of client c
          call,     \* call[c]: its request
          answers   \* what completed calls have returned to their callers

vars == <<clock, db, lock, tx, pc, call, answers>>

NoCall == [op |-> "none"]

Stages == {"idle", "begin", "select", "supersede", "insert", "consume",
           "append", "commit", "reply"}

TypeOK ==
    /\ clock \in 0..MaxTime
    /\ db \in Databases
    /\ lock \in Clients \union {Null}
    /\ tx \in Databases
    /\ pc \in [Clients -> Stages]
    /\ call \in [Clients -> Requests \union {NoCall}]
    /\ answers \subseteq Payloads

Init ==
    /\ clock = 0
    /\ db = EmptyDatabase
    /\ lock = Null
    /\ tx = EmptyDatabase
    /\ pc = [c \in Clients |-> "idle"]
    /\ call = [c \in Clients |-> NoCall]
    /\ answers = {}

Tick ==
    /\ clock < MaxTime
    /\ clock' = clock + 1
    /\ UNCHANGED <<db, lock, tx, pc, call, answers>>

-----------------------------------------------------------------------------
(* A call up to BEGIN IMMEDIATE *)

StartCall(c, q) ==
    /\ pc[c] = "idle"
    /\ call' = [call EXCEPT ![c] = q]
    /\ pc' = [pc EXCEPT ![c] = "begin"]
    /\ UNCHANGED <<clock, db, lock, tx, answers>>

CallCreate(c) ==
    \E r \in RunIds, d \in Digests :
        StartCall(c, [op |-> "create_run", run_id |-> r, decision_digest |-> d])

\* The lifetime is checked and the clock is read before the lock is asked for.
CallIssue(c) ==
    \E r \in RunIds, d \in Digests, n \in Nonces, ttl \in TtlRequests :
        /\ MinTtl <= ttl /\ ttl <= MaxTtl
        /\ StartCall(c, [op |-> "issue_challenge", run_id |-> r, decision_digest |-> d,
                         nonce |-> n, now |-> clock, ttl |-> ttl])

\* A nonce is a 32-byte secret: a reviewer holds one that some committed
\* challenge carries, or one that no challenge will ever carry.
HeldNonces == {ch.nonce : ch \in db.challenges} \union {Null}

CallReview(c) ==
    \E r \in RunIds, d \in Digests, n \in HeldNonces,
       who \in Reviewers \union {Blank}, act \in ActionRequests :
        /\ who # Blank
        /\ StartCall(c, [op |-> "record_review", run_id |-> r, decision_digest |-> d,
                         nonce |-> n, reviewer |-> who, action |-> act, now |-> clock])

\* Mutant: BEGIN without IMMEDIATE asks for no lock.
BeginDeferred(c) ==
    /\ pc[c] = "begin"
    /\ lock' = c /\ tx' = db /\ pc' = [pc EXCEPT ![c] = "select"]
    /\ UNCHANGED <<clock, db, call, answers>>

Begin(c) ==
    /\ pc[c] = "begin"
    /\ lock = Null
    /\ lock' = c
    /\ tx' = db
    /\ pc' = [pc EXCEPT ![c] = "select"]
    /\ UNCHANGED <<clock, db, call, answers>>

-----------------------------------------------------------------------------
(* The end of a call *)

\* Mutant: the connection stays open after an exception.
AbandonWithLock(c) ==
    /\ pc' = [pc EXCEPT ![c] = "idle"] /\ call' = [call EXCEPT ![c] = NoCall]
    /\ UNCHANGED <<clock, db, lock, tx, answers>>

\* The process forgets the call; if it had a transaction, it is rolled back.
Abandon(c) ==
    /\ pc' = [pc EXCEPT ![c] = "idle"]
    /\ call' = [call EXCEPT ![c] = NoCall]
    /\ lock' = IF lock = c THEN Null ELSE lock
    /\ tx' = IF lock = c THEN EmptyDatabase ELSE tx
    /\ UNCHANGED <<clock, db, answers>>

\* Mutant: the busy handler waits without limit.
BusyForever(c) == FALSE /\ Abandon(c)

\* "database is locked": the busy handler gives up while another holds the lock.
BusyTimeout(c) ==
    /\ pc[c] = "begin"
    /\ lock # Null
    /\ Abandon(c)

\* A guard under the lock fails and raises ReviewConflictError.
Accepts(d, q) ==
    CASE q.op = "create_run"      -> Bound(d, q) => BoundToDigest(d, q)
      [] q.op = "issue_challenge" -> Issuable(d, q)
      [] q.op = "record_review"   -> Reviewable(d, q)

Refuse(c) ==
    /\ pc[c] = "select"
    /\ ~Accepts(tx, call[c])
    /\ Abandon(c)

\* The nonce is the primary key of challenges: sqlite3.IntegrityError.
NonceConflict(c) ==
    /\ pc[c] = "insert"
    /\ call[c].op = "issue_challenge"
    /\ NonceTaken(tx, call[c])
    /\ Abandon(c)

\* The process stops; closing its file descriptors frees the lock.
Crash(c) ==
    /\ pc[c] # "idle"
    /\ Abandon(c)

-----------------------------------------------------------------------------
(* The statements of a transaction *)

\* One statement of the client at stage "from", on the working copy.
Statement(c, from, to, copy) ==
    /\ pc[c] = from
    /\ tx' = copy
    /\ pc' = [pc EXCEPT ![c] = to]
    /\ UNCHANGED <<clock, db, lock, call, answers>>

\* create_run binds an unknown run; a run bound to the same packet commits as is.
SelectForCreate(c) ==
    /\ call[c].op = "create_run"
    /\ Accepts(tx, call[c])
    /\ Statement(c, "select", IF Bound(tx, call[c]) THEN "commit" ELSE "insert", tx)

SelectForIssue(c) ==
    /\ call[c].op = "issue_challenge"
    /\ Accepts(tx, call[c])
    /\ Statement(c, "select", "supersede", tx)

SelectForReview(c) ==
    /\ call[c].op = "record_review"
    /\ Accepts(tx, call[c])
    /\ Statement(c, "select", "insert", tx)

Supersede(c) ==
    Statement(c, "supersede", "insert", SupersedeLive(tx, call[c]))

RunInserted(c) ==
    /\ call[c].op = "create_run"
    /\ Statement(c, "insert", "append", InsertRun(tx, call[c]))

ChallengeInserted(c) ==
    /\ call[c].op = "issue_challenge"
    /\ ~NonceTaken(tx, call[c])
    /\ Statement(c, "insert", "append", InsertChallenge(tx, call[c]))

ReviewInserted(c) ==
    /\ call[c].op = "record_review"
    /\ Statement(c, "insert", "consume", InsertReview(tx, call[c]))

\* Mutant: the review is not put in the ledger.
ConsumedWithoutEvent(c) ==
    Statement(c, "consume", "commit", Consume(tx, call[c]))

ChallengeConsumed(c) ==
    Statement(c, "consume", "append", Consume(tx, call[c]))

EventAppended(c) ==
    Statement(c, "append", "commit", AppendEvent(tx, call[c]))

\* Mutant: the connection is closed before COMMIT.
CommitForgotten(c) ==
    /\ pc[c] = "commit"
    /\ lock' = Null /\ tx' = EmptyDatabase /\ pc' = [pc EXCEPT ![c] = "reply"]
    /\ UNCHANGED <<clock, db, call, answers>>

Commit(c) ==
    /\ pc[c] = "commit"
    /\ db' = tx
    /\ lock' = Null
    /\ tx' = EmptyDatabase
    /\ pc' = [pc EXCEPT ![c] = "reply"]
    /\ UNCHANGED <<clock, call, answers>>

Return(c) ==
    /\ pc[c] = "reply"
    /\ answers' = answers \union {PayloadOf(call[c])}
    /\ pc' = [pc EXCEPT ![c] = "idle"]
    /\ call' = [call EXCEPT ![c] = NoCall]
    /\ UNCHANGED <<clock, db, lock, tx>>

-----------------------------------------------------------------------------
(* The specification *)

Call(c) == CallCreate(c) \/ CallIssue(c) \/ CallReview(c)

Step(c) ==
    \/ Begin(c) \/ BusyTimeout(c) \/ Refuse(c) \/ NonceConflict(c)
    \/ SelectForCreate(c) \/ SelectForIssue(c) \/ SelectForReview(c)
    \/ Supersede(c) \/ RunInserted(c) \/ ChallengeInserted(c)
    \/ ReviewInserted(c) \/ ChallengeConsumed(c) \/ EventAppended(c)
    \/ Commit(c) \/ Return(c)

Next == Tick \/ \E c \in Clients : Call(c) \/ Step(c) \/ Crash(c)

Spec == Init /\ [][Next]_vars

\* SQLite's busy handler gives up after ten seconds, and nothing else in a
\* call waits: a process that does not crash goes on to the end of its call.
Fairness == \A c \in Clients : WF_vars(Step(c))
FairSpec == Spec /\ Fairness
-----------------------------------------------------------------------------
(* Safety: the committed tables *)

\* A run never has two challenges a reviewer could still redeem: issue_challenge
\* supersedes the older one in the transaction that inserts the new one.
OneLiveChallengePerRun == OneLive(db)

\* A review rests on one challenge of the same run and packet, given out before
\* the review, never superseded, consumed by this review, with a legal lifetime
\* that had not run out at the time the review bears; a consumed challenge has
\* its review, and a reviewed run is closed to every challenge it ever had.
ReviewRedeemsItsChallenge ==
    /\ ChallengesAgreeWithReviews(db)
    /\ \A ch \in db.challenges : LegalWindow(ch)

\* A run is bound to one packet, and whatever is issued or recorded for the run
\* is about that packet (create_run refuses another; the digest guards).
OnePacketPerRun == OnePacket(db)

-----------------------------------------------------------------------------
(* Safety: the ledger *)

\* verify_ledger accepts every committed state, whatever calls interleaved,
\* failed or crashed before.
LedgerVerifies == VerifyLedger(db.events)

\* The ledger and the tables tell one story: each row has exactly one event, and
\* each event its row.  No event is written when a challenge is superseded or
\* consumed, nor does one name the nonce of a review (ReviewRecord.as_dict), and
\* yet the whole of the tables can be rebuilt from the ledger.
LedgerMatchesTables == LedgerAgreesWithTables(db) /\ db = Replay(db.events)

\* Whoever keeps the last hash can tell any other ledger from this one by it:
\* verify_ledger rejects an altered ledger, or it ends in another hash.
HeadFixesTheLedger ==
    \A altered \in Alterations(db.events) :
        VerifyLedger(altered) /\ LastHash(altered) = LastHash(db.events)
          => altered = db.events

\* In ledger order, the challenge a review redeemed is the one issued last for
\* the run, and nothing happens to a run after its review.
LedgerTellsTheProtocol ==
    /\ \A v \in db.reviews : \E ch \in db.challenges :
           Redeems(v, ch) /\ IssuedLast(db.events, ch)
    /\ ReviewIsLast(db.events)

-----------------------------------------------------------------------------
(* Safety: what callers were told *)

\* What a call returned is committed and stays committed, whatever fails later:
\* every answer is in the ledger.
AnswersAreDurable == \A a \in answers : InLedger(db.events, a)

-----------------------------------------------------------------------------
(* What a step may never do *)

\* The ledger only grows at its end: no concurrent or abandoned transaction
\* takes back or rewrites an event that was committed.
LedgerAppendOnly ==
    [][/\ Len(db.events) <= Len(db'.events)
       /\ \A i \in DOMAIN db.events : db'.events[i] = db.events[i]]_vars

\* A recorded review, a run's binding and the closing of a challenge are final.
Finality ==
    [][/\ db.runs \subseteq db'.runs
       /\ db.reviews \subseteq db'.reviews
       /\ \A ch \in db.challenges : \E new \in db'.challenges :
             /\ ChallengeFact(new) = ChallengeFact(ch)
             /\ ch.superseded => new = ch
             /\ ch.consumed_at # Null => new = ch]_vars

-----------------------------------------------------------------------------
(* Liveness *)

\* A transaction ends, however it ends, and leaves the lock free.
LockIsReleased == (lock # Null) ~> (lock = Null)

\* Every call comes back, if only with an error, however others use the lock.
EveryCallReturns == \A c \in Clients : (pc[c] # "idle") ~> (pc[c] = "idle")

-----------------------------------------------------------------------------
(* A statement of the documentation *)

\* "Review storage rejects ... expired ... nonces" (security-controls.md): when
\* record_review accepts a nonce, the nonce has not expired.
ExpiredNonceIsRejected ==
    [][\A c \in Clients : SelectForReview(c) =>
         \A ch \in tx.challenges :
             ch.nonce = call[c].nonce => clock <= ch.expires_at]_vars

-----------------------------------------------------------------------------
(* The inductive invariant *)

InTransaction == {"select", "supersede", "insert", "consume", "append", "commit"}

\* The lock is held by the one client that is inside a transaction.
LockInv ==
    \A c \in Clients :
        /\ pc[c] \in InTransaction <=> lock = c
        /\ pc[c] = "idle" <=> call[c] = NoCall

\* The statements of a transaction have been run on the committed database and
\* on nothing else, and its guards hold there.
Stage(c) ==
    LET q == call[c] IN
    /\ pc[c] = "select" => tx = db
    /\ pc[c] = "supersede" =>
          q.op = "issue_challenge" /\ Issuable(db, q) /\ tx = db
    /\ pc[c] = "insert" =>
          \/ q.op = "create_run" /\ ~Bound(db, q) /\ tx = db
          \/ q.op = "issue_challenge" /\ Issuable(db, q) /\ tx = SupersedeLive(db, q)
          \/ q.op = "record_review" /\ Reviewable(db, q) /\ tx = db
    /\ pc[c] = "consume" =>
          q.op = "record_review" /\ Reviewable(db, q) /\ tx = InsertReview(db, q)
    /\ pc[c] = "append" => Applicable(db, q) /\ tx = Rows(db, q)
    /\ pc[c] = "commit" =>
          \/ Applicable(db, q) /\ tx = Effect(db, q)
          \/ q.op = "create_run" /\ BoundToDigest(db, q) /\ tx = db
    /\ pc[c] = "reply" => InLedger(db.events, PayloadOf(q))

StageInv == \A c \in Clients : Stage(c)

\* Clock values a call captured are not in the future, and a reviewer got the
\* nonce before the call.
ClockInv ==
    /\ \A ch \in db.challenges : ch.issued_at <= clock
    /\ \A c \in Clients :
          /\ call[c] \in IssueRequests \union ReviewRequests => call[c].now <= clock
          /\ call[c] \in ReviewRequests =>
                /\ call[c].nonce \in HeldNonces
                /\ \A ch \in db.challenges :
                      ch.nonce = call[c].nonce => ch.issued_at <= call[c].now

\* TypeOK and the conjuncts that make the safety properties inductive.
IInv ==
    TypeOK /\ LockInv /\ StageInv /\ ClockInv /\ WellFormed(db) /\ AnswersAreDurable

-----------------------------------------------------------------------------
(* The abstract protocol *)

\* The refinement mapping: what the protocol sees of a database.
IssuedNonces(d) == {ch.nonce : ch \in d.challenges}
OpenChallenges(d) == {ChallengeFact(ch) : ch \in {x \in d.challenges : Live(x)}}
Verdict(v) ==
    [run_id |-> v.run_id, decision_digest |-> v.decision_digest, nonce |-> v.nonce,
     reviewer |-> v.reviewer, action |-> v.action, reviewed_at |-> v.reviewed_at]
Verdicts(d) == {Verdict(v) : v \in d.reviews}

Protocol == INSTANCE ReviewProtocol WITH
    Actions <- ReviewActions,
    Times   <- 0..MaxTime,
    bound   <- db.runs,
    issued  <- IssuedNonces(db),
    open    <- OpenChallenges(db),
    closed  <- Verdicts(db)

\* Every step of the store is a step of the protocol or changes nothing of it:
\* in particular a refused, timed-out or crashed call leaves no trace.
ImplementsProtocol == Protocol!Spec
=============================================================================
