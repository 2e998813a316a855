---------------------------- MODULE ReviewTables ----------------------------
(***************************************************************************)
(* The four tables of the review database (store.py, _initialize), the     *)
(* rows a request writes, and the SQL statements ReviewStore issues, as    *)
(* operators on a database value.                                          *)
(*                                                                         *)
(* A table is the set of its rows; "events" is a sequence, in the order of *)
(* its AUTOINCREMENT key.  A packet is identified with its digest, so the  *)
(* columns packet_json and created_at, and the "decision" of the           *)
(* RUN_CREATED payload, are left out.  A comment matters to the store only *)
(* through its length limit and is left out too.                           *)
(*                                                                         *)
(* SHA-256 is a free constructor: EventHash(t, p, h) determines t, p and   *)
(* h.  Two events with one hash are therefore the same event at the end of *)
(* the same history.                                                       *)
(***************************************************************************)
EXTENDS Naturals, Sequences, FiniteSets

CONSTANTS RunIds,      \* run identifiers
          Digests,     \* decision digests, one per packet
          Nonces,      \* what a nonce factory can return
          Reviewers,   \* reviewer names with something left after strip()
          Blank,       \* a reviewer name that strip() empties
          MinTtl,      \* 60 seconds in the code
          MaxTtl,      \* 3600 seconds in the code
          Null         \* SQL NULL, and a nonce that was never issued

ASSUME TtlAssumption == MinTtl \in Nat /\ MaxTtl \in Nat /\ MinTtl <= MaxTtl
ASSUME NullAssumption == Null \notin Nat /\ Null \notin Nonces
ASSUME BlankAssumption == Blank \notin Reviewers

-----------------------------------------------------------------------------
(* Types *)

ReviewActions == {"CONFIRM", "REQUEST_REVISION", "REJECT"}
FinalStates   == {"CONFIRMED", "REVISION_REQUESTED", "REJECTED"}

RunRows == [run_id : RunIds, decision_digest : Digests]

ChallengeRows ==
    [nonce : Nonces, run_id : RunIds, decision_digest : Digests,
     issued_at : Nat, expires_at : Nat,
     consumed_at : Nat \union {Null}, superseded : BOOLEAN]

ReviewRows ==
    [run_id : RunIds, decision_digest : Digests, nonce : Nonces,
     reviewer : Reviewers, action : ReviewActions, reviewed_at : Nat,
     state : FinalStates]

\* What as_dict of a packet, a ReviewChallenge and a ReviewRecord say of a row.
RunFacts == [run_id : RunIds, decision_digest : Digests]
ChallengeFacts ==
    [run_id : RunIds, decision_digest : Digests, nonce : Nonces,
     issued_at : Nat, expires_at : Nat]
ReviewFacts ==
    [run_id : RunIds, decision_digest : Digests, reviewer : Reviewers,
     action : ReviewActions, reviewed_at : Nat, state : FinalStates]
Payloads == RunFacts \union ChallengeFacts \union ReviewFacts

EventTypes == {"RUN_CREATED", "CHALLENGE_ISSUED", "REVIEW_RECORDED"}
Hashes == Seq(EventTypes \X Payloads)
EventRows == [event_type : EventTypes, payload : Payloads,
              previous_hash : Hashes, event_hash : Hashes]

Databases == [runs : SUBSET RunRows, challenges : SUBSET ChallengeRows,
              reviews : SUBSET ReviewRows, events : Seq(EventRows)]

EmptyDatabase == [runs |-> {}, challenges |-> {}, reviews |-> {}, events |-> <<>>]

\* The arguments of the three calls that write, as far as the store reads them
\* after its argument checks, with the clock value the call captured.
CreateRequests == [op : {"create_run"}, run_id : RunIds, decision_digest : Digests]
IssueRequests ==
    [op : {"issue_challenge"}, run_id : RunIds, decision_digest : Digests,
     nonce : Nonces, now : Nat, ttl : MinTtl..MaxTtl]
ReviewRequests ==
    [op : {"record_review"}, run_id : RunIds, decision_digest : Digests,
     nonce : Nonces \union {Null}, reviewer : Reviewers,
     action : ReviewActions, now : Nat]
Requests == CreateRequests \union IssueRequests \union ReviewRequests

-----------------------------------------------------------------------------
(* Rows and payloads *)

\* Mutant: the review keeps the name of the action as its state.
StateForActionUnmapped(action) == action

\* review.py: the final state a reviewer's action leaves the run in.
StateForAction(action) ==
    CASE action = "CONFIRM"          -> "CONFIRMED"
      [] action = "REQUEST_REVISION" -> "REVISION_REQUESTED"
      [] action = "REJECT"           -> "REJECTED"

RunRow(q) == [run_id |-> q.run_id, decision_digest |-> q.decision_digest]

ChallengeRow(q) ==
    [nonce |-> q.nonce, run_id |-> q.run_id, decision_digest |-> q.decision_digest,
     issued_at |-> q.now, expires_at |-> q.now + q.ttl,
     consumed_at |-> Null, superseded |-> FALSE]

ReviewRow(q) ==
    [run_id |-> q.run_id, decision_digest |-> q.decision_digest,
     nonce |-> q.nonce, reviewer |-> q.reviewer, action |-> q.action,
     reviewed_at |-> q.now, state |-> StateForAction(q.action)]

\* ReviewChallenge.as_dict: neither consumed_at nor superseded.
ChallengeFact(c) ==
    [run_id |-> c.run_id, decision_digest |-> c.decision_digest,
     nonce |-> c.nonce, issued_at |-> c.issued_at, expires_at |-> c.expires_at]

\* ReviewRecord.as_dict: the nonce stays in the table.
ReviewFact(v) ==
    [run_id |-> v.run_id, decision_digest |-> v.decision_digest,
     reviewer |-> v.reviewer, action |-> v.action,
     reviewed_at |-> v.reviewed_at, state |-> v.state]

EventType(q) ==
    CASE q.op = "create_run"      -> "RUN_CREATED"
      [] q.op = "issue_challenge" -> "CHALLENGE_ISSUED"
      [] q.op = "record_review"   -> "REVIEW_RECORDED"

\* The payload of the event of a request; it is also what the call returns.
PayloadOf(q) ==
    CASE q.op = "create_run"      -> RunRow(q)
      [] q.op = "issue_challenge" -> ChallengeFact(ChallengeRow(q))
      [] q.op = "record_review"   -> ReviewFact(ReviewRow(q))

-----------------------------------------------------------------------------
(* SELECT *)

\* Mutant: the row is looked up by identifier and digest.
BoundByDigest(d, q) == RunRow(q) \in d.runs
Bound(d, q) == \E r \in d.runs : r.run_id = q.run_id
BoundToDigest(d, q) == RunRow(q) \in d.runs
Reviewed(d, run) == \E v \in d.reviews : v.run_id = run

Live(c) == ~c.superseded /\ c.consumed_at = Null

\* Mutant: issue_challenge does not look for a review.
IssuableAfterReview(d, q) == BoundToDigest(d, q)
\* The guards of issue_challenge under the lock.
Issuable(d, q) == BoundToDigest(d, q) /\ ~Reviewed(d, q.run_id)

\* Mutants: one of the guards is missing.
RedeemableWhenSuperseded(c, q) ==
    /\ c.run_id = q.run_id /\ c.consumed_at = Null
    /\ c.decision_digest = q.decision_digest /\ q.now <= c.expires_at
RedeemableWhenExpired(c, q) ==
    /\ c.run_id = q.run_id /\ ~c.superseded /\ c.consumed_at = Null
    /\ c.decision_digest = q.decision_digest

\* The guards of record_review on the challenge row its nonce selects.
Redeemable(c, q) ==
    /\ c.run_id = q.run_id
    /\ ~c.superseded
    /\ c.consumed_at = Null
    /\ c.decision_digest = q.decision_digest
    /\ q.now <= c.expires_at

\* The guards of record_review under the lock.
Reviewable(d, q) ==
    /\ BoundToDigest(d, q)
    /\ ~Reviewed(d, q.run_id)
    /\ \E c \in d.challenges : c.nonce = q.nonce /\ Redeemable(c, q)

-----------------------------------------------------------------------------
(* INSERT and UPDATE *)

InsertRun(d, q) == [d EXCEPT !.runs = d.runs \union {RunRow(q)}]

\* Mutant: the UPDATE is missing.
SupersedeNothing(c, q) == c

\* UPDATE challenges SET superseded = 1 WHERE run_id = ? AND consumed_at IS NULL
SupersedeRow(c, q) ==
    IF c.run_id = q.run_id /\ c.consumed_at = Null THEN [c EXCEPT !.superseded = TRUE] ELSE c
SupersedeLive(d, q) ==
    [d EXCEPT !.challenges = {SupersedeRow(c, q) : c \in d.challenges}]

NonceTaken(d, q) == \E c \in d.challenges : c.nonce = q.nonce

InsertChallenge(d, q) == [d EXCEPT !.challenges = d.challenges \union {ChallengeRow(q)}]

InsertReview(d, q) == [d EXCEPT !.reviews = d.reviews \union {ReviewRow(q)}]

\* Mutants: the UPDATE is missing, or selects by run_id.
ConsumeNothing(c, q) == c
ConsumeEveryChallenge(c, q) ==
    IF c.run_id = q.run_id THEN [c EXCEPT !.consumed_at = q.now] ELSE c

\* UPDATE challenges SET consumed_at = ? WHERE nonce = ?
ConsumeRow(c, q) ==
    IF c.nonce = q.nonce THEN [c EXCEPT !.consumed_at = q.now] ELSE c
Consume(d, q) ==
    [d EXCEPT !.challenges = {ConsumeRow(c, q) : c \in d.challenges}]

-----------------------------------------------------------------------------
(* The hash-chained ledger *)

Genesis == <<>>

\* Mutant: the payload is left out of what is hashed.
EventHashOfType(type, payload, previous) == Append(previous, <<type, Null>>)

EventHash(type, payload, previous) == Append(previous, <<type, payload>>)

LastHash(events) ==
    IF events = <<>> THEN Genesis ELSE events[Len(events)].event_hash

\* Mutant: every event starts a chain of its own.
EventRowUnchained(events, q) ==
    [event_type |-> EventType(q), payload |-> PayloadOf(q), previous_hash |-> Genesis,
     event_hash |-> EventHash(EventType(q), PayloadOf(q), Genesis)]

EventRow(events, q) ==
    [event_type |-> EventType(q), payload |-> PayloadOf(q),
     previous_hash |-> LastHash(events),
     event_hash |-> EventHash(EventType(q), PayloadOf(q), LastHash(events))]

AppendEvent(d, q) == [d EXCEPT !.events = Append(d.events, EventRow(d.events, q))]

\* verify_ledger raises at the first row for which this fails: the chain it
\* carries along is, up to that row, the stored event_hash of the row before.
VerifyLedger(events) ==
    \A i \in DOMAIN events :
        /\ events[i].previous_hash = IF i = 1 THEN Genesis ELSE events[i-1].event_hash
        /\ events[i].event_hash =
             EventHash(events[i].event_type, events[i].payload, events[i].previous_hash)

\* The payloads the ledger holds of one type.
Recorded(events, type) ==
    {events[i].payload : i \in {j \in DOMAIN events : events[j].event_type = type}}

InLedger(events, payload) == \E i \in DOMAIN events : events[i].payload = payload

-----------------------------------------------------------------------------
(* What a committed database must satisfy, predicate by predicate *)

\* A run is bound to one packet, a nonce to one challenge and a run to one
\* review; challenges and reviews are about the packet of their run.
OnePacket(d) ==
    /\ \A r1, r2 \in d.runs : r1.run_id = r2.run_id => r1 = r2
    /\ \A ch \in d.challenges : RunRow(ch) \in d.runs
    /\ \A v \in d.reviews : RunRow(v) \in d.runs
    /\ \A v1, v2 \in d.reviews : v1.run_id = v2.run_id => v1 = v2

\* The PRIMARY KEY of challenges.
OneChallengePerNonce(d) ==
    \A c1, c2 \in d.challenges : c1.nonce = c2.nonce => c1 = c2

OneLive(d) ==
    \A c1, c2 \in d.challenges :
        Live(c1) /\ Live(c2) /\ c1.run_id = c2.run_id => c1 = c2

LegalWindow(ch) == ch.expires_at - ch.issued_at \in MinTtl..MaxTtl

\* Review v used up challenge ch, inside its window.
Redeems(v, ch) ==
    /\ ch.nonce = v.nonce
    /\ ch.run_id = v.run_id /\ ch.decision_digest = v.decision_digest
    /\ ~ch.superseded /\ ch.consumed_at = v.reviewed_at
    /\ ch.issued_at <= v.reviewed_at /\ v.reviewed_at <= ch.expires_at

\* The two tables that record_review writes agree.
ChallengesAgreeWithReviews(d) ==
    /\ \A v \in d.reviews : \E ch \in d.challenges : Redeems(v, ch)
    /\ \A ch \in d.challenges : ch.consumed_at # Null =>
           \E v \in d.reviews : v.nonce = ch.nonce /\ v.run_id = ch.run_id
    /\ \A v \in d.reviews, ch \in d.challenges : v.run_id = ch.run_id => ~Live(ch)

NoEventTwice(events) ==
    \A i, j \in DOMAIN events :
        /\ events[i].event_type = events[j].event_type
        /\ events[i].payload = events[j].payload
        => i = j

\* Each row has its event and each event its row, and no event is there twice.
LedgerAgreesWithTables(d) ==
    /\ Recorded(d.events, "RUN_CREATED") = d.runs
    /\ Recorded(d.events, "CHALLENGE_ISSUED") = {ChallengeFact(ch) : ch \in d.challenges}
    /\ Recorded(d.events, "REVIEW_RECORDED") = {ReviewFact(v) : v \in d.reviews}
    /\ NoEventTwice(d.events)

\* In the ledger, ch is the challenge issued last for its run.
IssuedLast(events, ch) ==
    \E i \in DOMAIN events :
        /\ events[i].event_type = "CHALLENGE_ISSUED"
        /\ events[i].payload = ChallengeFact(ch)
        /\ \A j \in DOMAIN events :
               j > i /\ events[j].event_type = "CHALLENGE_ISSUED"
                 => events[j].payload.run_id # ch.run_id

\* A live challenge and a redeemed one are the last of their run, and what was
\* superseded is not.
LatestChallengeCounts(d) ==
    \A ch \in d.challenges : ~ch.superseded <=> IssuedLast(d.events, ch)

\* Nothing happens to a run after its review.
ReviewIsLast(events) ==
    \A i, j \in DOMAIN events :
        i < j /\ events[i].event_type = "REVIEW_RECORDED"
          => events[i].payload.run_id # events[j].payload.run_id

-----------------------------------------------------------------------------
(* What the ledger alone says of the tables *)

\* The review the ledger records for a run, and the challenge it was last issued.
ReviewOf(events, run) ==
    CHOOSE v \in Recorded(events, "REVIEW_RECORDED") : v.run_id = run
LastChallengeOf(events, run) ==
    CHOOSE f \in Recorded(events, "CHALLENGE_ISSUED") :
        f.run_id = run /\ IssuedLast(events, f)

\* The row of challenges of an event: only the last challenge of a run can be
\* live, and it is consumed by the review of the run.
ReplayedChallenge(events, f) ==
    LET last == IssuedLast(events, f)
        used == last /\ \E v \in Recorded(events, "REVIEW_RECORDED") : v.run_id = f.run_id
    IN  [nonce |-> f.nonce, run_id |-> f.run_id, decision_digest |-> f.decision_digest,
         issued_at |-> f.issued_at, expires_at |-> f.expires_at,
         consumed_at |-> IF used THEN ReviewOf(events, f.run_id).reviewed_at ELSE Null,
         superseded |-> ~last]

\* The row of reviews of an event: its nonce is that of the last challenge.
ReplayedReview(events, v) ==
    [run_id |-> v.run_id, decision_digest |-> v.decision_digest,
     nonce |-> LastChallengeOf(events, v.run_id).nonce, reviewer |-> v.reviewer,
     action |-> v.action, reviewed_at |-> v.reviewed_at, state |-> v.state]

Replay(events) ==
    [runs |-> Recorded(events, "RUN_CREATED"),
     challenges |->
        {ReplayedChallenge(events, f) : f \in Recorded(events, "CHALLENGE_ISSUED")},
     reviews |-> {ReplayedReview(events, v) : v \in Recorded(events, "REVIEW_RECORDED")},
     events |-> events]

WellFormed(d) ==
    /\ OnePacket(d)
    /\ OneChallengePerNonce(d)
    /\ OneLive(d)
    /\ \A ch \in d.challenges : LegalWindow(ch)
    /\ ChallengesAgreeWithReviews(d)
    /\ VerifyLedger(d.events)
    /\ LedgerAgreesWithTables(d)
    /\ LatestChallengeCounts(d)
    /\ ReviewIsLast(d.events)

-----------------------------------------------------------------------------
(* Ledgers that differ from one that was written *)

\* The rows with every previous_hash set to the event_hash of the row before.
Relink(rows) ==
    [i \in DOMAIN rows |->
        [rows[i] EXCEPT !.previous_hash = IF i = 1 THEN Genesis ELSE rows[i-1].event_hash]]

\* One payload replaced by that of another event; two neighbours exchanged, or
\* one event left out, and the rest relinked.
Alterations(events) ==
    LET exchanged(i) == [events EXCEPT ![i] = events[i+1], ![i+1] = events[i]]
        without(i)   == SubSeq(events, 1, i - 1) \o SubSeq(events, i + 1, Len(events))
    IN  {[events EXCEPT ![i].payload = events[j].payload] : i, j \in DOMAIN events}
          \union {Relink(exchanged(i)) : i \in 1..Len(events) - 1}
          \union {Relink(without(i)) : i \in DOMAIN events}

-----------------------------------------------------------------------------
(* The whole effect of a transaction *)

Rows(d, q) ==
    CASE q.op = "create_run"      -> InsertRun(d, q)
      [] q.op = "issue_challenge" -> InsertChallenge(SupersedeLive(d, q), q)
      [] q.op = "record_review"   -> Consume(InsertReview(d, q), q)

\* The guards under which a transaction inserts rows.
Applicable(d, q) ==
    CASE q.op = "create_run"      -> ~Bound(d, q)
      [] q.op = "issue_challenge" -> Issuable(d, q) /\ ~NonceTaken(d, q)
      [] q.op = "record_review"   -> Reviewable(d, q)

Effect(d, q) == AppendEvent(Rows(d, q), q)
=============================================================================
