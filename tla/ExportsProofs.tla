---------------------------- MODULE ExportsProofs ----------------------------
(***************************************************************************)
(* Theorems about Exports, for any number of exporters, killed or not, and *)
(* any runs, packets, nonces and reviewers.                                *)
(*                                                                         *)
(* The snapshots the database holds only grow in number.  Whatever is in a *)
(* process, in a file or in what was read of one is made of such snapshots *)
(* (SnapshotInv, FileInv), and a digest is reported only of a text that is *)
(* not empty (ProgressInv).                                                *)
(***************************************************************************)
EXTENDS Exports, SequenceTheorems, TLAPS

USE NullIsNothing DEF store, process, history, Active, Formats

-----------------------------------------------------------------------------
(* Texts and snapshots *)

LEMMA CommittedAreSnapshots == CommittedSnapshots \subseteq Snapshots
  BY DEF CommittedSnapshots

\* The text of a snapshot is one or two of its blocks.
LEMMA RenderingIsText ==
    ASSUME NEW S, NEW s \in S
    PROVE  Rendering(s) \in Seq(S) /\ Rendering(s) # <<>>
  BY DEF Rendering

\* Writing over a text leaves blocks of the old text and of the new one only.
LEMMA OverwriteIsText ==
    ASSUME NEW S, NEW old \in Seq(S), NEW text \in Seq(S)
    PROVE  Overwrite(old, text) \in Seq(S)
  <1>1. Len(text) + 1 \in Int /\ Len(old) \in Int /\ Len(text) \in Nat
    BY LenProperties
  <1>2. \A i \in Len(text) + 1 .. Len(old) : old[i] \in S
    BY <1>1, ElementOfSeq
  <1>3. SubSeq(old, Len(text) + 1, Len(old)) \in Seq(S)
    BY <1>1, <1>2, SubSeqProperties
  <1> QED
    BY <1>3, ConcatProperties DEF Overwrite

\* Bindings and verdicts are added and never taken back.
LEMMA CommittedSnapshotsGrow ==
    ASSUME bound \subseteq bound', closed \subseteq closed'
    PROVE  CommittedSnapshots \subseteq CommittedSnapshots'
  BY DEF CommittedSnapshots, Committed, Snapshots, Verdicts

\* The review of a run is final, and about the packet of the run.
LEMMA ReviewOfIsCommitted ==
    ASSUME TypeOK, StoreInv, NEW s \in CommittedSnapshots
    PROVE  [s EXCEPT !.review = ReviewOf(s.run_id)] \in CommittedSnapshots
  <1> DEFINE v == ReviewOf(s.run_id)
             t == [s EXCEPT !.review = v]
  <1>1. s \in Snapshots /\ [run_id |-> s.run_id, decision_digest |-> s.packet] \in bound
    BY DEF CommittedSnapshots, Committed
  <1>2. CASE ~Store!Closed(s.run_id)
    <2>1. v = Null
      BY <1>2 DEF ReviewOf
    <2>2. t \in Snapshots /\ t.run_id = s.run_id /\ t.packet = s.packet /\ t.review = Null
      BY <2>1, <1>1 DEF Snapshots
    <2> QED
      BY <2>2, <1>1 DEF CommittedSnapshots, Committed
  <1>3. CASE Store!Closed(s.run_id)
    <2>1. v \in closed /\ v.run_id = s.run_id
      BY <1>3 DEF ReviewOf, Store!Closed
    <2>2. [run_id |-> s.run_id, decision_digest |-> v.decision_digest] \in bound
      BY <2>1 DEF StoreInv
    <2>3. v.decision_digest = s.packet
      BY <2>2, <1>1 DEF StoreInv
    <2>4. v \in Verdicts
      BY <2>1 DEF TypeOK
    <2> HIDE DEF v
    <2>5. t \in Snapshots /\ t.run_id = s.run_id /\ t.packet = s.packet /\ t.review = v
      BY <2>4, <1>1 DEF Snapshots
    <2>6. t \in CommittedSnapshots
      BY <2>1, <2>3, <2>5, <1>1 DEF CommittedSnapshots, Committed
    <2> QED
      BY <2>6 DEF v
  <1> QED
    BY <1>2, <1>3

-----------------------------------------------------------------------------
(* Steps of the database *)

LEMMA InitCore == Init => CoreInv
  <1> SUFFICES ASSUME Init PROVE CoreInv
    OBVIOUS
  <1> USE DEF Init, Store!Init
  <1>1. TypeOK
    BY DEF TypeOK, NoSnapshot, NothingSeen
  <1>2. StoreInv /\ SnapshotInv
    BY DEF StoreInv, SnapshotInv
  <1>3. FileInv
    BY DEF FileInv, NothingSeen
  <1>4. ProgressInv
    BY DEF ProgressInv
  <1> QED
    BY <1>1, <1>2, <1>3, <1>4 DEF CoreInv

\* What the three operations of the store do to the tables.
LEMMA StoreGrows ==
    ASSUME TypeOK, StoreInv, Store!Next
    PROVE  /\ bound \subseteq bound' /\ closed \subseteq closed'
           /\ bound' \subseteq [run_id : RunIds, decision_digest : Digests]
           /\ closed' \subseteq Verdicts
           /\ StoreInv'
  <1>1. CASE \E r \in RunIds, d \in Digests : Store!Bind(r, d)
    <2>1. PICK r \in RunIds, d \in Digests : Store!Bind(r, d)
      BY <1>1
    <2> DEFINE new == [run_id |-> r, decision_digest |-> d]
    <2>2. bound' = bound \union {new} /\ open' = open /\ closed' = closed
      BY <2>1 DEF Store!Bind
    <2>3. \A b \in bound : b.run_id # new.run_id
      BY <2>1 DEF Store!Bind
    <2>4. \A b, c \in bound' : b.run_id = c.run_id => b = c
      BY <2>2, <2>3 DEF StoreInv
    <2>5. StoreInv'
      BY <2>2, <2>4 DEF StoreInv
    <2> QED
      BY <2>2, <2>5 DEF TypeOK
  <1>2. CASE \E b \in bound, n \in Nonces, t \in Times, ttl \in MinTtl..MaxTtl :
                Store!Issue(b, n, t, ttl)
    <2>1. PICK b \in bound, n \in Nonces, t \in Times, ttl \in MinTtl..MaxTtl :
                Store!Issue(b, n, t, ttl)
      BY <1>2
    <2> DEFINE new == [run_id |-> b.run_id, decision_digest |-> b.decision_digest,
                       nonce |-> n, issued_at |-> t, expires_at |-> t + ttl]
    <2>2. /\ bound' = bound /\ closed' = closed
          /\ open' \subseteq open \union {new}
      BY <2>1 DEF Store!Issue
    <2>3. b = [run_id |-> b.run_id, decision_digest |-> b.decision_digest]
      BY DEF TypeOK
    <2>4. /\ [run_id |-> new.run_id, decision_digest |-> new.decision_digest] \in bound
          /\ new.nonce \in Nonces
      BY <2>3
    <2> HIDE DEF new
    <2>5. StoreInv'
      BY <2>2, <2>4 DEF StoreInv
    <2> QED
      BY <2>2, <2>5 DEF TypeOK
  <1>3. CASE \E o \in open, who \in Reviewers, act \in Actions, t \in Times :
                Store!Decide(o, who, act, t)
    <2>1. PICK o \in open, who \in Reviewers, act \in Actions, t \in Times :
                Store!Decide(o, who, act, t)
      BY <1>3
    <2> DEFINE new == [run_id |-> o.run_id, decision_digest |-> o.decision_digest,
                       nonce |-> o.nonce, reviewer |-> who, action |-> act,
                       reviewed_at |-> t]
    <2>2. /\ bound' = bound /\ closed' = closed \union {new} /\ open' \subseteq open
      BY <2>1 DEF Store!Decide
    <2>3. /\ [run_id |-> o.run_id, decision_digest |-> o.decision_digest] \in bound
          /\ o.nonce \in Nonces
      BY DEF StoreInv
    <2>4. o.run_id \in RunIds /\ o.decision_digest \in Digests
      BY <2>3 DEF TypeOK
    <2>5. new \in Verdicts
      BY <2>3, <2>4 DEF Verdicts
    <2>6. [run_id |-> new.run_id, decision_digest |-> new.decision_digest] \in bound
      BY <2>3
    <2>8. \A v \in closed : v.run_id # new.run_id
      BY <2>1 DEF Store!Decide, Store!Closed
    <2> HIDE DEF new
    <2>7. StoreInv'
      BY <2>2, <2>6, <2>8 DEF StoreInv
    <2> QED
      BY <2>2, <2>5, <2>7 DEF TypeOK
  <1> QED
    BY <1>1, <1>2, <1>3 DEF Store!Next

LEMMA StoreStepKeepsCore == CoreInv /\ StoreStep => CoreInv'
  <1> SUFFICES ASSUME CoreInv, StoreStep PROVE CoreInv'
    OBVIOUS
  <1> USE DEF CoreInv
  <1>1. /\ bound \subseteq bound' /\ closed \subseteq closed'
        /\ bound' \subseteq [run_id : RunIds, decision_digest : Digests]
        /\ closed' \subseteq Verdicts
        /\ StoreInv'
    BY StoreGrows DEF StoreStep
  <1>2. CommittedSnapshots \subseteq CommittedSnapshots'
    BY <1>1, CommittedSnapshotsGrow
  <1>3. UNCHANGED <<files, step, turn, snapshot, seen, outcome, failed, alone, serial, reported>>
    BY DEF StoreStep
  <1>4. TypeOK'
    BY <1>1, <1>3 DEF TypeOK
  <1>5. SnapshotInv'
    BY <1>2, <1>3 DEF SnapshotInv
  <1>6. FileInv'
    <2>1. \A s : s \in Seq(CommittedSnapshots) => s \in Seq(CommittedSnapshots')
      BY <1>2, SeqMonotonic
    <2> QED
      BY <2>1, <1>2, <1>3 DEF FileInv
  <1>7. ProgressInv'
    BY <1>3 DEF ProgressInv, Read
  <1> QED
    BY <1>1, <1>4, <1>5, <1>6, <1>7

-----------------------------------------------------------------------------
(* Steps of a process: the database is left alone *)

LEMMA SameStore ==
    ASSUME StoreInv, UNCHANGED store
    PROVE  StoreInv' /\ CommittedSnapshots' = CommittedSnapshots
  BY DEF StoreInv, CommittedSnapshots, Committed

LEMMA StutterKeepsCore == CoreInv /\ UNCHANGED vars => CoreInv'
  <1> SUFFICES ASSUME CoreInv, UNCHANGED vars PROVE CoreInv'
    OBVIOUS
  <1> USE DEF CoreInv, vars
  <1>1. StoreInv' /\ CommittedSnapshots' = CommittedSnapshots
    BY SameStore
  <1>2. TypeOK'
    BY DEF TypeOK
  <1>3. SnapshotInv' /\ FileInv' /\ ProgressInv'
    BY <1>1 DEF SnapshotInv, FileInv, ProgressInv, Read
  <1> QED
    BY <1>1, <1>2, <1>3

LEMMA StartExportKeepsCore ==
    ASSUME CoreInv, NEW p \in Exporters, NEW r \in RunIds, StartExport(p, r)
    PROVE  CoreInv'
  <1> USE DEF CoreInv, StartExport
  <1>1. StoreInv' /\ CommittedSnapshots' = CommittedSnapshots
    BY SameStore
  <1>2. TypeOK'
    BY DEF TypeOK, NoSnapshot, Exporting
  <1>3. SnapshotInv'
    BY <1>1 DEF SnapshotInv, TypeOK, NoSnapshot
  <1>4. FileInv'
    BY <1>1 DEF FileInv
  <1>5. ProgressInv'
    BY DEF ProgressInv, TypeOK, Read
  <1> QED
    BY <1>1, <1>2, <1>3, <1>4, <1>5

LEMMA KillKeepsCore ==
    ASSUME CoreInv, NEW p \in Exporters, Kill(p)
    PROVE  CoreInv'
  <1> USE DEF CoreInv, Kill
  <1>1. StoreInv' /\ CommittedSnapshots' = CommittedSnapshots
    BY SameStore
  <1>2. TypeOK'
    <2>1. failed' \in [RunIds -> BOOLEAN]
      BY DEF TypeOK
    <2>2. seen' \in [Exporters -> [Formats -> Seq(Snapshots)]]
      <3>1. NothingSeen \in [Formats -> Seq(Snapshots)]
        BY EmptySeq DEF NothingSeen
      <3> QED
        BY <3>1 DEF TypeOK
    <2>3. step' \in [Exporters -> Active \union {"idle", "done"}]
      BY DEF TypeOK
    <2>4. turn' \in [Exporters -> 1..3] /\ alone' \in [Exporters -> BOOLEAN]
      BY DEF TypeOK
    <2>5. snapshot' \in [Exporters -> [run_id : RunIds \union {Null},
                                      packet : Digests \union {Null},
                                      review : Verdicts \union {Null}]]
      BY DEF TypeOK, NoSnapshot
    <2>6. UNCHANGED <<store, files, outcome, serial, reported>>
      OBVIOUS
    <2> HIDE DEF Kill
    <2> QED
      BY <2>1, <2>2, <2>3, <2>4, <2>5, <2>6 DEF TypeOK
  <1>3. SnapshotInv'
    BY <1>1 DEF SnapshotInv, TypeOK
  <1>4. FileInv'
    BY <1>1 DEF FileInv, TypeOK, NothingSeen
  <1>5. ProgressInv'
    BY DEF ProgressInv, TypeOK, Read
  <1> QED
    BY <1>1, <1>2, <1>3, <1>4, <1>5

LEMMA ReadPacketKeepsCore ==
    ASSUME CoreInv, NEW p \in Exporters, ReadPacket(p)
    PROVE  CoreInv'
  <1> USE DEF CoreInv, ReadPacket
  <1>1. StoreInv' /\ CommittedSnapshots' = CommittedSnapshots
    BY SameStore
  <1>2. CASE step' = [step EXCEPT ![p] = "review"] /\ UNCHANGED <<outcome, failed>>
    <2>1. PICK b \in bound :
            /\ b.run_id = snapshot[p].run_id
            /\ snapshot' = [snapshot EXCEPT ![p].packet = b.decision_digest]
      BY <1>2 DEF End, TypeOK
    <2> DEFINE s == [snapshot[p] EXCEPT !.packet = b.decision_digest]
    <2>2. b \in [run_id : RunIds, decision_digest : Digests]
      BY DEF TypeOK
    <2>3. /\ snapshot[p].run_id \in RunIds /\ snapshot[p].review = Null
          /\ snapshot[p] \in [run_id : RunIds \union {Null}, packet : Digests \union {Null},
                              review : Verdicts \union {Null}]
      BY DEF SnapshotInv, TypeOK
    <2>4. /\ s \in Snapshots
          /\ s.run_id = b.run_id /\ s.packet = b.decision_digest /\ s.review = Null
      BY <2>1, <2>2, <2>3 DEF Snapshots
    <2>5. s \in CommittedSnapshots
      <3>1. b = [run_id |-> s.run_id, decision_digest |-> s.packet]
        BY <2>2, <2>4
      <3> QED
        BY <2>4, <3>1 DEF CommittedSnapshots, Committed
    <2>6. snapshot' = [snapshot EXCEPT ![p] = s]
      BY <2>1
    <2> HIDE DEF s
    <2>7. s \in [run_id : RunIds \union {Null}, packet : Digests \union {Null},
                 review : Verdicts \union {Null}]
      BY <2>4 DEF Snapshots
    <2>8. snapshot' \in [Exporters -> [run_id : RunIds \union {Null},
                                      packet : Digests \union {Null},
                                      review : Verdicts \union {Null}]]
      BY <2>6, <2>7 DEF TypeOK
    <2>9. TypeOK'
      BY <1>2, <2>8 DEF TypeOK
    <2>10. SnapshotInv'
      BY <1>1, <1>2, <2>5, <2>6 DEF SnapshotInv, TypeOK
    <2>11. FileInv'
      BY <1>1 DEF FileInv
    <2>12. ProgressInv'
      <3>1. \A q \in Exporters : snapshot'[q].run_id = snapshot[q].run_id
        BY <2>1, <2>4, <2>6 DEF TypeOK
      <3> QED
        BY <1>2, <3>1 DEF ProgressInv, TypeOK, Read
    <2> QED
      BY <1>1, <2>9, <2>10, <2>11, <2>12
  <1>3. CASE End(p, "refused") /\ UNCHANGED snapshot
    <2>1. TypeOK'
      BY <1>3 DEF TypeOK, End
    <2>2. SnapshotInv' /\ FileInv' /\ ProgressInv'
      BY <1>1, <1>3 DEF SnapshotInv, FileInv, ProgressInv, TypeOK, Read, End
    <2> QED
      BY <1>1, <2>1, <2>2
  <1> QED
    BY <1>2, <1>3

LEMMA ReadReviewKeepsCore ==
    ASSUME CoreInv, NEW p \in Exporters, ReadReview(p)
    PROVE  CoreInv'
  <1> USE DEF CoreInv, ReadReview
  <1>1. StoreInv' /\ CommittedSnapshots' = CommittedSnapshots
    BY SameStore
  <1>2. snapshot[p] \in CommittedSnapshots
    BY DEF SnapshotInv
  <1>3. snapshot' = [snapshot EXCEPT ![p] = [snapshot[p] EXCEPT
                                       !.review = ReviewOf(snapshot[p].run_id)]]
    OBVIOUS
  <1>4. snapshot'[p] \in CommittedSnapshots
    BY <1>2, <1>3, ReviewOfIsCommitted DEF TypeOK
  <1>5. snapshot'[p] \in Snapshots
    BY <1>4, CommittedAreSnapshots
  <1>6. \/ step' = [step EXCEPT ![p] = "open"] /\ UNCHANGED <<outcome, failed>>
        \/ End(p, "refused")
    OBVIOUS
  <1>7. TypeOK'
    <2>1. snapshot' \in [Exporters -> [run_id : RunIds \union {Null},
                                      packet : Digests \union {Null},
                                      review : Verdicts \union {Null}]]
      BY <1>3, <1>5 DEF TypeOK, Snapshots
    <2> QED
      BY <1>6, <2>1 DEF TypeOK, End
  <1>8. SnapshotInv'
    BY <1>1, <1>3, <1>4, <1>6 DEF SnapshotInv, TypeOK, End
  <1>9. FileInv'
    BY <1>1 DEF FileInv
  <1>10. ProgressInv'
    <2>1. \A q \in Exporters : snapshot'[q].run_id = snapshot[q].run_id
      BY DEF TypeOK
    <2>2. turn'[p] = 1 /\ step'[p] \in {"open", "done"}
      BY <1>6 DEF ProgressInv, TypeOK, End
    <2>3. \A q \in Exporters \ {p} : step'[q] = step[q]
      BY <1>6 DEF TypeOK, End
    <2>4. UNCHANGED <<files, turn, seen>>
      OBVIOUS
    <2> QED
      BY <2>1, <2>2, <2>3, <2>4 DEF ProgressInv, Read
  <1> QED
    BY <1>1, <1>7, <1>8, <1>9, <1>10

\* Steps that write a file: the file is there and holds committed text.
LEMMA WritingKeepsCore ==
    ASSUME CoreInv, NEW p \in Exporters, step[p] \in {"open", "write"},
           NEW text \in Seq(CommittedSnapshots), NEW to \in Active, NEW next \in 1..3,
           files' = [files EXCEPT ![snapshot[p].run_id][Order[turn[p]]] = text],
           step' = [step EXCEPT ![p] = to], turn' = [turn EXCEPT ![p] = next],
           \/ step[p] = "open" /\ to = "write" /\ next = turn[p]
           \/ step[p] = "write" /\ turn[p] < 3 /\ to = "open" /\ next = turn[p] + 1
           \/ step[p] = "write" /\ turn[p] = 3 /\ to = "verify_json" /\ next = 1,
           UNCHANGED <<store, snapshot, seen, outcome, failed, history>>
    PROVE  CoreInv'
  <1> USE DEF CoreInv
  <1> DEFINE r == snapshot[p].run_id
             f == Order[turn[p]]
  <1>1. StoreInv' /\ CommittedSnapshots' = CommittedSnapshots
    BY SameStore
  <1>2. snapshot[p] \in CommittedSnapshots /\ r \in RunIds
    BY DEF SnapshotInv, CommittedSnapshots, Snapshots
  <1>3. turn[p] \in 1..3 /\ f \in Formats
    BY DEF TypeOK, Order
  <1>4. text \in Seq(Snapshots) /\ text # Null
    BY CommittedAreSnapshots, SeqMonotonic
  <1>5. \A i \in RunIds, g \in Formats :
            files'[i][g] = IF i = r /\ g = f THEN text ELSE files[i][g]
    BY <1>2, <1>3 DEF TypeOK
  <1>6. TypeOK'
    <2>1. files' \in [RunIds -> [Formats -> Seq(Snapshots) \union {Null}]]
      BY <1>2, <1>3, <1>4 DEF TypeOK
    <2> QED
      BY <2>1 DEF TypeOK
  <1>7. SnapshotInv'
    BY <1>1 DEF SnapshotInv, TypeOK
  <1>8. FileInv'
    BY <1>1, <1>5 DEF FileInv
  <1>9. ProgressInv'
    <2> SUFFICES ASSUME NEW q \in Exporters
                 PROVE  /\ \A i \in 1..3 :
                              \/ step'[q] \in {"open", "write"} /\ i < turn'[q]
                              \/ step'[q] = "write" /\ i = turn'[q]
                              \/ step'[q] \in {"verify_json", "verify_markdown",
                                              "verify_html", "verify_links"}
                              => Read(q, Order[i])' # Null
                        /\ step'[q] \notin {"open", "write"} => turn'[q] = 1
                        /\ step'[q] \in {"verify_markdown", "verify_html", "verify_links"}
                              => seen'[q]["json"] # <<>>
      BY DEF ProgressInv
    <2>1. \A i \in 1..3 : Order[i] \in Formats
      BY DEF Order
    <2>2. CASE q # p
      <3>1. step'[q] = step[q] /\ turn'[q] = turn[q]
        BY <2>2 DEF TypeOK
      <3>2. step[q] \in {"open", "write", "verify_json", "verify_markdown", "verify_html",
                        "verify_links"} => snapshot[q].run_id \in RunIds
        BY DEF SnapshotInv, CommittedSnapshots, Snapshots
      <3> QED
        BY <3>1, <3>2, <2>1, <1>4, <1>5 DEF ProgressInv, Read
    <2>3. CASE q = p
      <3>1. step'[p] = to /\ turn'[p] = next
        BY DEF TypeOK
      <3>2. files'[r][f] # Null
        BY <1>2, <1>3, <1>4, <1>5
      <3>3. \A i \in 1..3 : i < turn[p] => files'[r][Order[i]] # Null
        BY <1>2, <1>4, <1>5, <2>1 DEF ProgressInv, Read
      <3>4. \A i \in 1..3 : i <= turn[p] => files'[r][Order[i]] # Null
        BY <3>2, <3>3, <1>3
      <3>5. \A i \in 1..3 : Read(p, Order[i])' = files'[r][Order[i]]
        BY DEF Read
      <3>6. \A i \in 1..3 :
              \/ to \in {"open", "write"} /\ i < next
              \/ to = "write" /\ i = next
              \/ to \in {"verify_json", "verify_markdown", "verify_html", "verify_links"}
              => i <= turn[p]
        BY <1>3
      <3>7. /\ to \notin {"open", "write"} => next = 1
            /\ to \notin {"verify_markdown", "verify_html", "verify_links"}
        OBVIOUS
      <3> QED
        BY <2>3, <3>1, <3>4, <3>5, <3>6, <3>7
    <2> QED
      BY <2>2, <2>3
  <1> QED
    BY <1>1, <1>6, <1>7, <1>8, <1>9

LEMMA OpenFileKeepsCore ==
    ASSUME CoreInv, NEW p \in Exporters, OpenFile(p)
    PROVE  CoreInv'
  <1> DEFINE next == turn[p]
  <1>1. next \in 1..3 /\ turn' = [turn EXCEPT ![p] = next]
    BY DEF OpenFile, CoreInv, TypeOK
  <1>2. <<>> \in Seq(CommittedSnapshots)
    BY EmptySeq
  <1> HIDE DEF next
  <1>3. next = turn[p]
    BY DEF next
  <1> QED
    BY <1>1, <1>2, <1>3, WritingKeepsCore DEF OpenFile

LEMMA WriteFileKeepsCore ==
    ASSUME CoreInv, NEW p \in Exporters, WriteFile(p)
    PROVE  CoreInv'
  <1> DEFINE r    == snapshot[p].run_id
             f    == Order[turn[p]]
             text == Overwrite(files[r][f], Rendering(snapshot[p]))
             next == IF turn[p] < 3 THEN turn[p] + 1 ELSE 1
             to   == IF turn[p] < 3 THEN "open" ELSE "verify_json"
  <1>1. /\ snapshot[p] \in CommittedSnapshots /\ r \in RunIds
        /\ turn[p] \in 1..3 /\ f \in Formats
    BY DEF WriteFile, CoreInv, TypeOK, SnapshotInv, CommittedSnapshots, Snapshots, Order
  <1>2. files[r][f] # Null
    BY <1>1 DEF WriteFile, CoreInv, ProgressInv, Read
  <1>3. files[r][f] \in Seq(CommittedSnapshots)
    BY <1>1, <1>2 DEF CoreInv, FileInv
  <1>4. text \in Seq(CommittedSnapshots)
    BY <1>1, <1>3, RenderingIsText, OverwriteIsText
  <1>5. files' = [files EXCEPT ![r][f] = text]
    BY DEF WriteFile
  <1>6. /\ step[p] = "write"
        /\ step' = [step EXCEPT ![p] = to] /\ turn' = [turn EXCEPT ![p] = next]
        /\ UNCHANGED <<store, snapshot, seen, outcome, failed, history>>
    BY <1>1 DEF WriteFile, CoreInv, TypeOK
  <1>7. /\ to \in Active /\ next \in 1..3
        /\ \/ turn[p] < 3 /\ to = "open" /\ next = turn[p] + 1
           \/ turn[p] = 3 /\ to = "verify_json" /\ next = 1
    BY <1>1
  <1> HIDE DEF text, to, next
  <1> QED
    BY <1>4, <1>5, <1>6, <1>7, WritingKeepsCore

-----------------------------------------------------------------------------
(* The verification *)

\* Steps of the verification leave the files and what was read of the database
\* alone: it is enough to look at what they have read of the files.
LEMMA VerifyingKeepsCore ==
    ASSUME CoreInv, NEW p \in Exporters,
           step[p] \in {"verify_json", "verify_markdown", "verify_html", "verify_links"},
           NEW to \in {"verify_markdown", "verify_html", "verify_links", "done"},
           NEW texts \in [Formats -> Seq(CommittedSnapshots)],
           to # "done" => texts["json"] # <<>>,
           step' = [step EXCEPT ![p] = to], seen' = [seen EXCEPT ![p] = texts],
           outcome' \in [Exporters -> {"none", "exported", "refused", "raised"}],
           failed' \in [RunIds -> BOOLEAN],
           reported' \subseteq CommittedSnapshots,
           UNCHANGED <<store, files, turn, snapshot, alone, serial>>
    PROVE  CoreInv'
  <1> USE DEF CoreInv
  <1>1. StoreInv' /\ CommittedSnapshots' = CommittedSnapshots
    BY SameStore
  <1>2. TypeOK'
    <2>1. texts \in [Formats -> Seq(Snapshots)]
      BY CommittedAreSnapshots, SeqMonotonic
    <2>2. reported' \subseteq Snapshots
      BY CommittedAreSnapshots
    <2> QED
      BY <2>1, <2>2 DEF TypeOK
  <1>3. SnapshotInv'
    BY <1>1 DEF SnapshotInv, TypeOK
  <1>4. FileInv'
    BY <1>1 DEF FileInv, TypeOK
  <1>5. ProgressInv'
    <2>1. \A q \in Exporters :
            IF q = p THEN step'[q] = to /\ seen'[q] = texts
                     ELSE step'[q] = step[q] /\ seen'[q] = seen[q]
      BY DEF TypeOK
    <2>2. \A q \in Exporters, i \in 1..3 : Read(q, Order[i])' = Read(q, Order[i])
      BY DEF Read
    <2> QED
      BY <2>1, <2>2 DEF ProgressInv
  <1> QED
    BY <1>1, <1>2, <1>3, <1>4, <1>5

\* What a verification reads: the file is there, and holds committed text.
LEMMA ReadIsText ==
    ASSUME CoreInv, NEW p \in Exporters, NEW f \in Formats,
           step[p] \in {"verify_json", "verify_markdown", "verify_html", "verify_links"}
    PROVE  Read(p, f) \in Seq(CommittedSnapshots)
  <1>1. snapshot[p].run_id \in RunIds
    BY DEF CoreInv, SnapshotInv, CommittedSnapshots, Snapshots
  <1>2. Read(p, f) # Null
    BY DEF CoreInv, ProgressInv, Order
  <1> QED
    BY <1>1, <1>2 DEF CoreInv, FileInv, Read

\* A reading that passes.
LEMMA VerifyKeepsCore ==
    ASSUME CoreInv, NEW p \in Exporters, NEW f \in Formats,
           NEW to \in {"verify_markdown", "verify_html", "verify_links"},
           step[p] \in {"verify_json", "verify_markdown", "verify_html", "verify_links"},
           UNCHANGED <<store, files, turn, snapshot, history>>,
           IF f = "json" THEN Read(p, f) # <<>> ELSE seen[p]["json"] # <<>>,
           Verify(p, f, to)
    PROVE  CoreInv'
  <1> DEFINE texts == [seen[p] EXCEPT ![f] = Read(p, f)]
  <1>1. seen[p] \in [Formats -> Seq(CommittedSnapshots)]
    BY DEF CoreInv, FileInv, TypeOK
  <1>2. texts \in [Formats -> Seq(CommittedSnapshots)]
    BY <1>1, ReadIsText
  <1>3. texts["json"] # <<>>
    BY <1>1
  <1>4. /\ step' = [step EXCEPT ![p] = to] /\ seen' = [seen EXCEPT ![p] = texts]
        /\ UNCHANGED <<outcome, failed>>
    BY DEF Verify
  <1>5. /\ outcome' \in [Exporters -> {"none", "exported", "refused", "raised"}]
        /\ failed' \in [RunIds -> BOOLEAN]
        /\ reported' \subseteq CommittedSnapshots
    BY <1>4 DEF CoreInv, TypeOK, FileInv
  <1> HIDE DEF texts
  <1> QED
    BY <1>2, <1>3, <1>4, <1>5, VerifyingKeepsCore

\* A reading that ends the command.
LEMMA EndKeepsCore ==
    ASSUME CoreInv, NEW p \in Exporters, NEW how \in {"exported", "refused", "raised"},
           step[p] \in {"verify_json", "verify_markdown", "verify_html", "verify_links"},
           End(p, how), seen' = [seen EXCEPT ![p] = NothingSeen],
           reported' \subseteq CommittedSnapshots,
           UNCHANGED <<store, files, turn, snapshot, alone, serial>>
    PROVE  CoreInv'
  <1>1. NothingSeen \in [Formats -> Seq(CommittedSnapshots)]
    BY EmptySeq DEF NothingSeen
  <1>2. /\ step' = [step EXCEPT ![p] = "done"]
        /\ outcome' \in [Exporters -> {"none", "exported", "refused", "raised"}]
        /\ failed' \in [RunIds -> BOOLEAN]
    BY DEF End, CoreInv, TypeOK
  <1> QED
    BY <1>1, <1>2, VerifyingKeepsCore

LEMMA VerifyJsonKeepsCore ==
    ASSUME CoreInv, NEW p \in Exporters, VerifyJson(p)
    PROVE  CoreInv'
  <1>1. CASE Parses(Read(p, "json")) /\ Verify(p, "json", "verify_markdown")
    BY <1>1, VerifyKeepsCore DEF VerifyJson, Parses
  <1>2. CASE Fail(p, "raised")
    BY <1>2, EndKeepsCore DEF VerifyJson, Fail, CoreInv, FileInv
  <1> QED
    BY <1>1, <1>2 DEF VerifyJson

LEMMA VerifyMarkdownKeepsCore ==
    ASSUME CoreInv, NEW p \in Exporters, VerifyMarkdown(p)
    PROVE  CoreInv'
  <1>1. seen[p]["json"] # <<>>
    BY DEF VerifyMarkdown, CoreInv, ProgressInv
  <1>2. CASE Verify(p, "markdown", "verify_html")
    BY <1>1, <1>2, VerifyKeepsCore DEF VerifyMarkdown
  <1>3. CASE Fail(p, "raised")
    BY <1>3, EndKeepsCore DEF VerifyMarkdown, Fail, CoreInv, FileInv
  <1> QED
    BY <1>2, <1>3 DEF VerifyMarkdown

LEMMA VerifyHtmlKeepsCore ==
    ASSUME CoreInv, NEW p \in Exporters, VerifyHtml(p)
    PROVE  CoreInv'
  <1>1. seen[p]["json"] # <<>>
    BY DEF VerifyHtml, CoreInv, ProgressInv
  <1>2. CASE Verify(p, "html", "verify_links")
    BY <1>1, <1>2, VerifyKeepsCore DEF VerifyHtml
  <1>3. CASE Fail(p, "refused")
    BY <1>3, EndKeepsCore DEF VerifyHtml, Fail, CoreInv, FileInv
  <1> QED
    BY <1>2, <1>3 DEF VerifyHtml

\* The digest that is reported is the mark of a text that is not empty.
LEMMA VerifyLinksKeepsCore ==
    ASSUME CoreInv, NEW p \in Exporters, VerifyLinks(p)
    PROVE  CoreInv'
  <1>1. PICK how \in {"exported", "refused", "raised"} : End(p, how)
    BY DEF VerifyLinks
  <1>2. /\ seen[p]["json"] \in Seq(CommittedSnapshots)
        /\ seen[p]["json"] # <<>>
    BY DEF VerifyLinks, CoreInv, FileInv, ProgressInv
  <1>3. Mark(seen[p]["json"]) \in CommittedSnapshots
    <2>1. 1 \in 1..Len(seen[p]["json"])
      BY <1>2, EmptySeq
    <2> QED
      BY <1>2, <2>1, ElementOfSeq DEF Mark
  <1>4. reported' \subseteq CommittedSnapshots
    BY <1>3 DEF VerifyLinks, CoreInv, FileInv
  <1> QED
    BY <1>1, <1>4, EndKeepsCore DEF VerifyLinks

-----------------------------------------------------------------------------
(* All steps *)

LEMMA NextKeepsCore == CoreInv /\ [Next]_vars => CoreInv'
  <1> SUFFICES ASSUME CoreInv, [Next]_vars PROVE CoreInv'
    OBVIOUS
  <1>1. CASE StoreStep
    BY <1>1, StoreStepKeepsCore
  <1>2. CASE \E p \in Exporters, r \in RunIds : StartExport(p, r)
    BY <1>2, StartExportKeepsCore
  <1>3. CASE \E p \in Exporters : Export(p)
    BY <1>3, ReadPacketKeepsCore, ReadReviewKeepsCore, OpenFileKeepsCore,
       WriteFileKeepsCore, VerifyJsonKeepsCore, VerifyMarkdownKeepsCore,
       VerifyHtmlKeepsCore, VerifyLinksKeepsCore DEF Export
  <1>4. CASE \E p \in Exporters : Kill(p)
    BY <1>4, KillKeepsCore
  <1>5. CASE UNCHANGED vars
    BY <1>5, StutterKeepsCore
  <1> QED
    BY <1>1, <1>2, <1>3, <1>4, <1>5 DEF Next

\* The inductive invariant of one export, whatever the others do: types, and
\* blocks of committed snapshots everywhere (exporters.py 131-167).
THEOREM ExportInvariant == Spec => []CoreInv
  BY InitCore, NextKeepsCore, PTL DEF Spec

\* Every variable of the export model keeps its type.
THEOREM ExportTypes == Spec => []TypeOK
  <1>1. CoreInv => TypeOK
    BY DEF CoreInv
  <1> QED
    BY <1>1, ExportInvariant, PTL

\* However many exports overlap, are killed or race with reviews, the digest an
\* export reports is that of a snapshot the database held: the packet the run
\* is bound to, with its own final review or with none (store.py 297-308).
THEOREM ReportsAreCommitted == Spec => []ReportedSnapshotsAreCommitted
  <1>1. CoreInv => ReportedSnapshotsAreCommitted
    BY DEF CoreInv, FileInv, CommittedSnapshots, ReportedSnapshotsAreCommitted
  <1> QED
    BY <1>1, ExportInvariant, PTL
=============================================================================
