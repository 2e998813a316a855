------------------------- MODULE ExportHistoryProofs -------------------------
(***************************************************************************)
(* Theorems about Exports that need the history of a run: an export nobody *)
(* overlaps leaves three whole files, exports that follow one another never*)
(* show a draft of a reviewed run again, and exports that overlap and all  *)
(* succeed leave three files of one digest.                                *)
(*                                                                         *)
(* A step of a process concerns one run.  ForOtherRuns says that what holds*)
(* of the processes and of the runs it does not concern goes on holding;   *)
(* OneProcessSteps, that it is enough then to look at the process and its  *)
(* run, and each action has a lemma that does.                             *)
(***************************************************************************)
EXTENDS ExportsProofs

USE NullIsNothing DEF store, process, history, Active, Formats

HistoryInv == RunInv /\ AloneInv /\ SerialInv /\ AgreeInv

-----------------------------------------------------------------------------
(* Texts *)

LEMMA OrderListsFormats ==
    /\ \A i \in 1..3 : Order[i] \in Formats
    /\ \A i, j \in 1..3 : Order[i] = Order[j] => i = j
    /\ \A f \in Formats : \E i \in 1..3 : Order[i] = f
  BY DEF Order

\* The text of a snapshot parses, carries its mark and has no other block.
LEMMA RenderingIsWhole ==
    ASSUME NEW s
    PROVE  /\ Parses(Rendering(s)) /\ Mark(Rendering(s)) = s
           /\ \A i \in DOMAIN Rendering(s) : Rendering(s)[i] = s
           /\ 1 \in DOMAIN Rendering(s)
  BY DEF Rendering, Parses, Mark

\* A text written into an empty file is all the file holds.
LEMMA OverwriteNothing ==
    ASSUME NEW S, NEW text \in Seq(S)
    PROVE  Overwrite(<<>>, text) = text
  <1>1. SubSeq(<<>>, Len(text) + 1, Len(<<>>)) = <<>>
    BY LenProperties
  <1> QED
    BY <1>1 DEF Overwrite

\* The database holds one reviewed snapshot of a run at most.
LEMMA ReviewedIsUnique ==
    ASSUME StoreInv, NEW s \in CommittedSnapshots, NEW t \in CommittedSnapshots,
           s.run_id = t.run_id, s.review # Null, t.review = ReviewOf(t.run_id)
    PROVE  s = t
  <1>1. s \in Snapshots /\ t \in Snapshots
    BY DEF CommittedSnapshots
  <1>2. s.packet = t.packet
    BY DEF CommittedSnapshots, Committed, StoreInv
  <1>3. s.review \in closed /\ s.review.run_id = t.run_id
    BY DEF CommittedSnapshots, Committed
  <1>4. t.review \in closed /\ t.review.run_id = t.run_id
    BY <1>3 DEF ReviewOf, Store!Closed
  <1>5. s.review = t.review
    BY <1>3, <1>4 DEF StoreInv
  <1> QED
    BY <1>1, <1>2, <1>5 DEF Snapshots

-----------------------------------------------------------------------------
(* A step of one process *)

\* What a step of p leaves alone: the other processes, and the files and the
\* history of every run but the one p exports.
Concerns(p, r) ==
    /\ \A q \in Exporters \ {p} :
          /\ step'[q] = step[q] /\ turn'[q] = turn[q] /\ snapshot'[q] = snapshot[q]
          /\ seen'[q] = seen[q] /\ outcome'[q] = outcome[q] /\ alone'[q] = alone[q]
    /\ \A x \in RunIds \ {r} : files'[x] = files[x] /\ failed'[x] = failed[x]
    /\ serial' = serial
    /\ step'[p] \in Active => snapshot'[p].run_id = r
    /\ \A s \in reported' : s \in reported \/ s.run_id = r

LEMMA ForOtherRuns ==
    ASSUME HistoryInv, NEW p \in Exporters, NEW r \in RunIds, Exporting(p, r),
           Concerns(p, r)
    PROVE  /\ \A q \in Exporters \ {p} : alone'[q] => Undisturbed(q)'
           /\ \A x \in RunIds \ {r} : serial'[x] => InTurn(x)'
           /\ \A x \in RunIds \ {r} : ~failed'[x] => Agreeing(x)'
  <1>1. ASSUME NEW q \in Exporters \ {p}, alone'[q] PROVE Undisturbed(q)'
    <2>1. Undisturbed(q)
      BY <1>1 DEF Concerns, HistoryInv, AloneInv
    <2> DEFINE x == snapshot[q].run_id
    <2>2. x \in RunIds \ {r}
      BY <2>1 DEF Undisturbed
    <2>3. \A f : Read(q, f)' = Read(q, f)
      BY <2>2 DEF Concerns, Read
    <2>4. \A other \in Exporters \ {q} : ~Exporting(other, x)'
      BY <2>1, <2>2 DEF Undisturbed, Exporting, Concerns
    <2> QED
      BY <2>1, <2>3, <2>4 DEF Undisturbed, Whole, Concerns
  <1>2. ASSUME NEW x \in RunIds \ {r}, serial'[x] PROVE InTurn(x)'
    <2>1. InTurn(x)
      BY <1>2 DEF Concerns, HistoryInv, SerialInv
    <2>2. \A q \in Exporters : Exporting(q, x)' => q # p /\ Exporting(q, x)
      BY DEF Exporting, Concerns
    <2>3. \A s \in reported' : s.run_id = x => s \in reported
      BY DEF Concerns
    <2> QED
      BY <2>1, <2>2, <2>3 DEF InTurn, Concerns
  <1>3. ASSUME NEW x \in RunIds \ {r}, ~failed'[x] PROVE Agreeing(x)'
    <2>1. Agreeing(x)
      BY <1>3 DEF Concerns, HistoryInv, AgreeInv
    <2>2. files'[x] = files[x]
      BY DEF Concerns
    <2>3. ASSUME NEW q \in Exporters, Exporting(q, x), Unconfirmed(q)
          PROVE  Exporting(q, x)' /\ Unconfirmed(q)'
      <3>1. q # p /\ snapshot[q].run_id = x
        BY <2>3 DEF Exporting
      <3> QED
        BY <3>1, <2>2, <2>3 DEF Exporting, Unconfirmed, Read, Concerns
    <2> QED
      BY <2>1, <2>2, <2>3 DEF Agreeing, Agree
  <1> QED
    BY <1>1, <1>2, <1>3

\* What is left to show of a step: about its process and its run.
Local(p, r) ==
    /\ step'[p] \in Reading => seen'[p]["json"] \in Seq(Of(r))
    /\ step'[p] \in {"open", "write"} \union Verifying => PathsResolve(r)
    /\ alone'[p] => Undisturbed(p)'
    /\ serial'[r] => InTurn(r)'
    /\ ~failed'[r] => Agreeing(r)'

LEMMA OneProcessSteps ==
    ASSUME HistoryInv, NEW p \in Exporters, NEW r \in RunIds, Exporting(p, r),
           Concerns(p, r), Local(p, r),
           \A f \in Formats : files'[r][f] \in Seq(Of(r)) \union {Null}
    PROVE  HistoryInv'
  <1>1. RunInv'
    <2>1. \A x \in RunIds, f \in Formats : files'[x][f] \in Seq(Of(x)) \union {Null}
      BY DEF Concerns, HistoryInv, RunInv
    <2>2. ASSUME NEW q \in Exporters
          PROVE  /\ step'[q] \in Reading => seen'[q]["json"] \in Seq(Of(snapshot'[q].run_id))
                 /\ step'[q] \in {"open", "write"} \union Verifying =>
                       PathsResolve(snapshot'[q].run_id)
      <3>1. CASE q # p
        BY <3>1 DEF Concerns, HistoryInv, RunInv
      <3>2. CASE q = p
        <4>1. step'[p] \in {"open", "write"} \union Verifying => snapshot'[p].run_id = r
          BY DEF Concerns, Verifying, Reading
        <4> QED
          BY <3>2, <4>1 DEF Local, Verifying
      <3> QED
        BY <3>1, <3>2
    <2>3. \A x, f : (PathsResolve(x))' = PathsResolve(x) /\ Of(x)' = Of(x)
      BY DEF PathsResolve, Of
    <2> QED
      BY <2>1, <2>2, <2>3 DEF RunInv
  <1>2. /\ \A q \in Exporters \ {p} : alone'[q] => Undisturbed(q)'
        /\ \A x \in RunIds \ {r} : serial'[x] => InTurn(x)'
        /\ \A x \in RunIds \ {r} : ~failed'[x] => Agreeing(x)'
    BY ForOtherRuns
  <1>3. AloneInv' /\ SerialInv' /\ AgreeInv'
    BY <1>2 DEF Local, AloneInv, SerialInv, AgreeInv
  <1> QED
    BY <1>1, <1>3 DEF HistoryInv

\* An active process exports a run of the directory.
LEMMA ActiveHasRun ==
    ASSUME CoreInv, NEW p \in Exporters, step[p] \in Active
    PROVE  snapshot[p].run_id \in RunIds /\ Exporting(p, snapshot[p].run_id)
  BY DEF CoreInv, SnapshotInv, CommittedSnapshots, Snapshots, Exporting

\* Whoever is alone stays alone while it steps.
LEMMA NobodyElse ==
    ASSUME NEW p \in Exporters, NEW r, Exporting(p, r), Undisturbed(p), Concerns(p, r)
    PROVE  \A other \in Exporters \ {p} : ~Exporting(other, r)'
  BY DEF Undisturbed, Exporting, Concerns

-----------------------------------------------------------------------------
(* The steps before the first file *)

\* Steps of the database do not concern any export.
LEMMA StoreKeepsHistory ==
    ASSUME HistoryInv, UNCHANGED <<files, process, failed, history>>
    PROVE  HistoryInv'
  <1>1. RunInv'
    BY DEF HistoryInv, RunInv, PathsResolve, Of
  <1>2. ASSUME NEW p \in Exporters, Undisturbed(p) PROVE Undisturbed(p)'
    BY <1>2 DEF Undisturbed, Whole, Exporting, Read
  <1>3. ASSUME NEW r \in RunIds, InTurn(r) PROVE InTurn(r)'
    BY <1>3 DEF InTurn, Exporting
  <1>4. ASSUME NEW r \in RunIds, Agreeing(r) PROVE Agreeing(r)'
    BY <1>4 DEF Agreeing, Agree, Exporting, Unconfirmed, Read
  <1> QED
    BY <1>1, <1>2, <1>3, <1>4 DEF HistoryInv, AloneInv, SerialInv, AgreeInv

\* Nothing is written or reported yet when an export starts: it is a process that
\* has still to read the files, and alone if there is no other.
LEMMA StartExportKeepsHistory ==
    ASSUME CoreInv, HistoryInv, NEW p \in Exporters, NEW r \in RunIds, StartExport(p, r)
    PROVE  HistoryInv'
  <1>1. \A q \in Exporters \ {p} :
          /\ step'[q] = step[q] /\ turn'[q] = turn[q] /\ snapshot'[q] = snapshot[q]
          /\ seen'[q] = seen[q] /\ outcome'[q] = outcome[q]
    BY DEF StartExport, CoreInv, TypeOK
  <1>2. /\ step'[p] = "packet" /\ snapshot'[p] = [NoSnapshot EXCEPT !.run_id = r]
        /\ step[p] \notin Active
        /\ UNCHANGED <<files, reported>>
    BY DEF StartExport, CoreInv, TypeOK
  <1>3. snapshot'[p].run_id = r /\ snapshot'[p].packet = Null
    BY <1>2 DEF NoSnapshot
  <1>4. /\ \A q \in Exporters \ {p} : alone'[q] => alone[q] /\ snapshot[q].run_id # r
        /\ alone'[p] = \A other \in Exporters \ {p} : ~Exporting(other, r)
        /\ \A x \in RunIds \ {r} : serial'[x] = serial[x] /\ failed'[x] = failed[x]
        /\ serial'[r] => \A other \in Exporters \ {p} : ~Exporting(other, r)
    BY DEF StartExport, CoreInv, TypeOK
  <1>5. \A x : \A q \in Exporters \ {p} : Exporting(q, x)' = Exporting(q, x)
    BY <1>1 DEF Exporting
  <1>6. \A x : Exporting(p, x)' = (x = r) /\ ~Exporting(p, x)
    BY <1>2, <1>3 DEF Exporting
  <1>7. RunInv'
    BY <1>1, <1>2 DEF HistoryInv, RunInv, Reading, Verifying, PathsResolve, Of
  <1>8. ASSUME NEW q \in Exporters, alone'[q] PROVE Undisturbed(q)'
    <2>1. CASE q = p
      <3>1. \A other \in Exporters \ {p} : ~Exporting(other, r)'
        BY <2>1, <1>4, <1>5, <1>8
      <3> QED
        BY <2>1, <1>2, <1>3, <3>1 DEF Undisturbed, Verifying, Reading
    <2>2. CASE q # p
      <3>1. Undisturbed(q) /\ snapshot[q].run_id # r
        BY <2>2, <1>4, <1>8 DEF HistoryInv, AloneInv
      <3>2. \A other \in Exporters \ {q} : ~Exporting(other, snapshot[q].run_id)'
        BY <2>2, <3>1, <1>1, <1>2, <1>3 DEF Undisturbed, Exporting
      <3>3. \A f : Read(q, f)' = Read(q, f)
        BY <2>2, <1>1, <1>2 DEF Read
      <3> QED
        BY <2>2, <1>1, <3>1, <3>2, <3>3 DEF Undisturbed, Whole
    <2> QED
      BY <2>1, <2>2
  <1>9. ASSUME NEW x \in RunIds, serial'[x] PROVE InTurn(x)'
    <2>1. InTurn(x)
      BY <1>4, <1>9 DEF StartExport, CoreInv, TypeOK, HistoryInv, SerialInv
    <2>2. CASE x = r
      <3>1. \A q \in Exporters : Exporting(q, r)' => q = p
        BY <1>4, <1>5, <1>9, <2>2
      <3>2. alone'[p]
        BY <1>4, <1>9, <2>2
      <3> QED
        BY <2>1, <2>2, <1>2, <3>1, <3>2 DEF InTurn
    <2>3. CASE x # r
      <3>1. \A q \in Exporters : Exporting(q, x)' => q # p /\ Exporting(q, x)
        BY <1>5, <1>6, <2>3
      <3>2. ASSUME NEW q \in Exporters, Exporting(q, x)' PROVE alone'[q]
        <4>1. q # p /\ alone[q] /\ snapshot[q].run_id # r
          BY <2>1, <2>3, <3>1, <3>2 DEF InTurn, Exporting
        <4> QED
          BY <4>1 DEF StartExport
      <3> QED
        BY <2>1, <1>1, <1>2, <3>1, <3>2 DEF InTurn
    <2> QED
      BY <2>2, <2>3
  <1>10. ASSUME NEW x \in RunIds, ~failed'[x] PROVE Agreeing(x)'
    <2>1. CASE x = r
      BY <2>1, <1>2, <1>6 DEF Agreeing, Unconfirmed, Reading
    <2>2. CASE x # r
      <3>1. Agreeing(x)
        BY <2>2, <1>4, <1>10 DEF HistoryInv, AgreeInv
      <3>2. ASSUME NEW q \in Exporters, Exporting(q, x), Unconfirmed(q)
            PROVE  Exporting(q, x)' /\ Unconfirmed(q)'
        <4>1. q # p
          BY <3>2, <1>6
        <4> QED
          BY <4>1, <3>2, <1>1, <1>2, <1>5 DEF Unconfirmed, Read
      <3> QED
        BY <3>1, <3>2, <1>2 DEF Agreeing, Agree
    <2> QED
      BY <2>1, <2>2
  <1> QED
    BY <1>7, <1>8, <1>9, <1>10 DEF HistoryInv, AloneInv, SerialInv, AgreeInv

\* A process that is killed is neither alone nor under way; its run has failed.
LEMMA KillKeepsHistory ==
    ASSUME CoreInv, HistoryInv, NEW p \in Exporters, Kill(p)
    PROVE  HistoryInv'
  <1>1. PICK r \in RunIds : r = snapshot[p].run_id /\ Exporting(p, r)
    BY ActiveHasRun DEF Kill
  <1>2. /\ step'[p] = "idle" /\ ~alone'[p] /\ failed'[r]
        /\ UNCHANGED <<files, serial, reported>>
    BY <1>1 DEF Kill, CoreInv, TypeOK
  <1>3. Concerns(p, r)
    BY <1>1, <1>2 DEF Concerns, Kill, CoreInv, TypeOK
  <1>4. InTurn(r) => InTurn(r)'
    <2>1. \A q \in Exporters : Exporting(q, r)' => q # p /\ Exporting(q, r)
      BY <1>2, <1>3 DEF Exporting, Concerns
    <2> QED
      BY <1>2, <1>3, <2>1 DEF InTurn, Concerns
  <1>5. Local(p, r)
    BY <1>1, <1>2, <1>4 DEF Local, Reading, Verifying, HistoryInv, SerialInv
  <1>6. \A f \in Formats : files'[r][f] \in Seq(Of(r)) \union {Null}
    BY <1>1, <1>2 DEF HistoryInv, RunInv
  <1> QED
    BY <1>1, <1>3, <1>5, <1>6, OneProcessSteps

LEMMA ReadPacketKeepsHistory ==
    ASSUME CoreInv, HistoryInv, NEW p \in Exporters, ReadPacket(p)
    PROVE  HistoryInv'
  <1>1. PICK r \in RunIds : r = snapshot[p].run_id /\ Exporting(p, r)
    BY ActiveHasRun DEF ReadPacket
  <1>2. /\ step[p] = "packet" /\ UNCHANGED <<files, turn, seen, history>>
        /\ \A q \in Exporters \ {p} :
              step'[q] = step[q] /\ snapshot'[q] = snapshot[q] /\ outcome'[q] = outcome[q]
        /\ \A x \in RunIds \ {r} : failed'[x] = failed[x]
        /\ snapshot'[p].run_id = r
        /\ \/ step'[p] = "review" /\ UNCHANGED failed
           \/ step'[p] = "done" /\ failed'[r] /\ UNCHANGED snapshot
    <2>1. CASE End(p, "refused") /\ UNCHANGED snapshot
      BY <1>1, <2>1 DEF ReadPacket, End, CoreInv, TypeOK
    <2>2. CASE step' = [step EXCEPT ![p] = "review"] /\ UNCHANGED <<outcome, failed>>
      <3>1. PICK b \in bound : snapshot' = [snapshot EXCEPT ![p].packet = b.decision_digest]
        BY <2>2 DEF ReadPacket, End, CoreInv, TypeOK
      <3>2. /\ snapshot'[p].run_id = r
            /\ \A q \in Exporters \ {p} : snapshot'[q] = snapshot[q]
        BY <3>1, <1>1 DEF CoreInv, TypeOK
      <3>3. step'[p] = "review" /\ \A q \in Exporters \ {p} : step'[q] = step[q]
        BY <2>2 DEF CoreInv, TypeOK
      <3> QED
        BY <2>2, <3>2, <3>3 DEF ReadPacket
    <2> QED
      BY <2>1, <2>2 DEF ReadPacket
  <1>3. Concerns(p, r)
    BY <1>1, <1>2 DEF Concerns
  <1>4. \A q \in Exporters : snapshot'[q].run_id = snapshot[q].run_id
    BY <1>1, <1>2
  <1>5. ASSUME alone'[p] PROVE Undisturbed(p)'
    <2>1. Undisturbed(p)
      BY <1>2, <1>5 DEF HistoryInv, AloneInv
    <2>2. \A other \in Exporters \ {p} : ~Exporting(other, r)'
      BY <1>1, <1>3, <2>1, NobodyElse
    <2> QED
      BY <1>1, <1>2, <2>1, <2>2 DEF Undisturbed, Verifying, Reading
  <1>6. InTurn(r) => InTurn(r)'
    <2>1. \A q \in Exporters : Exporting(q, r)' => Exporting(q, r)
      BY <1>2, <1>3, <1>4 DEF Exporting, Concerns
    <2>2. \A q \in Exporters : Exporting(q, r)' /\ step'[q] \notin {"packet", "review"}
              => step'[q] = step[q] /\ snapshot'[q] = snapshot[q]
      BY <1>2, <1>3 DEF Exporting, Concerns
    <2> QED
      BY <1>2, <2>1, <2>2 DEF InTurn
  <1>7. ASSUME ~failed'[r] PROVE Agreeing(r)'
    <2>1. Agreeing(r) /\ step'[p] = "review"
      BY <1>1, <1>2, <1>7 DEF HistoryInv, AgreeInv
    <2>2. Exporting(p, r)' /\ Unconfirmed(p)'
      BY <1>2, <2>1 DEF Exporting, Unconfirmed, Reading
    <2> QED
      BY <2>2 DEF Agreeing
  <1>8. Local(p, r)
    BY <1>1, <1>2, <1>5, <1>6, <1>7 DEF Local, Reading, Verifying, HistoryInv, SerialInv
  <1>9. \A f \in Formats : files'[r][f] \in Seq(Of(r)) \union {Null}
    BY <1>1, <1>2 DEF HistoryInv, RunInv
  <1> QED
    BY <1>1, <1>3, <1>8, <1>9, OneProcessSteps

\* The review is final: once it is in a report, every later export reads it.
LEMMA ReadReviewKeepsHistory ==
    ASSUME CoreInv, HistoryInv, NEW p \in Exporters, ReadReview(p)
    PROVE  HistoryInv'
  <1>1. PICK r \in RunIds : r = snapshot[p].run_id /\ Exporting(p, r)
    BY ActiveHasRun DEF ReadReview
  <1> DEFINE s == [snapshot[p] EXCEPT !.review = ReviewOf(r)]
  <1>2. snapshot[p] \in CommittedSnapshots
    BY DEF ReadReview, CoreInv, SnapshotInv
  <1>3. /\ s \in CommittedSnapshots /\ s.run_id = r
        /\ s.review = ReviewOf(r)
    BY <1>1, <1>2, ReviewOfIsCommitted DEF CoreInv, CommittedSnapshots, Snapshots
  <1>4. snapshot' = [snapshot EXCEPT ![p] = s]
    BY <1>1 DEF ReadReview
  <1> HIDE DEF s
  <1>5. /\ step[p] = "review" /\ turn[p] = 1 /\ UNCHANGED <<files, turn, seen, history>>
        /\ snapshot'[p] = s
        /\ \A q \in Exporters \ {p} :
              step'[q] = step[q] /\ snapshot'[q] = snapshot[q] /\ outcome'[q] = outcome[q]
        /\ \A x \in RunIds \ {r} : failed'[x] = failed[x]
        /\ \/ PathsResolve(r) /\ step'[p] = "open" /\ UNCHANGED failed
           \/ /\ ~PathsResolve(r) /\ step'[p] = "done" /\ failed'[r]
              /\ outcome'[p] = "refused"
    BY <1>1, <1>4 DEF ReadReview, End, CoreInv, TypeOK, ProgressInv
  <1>6. Concerns(p, r)
    BY <1>3, <1>5 DEF Concerns
  <1>7. (PathsResolve(snapshot[p].run_id))' = PathsResolve(r)
    BY <1>3, <1>5 DEF PathsResolve
  <1>8. ASSUME alone'[p] PROVE Undisturbed(p)'
    <2>1. Undisturbed(p)
      BY <1>5, <1>8 DEF HistoryInv, AloneInv
    <2>2. \A other \in Exporters \ {p} : ~Exporting(other, r)'
      BY <1>1, <1>6, <2>1, NobodyElse
    <2>3. step'[p] = "done" => Whole(p)'
      BY <1>5, <1>7 DEF Whole
    <2>4. \A i \in 1..3 : ~(i < turn'[p])
      BY <1>5
    <2> QED
      BY <1>3, <1>5, <2>2, <2>3, <2>4 DEF Undisturbed, Verifying, Reading
  <1>9. ASSUME InTurn(r) PROVE InTurn(r)'
    <2>1. \A q \in Exporters : Exporting(q, r)' => Exporting(q, r)
      BY <1>1, <1>5 DEF Exporting
    <2>2. ASSUME NEW t \in reported, t.run_id = r, t.review # Null PROVE snapshot'[p] = t
      BY <1>3, <1>5, <2>2, ReviewedIsUnique DEF CoreInv, FileInv
    <2> QED
      BY <1>5, <1>9, <2>1, <2>2 DEF InTurn
  <1>10. ASSUME ~failed'[r] PROVE Agreeing(r)'
    <2>1. step'[p] = "open"
      BY <1>5, <1>10
    <2>2. Exporting(p, r)' /\ Unconfirmed(p)'
      BY <1>3, <1>5, <2>1 DEF Exporting, Unconfirmed, Reading
    <2> QED
      BY <2>2 DEF Agreeing
  <1>11. Local(p, r)
    BY <1>5, <1>8, <1>9, <1>10 DEF Local, Reading, Verifying, HistoryInv, SerialInv
  <1>12. \A f \in Formats : files'[r][f] \in Seq(Of(r)) \union {Null}
    BY <1>5 DEF HistoryInv, RunInv
  <1> QED
    BY <1>1, <1>6, <1>11, <1>12, OneProcessSteps

-----------------------------------------------------------------------------
(* The steps that write a file *)

\* A step that writes a file: whoever writes has still to read all three.
LEMMA WritingKeepsHistory ==
    ASSUME CoreInv, HistoryInv, NEW p \in Exporters, step[p] \in {"open", "write"},
           NEW r \in RunIds, Exporting(p, r), NEW text \in Seq(Of(r)),
           files' = [files EXCEPT ![r][Order[turn[p]]] = text],
           \/ /\ step[p] = "open" /\ text = <<>>
              /\ step' = [step EXCEPT ![p] = "write"] /\ turn' = turn
           \/ /\ step[p] = "write" /\ (alone[p] => text = Rendering(snapshot[p]))
              /\ \/ /\ turn[p] < 3 /\ step' = [step EXCEPT ![p] = "open"]
                    /\ turn' = [turn EXCEPT ![p] = turn[p] + 1]
                 \/ /\ turn[p] = 3 /\ step' = [step EXCEPT ![p] = "verify_json"]
                    /\ turn' = [turn EXCEPT ![p] = 1],
           UNCHANGED <<snapshot, seen, outcome, failed, history>>
    PROVE  HistoryInv'
  <1> DEFINE f == Order[turn[p]]
  <1>1. /\ turn[p] \in 1..3 /\ f \in Formats
        /\ snapshot[p].run_id = r /\ PathsResolve(r)
    BY OrderListsFormats DEF CoreInv, TypeOK, Exporting, HistoryInv, RunInv
  <1>2. \A x \in RunIds, g \in Formats :
            files'[x][g] = IF x = r /\ g = f THEN text ELSE files[x][g]
    BY <1>1 DEF CoreInv, TypeOK
  <1>3. /\ \A x \in RunIds \ {r} : files'[x] = files[x]
        /\ \A q \in Exporters \ {p} : step'[q] = step[q] /\ turn'[q] = turn[q]
    BY DEF CoreInv, TypeOK
  <1>4. /\ step'[p] \in {"open", "write", "verify_json"}
        /\ \/ step[p] = "open" /\ text = <<>> /\ step'[p] = "write" /\ turn'[p] = turn[p]
           \/ /\ step[p] = "write" /\ (alone[p] => text = Rendering(snapshot[p]))
              /\ \/ turn[p] < 3 /\ step'[p] = "open" /\ turn'[p] = turn[p] + 1
                 \/ turn[p] = 3 /\ step'[p] = "verify_json" /\ turn'[p] = 1
    BY DEF CoreInv, TypeOK
  <1>5. Concerns(p, r)
    BY <1>1, <1>3, <1>4 DEF Concerns
  <1>6. \A g : Read(p, g)' = files'[r][g] /\ Read(p, g) = files[r][g]
    BY <1>1 DEF Read
  <1> HIDE DEF f
  <1>7. ASSUME alone'[p] PROVE Undisturbed(p)'
    <2>1. Undisturbed(p)
      BY <1>7 DEF HistoryInv, AloneInv
    <2>2. \A other \in Exporters \ {p} : ~Exporting(other, r)'
      BY <1>5, <2>1, NobodyElse
    <2>3. \A i \in 1..3 : i < turn[p] => files'[r][Order[i]] = Rendering(snapshot[p])
      BY <1>1, <1>2, <1>6, <2>1, OrderListsFormats DEF Undisturbed, f
    <2>4. files'[r][f] = text
      BY <1>1, <1>2
    <2>5. CASE step[p] = "open"
      <3>1. step'[p] = "write" /\ turn'[p] = turn[p] /\ text = <<>>
        BY <1>4, <2>5
      <3> QED
        BY <1>1, <1>6, <2>2, <2>3, <2>4, <3>1 DEF Undisturbed, Verifying, Reading, f
    <2>6. CASE step[p] = "write"
      <3>1. text = Rendering(snapshot[p])
        BY <1>4, <1>7, <2>6
      <3>2. \A i \in 1..3 : i <= turn[p] => files'[r][Order[i]] = Rendering(snapshot[p])
        BY <1>1, <2>3, <2>4, <3>1 DEF f
      <3>3. CASE turn[p] < 3
        <4>1. step'[p] = "open" /\ turn'[p] = turn[p] + 1
          BY <1>4, <2>6, <3>3
        <4>2. \A i \in 1..3 : i < turn'[p] => files'[r][Order[i]] = Rendering(snapshot[p])
          BY <1>1, <3>2, <4>1
        <4> QED
          BY <1>1, <1>6, <2>2, <4>1, <4>2 DEF Undisturbed, Verifying, Reading
      <3>4. CASE turn[p] = 3
        <4>1. step'[p] = "verify_json"
          BY <1>4, <2>6, <3>4
        <4>2. \A g \in Formats : files'[r][g] = Rendering(snapshot[p])
          BY <3>2, <3>4, OrderListsFormats
        <4> QED
          BY <1>1, <1>6, <2>2, <4>1, <4>2 DEF Undisturbed, Verifying, Reading
      <3> QED
        BY <1>1, <3>3, <3>4
    <2> QED
      BY <2>5, <2>6
  <1>8. ASSUME InTurn(r) PROVE InTurn(r)'
    <2>1. \A q \in Exporters : Exporting(q, r)' => Exporting(q, r)
      BY <1>3 DEF Exporting
    <2>2. \A q \in Exporters : step'[q] \notin {"packet", "review"} /\ Exporting(q, r)'
              => step[q] \notin {"packet", "review"}
      BY <1>3
    <2>3. alone[p]
      BY <1>8 DEF InTurn
    <2>4. ASSUME NEW s \in reported, s.run_id = r, s.review # Null
          PROVE  \A g \in Formats : files'[r][g] \in {<<>>, Rendering(s)}
      <3>1. snapshot[p] = s
        BY <1>8, <2>4 DEF InTurn
      <3>2. text \in {<<>>, Rendering(s)}
        BY <1>4, <2>3, <3>1
      <3> QED
        BY <1>2, <1>8, <2>4, <3>2 DEF InTurn
    <2> QED
      BY <1>8, <2>1, <2>2, <2>4 DEF InTurn
  <1>9. Agreeing(r)'
    <2>1. Exporting(p, r)' /\ Unconfirmed(p)'
      BY <1>1, <1>4 DEF Exporting, Unconfirmed, Reading
    <2> QED
      BY <2>1 DEF Agreeing
  <1>10. Local(p, r)
    BY <1>1, <1>4, <1>7, <1>8, <1>9 DEF Local, Reading, HistoryInv, SerialInv
  <1>11. \A g \in Formats : files'[r][g] \in Seq(Of(r)) \union {Null}
    BY <1>2 DEF HistoryInv, RunInv
  <1> QED
    BY <1>5, <1>10, <1>11, OneProcessSteps

LEMMA OpenFileKeepsHistory ==
    ASSUME CoreInv, HistoryInv, NEW p \in Exporters, OpenFile(p)
    PROVE  HistoryInv'
  <1>1. PICK r \in RunIds : r = snapshot[p].run_id /\ Exporting(p, r)
    BY ActiveHasRun DEF OpenFile
  <1>2. <<>> \in Seq(Of(r))
    BY EmptySeq
  <1> QED
    BY <1>1, <1>2, WritingKeepsHistory DEF OpenFile

\* Whoever is alone finds the file it has opened as it was then: empty.
LEMMA WriteFileKeepsHistory ==
    ASSUME CoreInv, HistoryInv, NEW p \in Exporters, WriteFile(p)
    PROVE  HistoryInv'
  <1>1. PICK r \in RunIds : r = snapshot[p].run_id /\ Exporting(p, r)
    BY ActiveHasRun DEF WriteFile
  <1> DEFINE f    == Order[turn[p]]
             text == Overwrite(files[r][f], Rendering(snapshot[p]))
  <1>2. turn[p] \in 1..3 /\ f \in Formats /\ step[p] = "write"
    BY OrderListsFormats DEF WriteFile, CoreInv, TypeOK
  <1>3. snapshot[p] \in Of(r)
    BY <1>1, <1>2 DEF CoreInv, SnapshotInv, CommittedSnapshots, Of
  <1>4. files[r][f] # Null
    BY <1>1, <1>2 DEF CoreInv, ProgressInv, Read
  <1>5. files[r][f] \in Seq(Of(r)) /\ Rendering(snapshot[p]) \in Seq(Of(r))
    BY <1>2, <1>3, <1>4, RenderingIsText DEF HistoryInv, RunInv
  <1>6. text \in Seq(Of(r))
    BY <1>5, OverwriteIsText
  <1>7. alone[p] => text = Rendering(snapshot[p])
    <2>1. ASSUME alone[p] PROVE files[r][f] = <<>>
      BY <1>1, <1>2, <2>1 DEF HistoryInv, AloneInv, Undisturbed, Read
    <2> QED
      BY <1>5, <2>1, OverwriteNothing
  <1>8. files' = [files EXCEPT ![r][f] = text]
    BY <1>1 DEF WriteFile
  <1>9. /\ \/ /\ turn[p] < 3 /\ step' = [step EXCEPT ![p] = "open"]
              /\ turn' = [turn EXCEPT ![p] = turn[p] + 1]
           \/ /\ turn[p] = 3 /\ step' = [step EXCEPT ![p] = "verify_json"]
              /\ turn' = [turn EXCEPT ![p] = 1]
        /\ UNCHANGED <<snapshot, seen, outcome, failed, history>>
    <2>1. CASE turn[p] < 3
      BY <2>1 DEF WriteFile
    <2>2. CASE turn[p] = 3
      BY <2>2 DEF WriteFile
    <2> QED
      BY <1>2, <2>1, <2>2
  <1> HIDE DEF text
  <1> QED
    BY <1>1, <1>2, <1>6, <1>7, <1>8, <1>9, WritingKeepsHistory

-----------------------------------------------------------------------------
(* The verification *)

\* Readings leave the files and the snapshot alone.  One that ends the command
\* with an error makes the run fail; one that passes is right about what an
\* export that is alone has written.
LEMMA ReadingKeepsHistory ==
    ASSUME CoreInv, HistoryInv, NEW p \in Exporters, NEW r \in RunIds, Exporting(p, r),
           step[p] \in Verifying,
           NEW to \in Reading \union {"done"}, NEW how, NEW texts,
           step' = [step EXCEPT ![p] = to], seen' = [seen EXCEPT ![p] = texts],
           outcome' = [outcome EXCEPT ![p] = how],
           NEW bad \in BOOLEAN, failed' = [failed EXCEPT ![r] = @ \/ bad],
           UNCHANGED <<files, turn, snapshot, alone, serial>>,
           reported \subseteq reported',
           \A s \in reported' \ reported : s.run_id = r /\ (alone[p] => s = snapshot[p]),
           to # "done" => texts["json"] \in Seq(Of(r)) /\ reported' = reported,
           ASSUME alone[p], Undisturbed(p)
           PROVE  /\ to # "done" => texts["json"] = Rendering(snapshot[p])
                  /\ to \in Reading \ {"verify_markdown"} =>
                        texts["markdown"] = Rendering(snapshot[p])
                  /\ to = "done" =>
                        how = IF HasLink(snapshot[p]) THEN "refused" ELSE "exported",
           ASSUME ~bad, Unconfirmed(p) PROVE Unconfirmed(p)' \/ Agree(r),
           ~bad => to # "done" \/ ~Unconfirmed(p)
    PROVE  HistoryInv'
  <1>1. /\ \A q \in Exporters \ {p} :
              step'[q] = step[q] /\ seen'[q] = seen[q] /\ outcome'[q] = outcome[q]
        /\ step'[p] = to /\ seen'[p] = texts /\ outcome'[p] = how
        /\ \A x \in RunIds \ {r} : failed'[x] = failed[x]
        /\ failed'[r] = (failed[r] \/ bad)
    <2>1. /\ \A q \in Exporters \ {p} :
                step'[q] = step[q] /\ seen'[q] = seen[q] /\ outcome'[q] = outcome[q]
          /\ step'[p] = to /\ seen'[p] = texts /\ outcome'[p] = how
      BY DEF CoreInv, TypeOK
    <2>2. failed \in [RunIds -> BOOLEAN]
      BY DEF CoreInv, TypeOK
    <2>3. \A x \in RunIds \ {r} : failed'[x] = failed[x]
      BY <2>2
    <2>4. failed'[r] = (failed[r] \/ bad)
      BY <2>2, Zenon
    <2> QED
      BY <2>1, <2>3, <2>4
  <1>2. snapshot[p].run_id = r /\ PathsResolve(r)
    BY DEF Exporting, HistoryInv, RunInv
  <1>3. Concerns(p, r)
    BY <1>1, <1>2 DEF Concerns
  <1>4. ASSUME alone'[p] PROVE Undisturbed(p)'
    <2>1. alone[p] /\ Undisturbed(p)
      BY <1>4 DEF HistoryInv, AloneInv
    <2>2. \A other \in Exporters \ {p} : ~Exporting(other, r)'
      BY <1>3, <2>1, NobodyElse
    <2>3. \A f \in Formats : Read(p, f)' = Rendering(snapshot[p])
      BY <2>1 DEF Undisturbed, Read
    <2>4. to = "done" => Whole(p)'
      BY <1>1, <1>2, <2>1, <2>3 DEF Whole, PathsResolve, HasLink
    <2> QED
      BY <1>1, <1>2, <2>1, <2>2, <2>3, <2>4 DEF Undisturbed, Verifying, Reading
  <1>5. ASSUME serial'[r] PROVE InTurn(r)'
    <2>1. InTurn(r) /\ alone[p] /\ Undisturbed(p)
      BY <1>5 DEF HistoryInv, SerialInv, InTurn, AloneInv
    <2>2. \A q \in Exporters : Exporting(q, r)' => Exporting(q, r) /\ snapshot[q] = snapshot'[q]
      BY <1>1, <1>2 DEF Exporting
    <2>3. ASSUME NEW s \in reported' \ reported, s.run_id = r
          PROVE  /\ \A f \in Formats : files'[r][f] \in {<<>>, Rendering(s)}
                 /\ \A q \in Exporters : ~Exporting(q, r)'
      <3>1. s = snapshot[p] /\ to = "done"
        BY <2>1, <2>3
      <3>2. \A f \in Formats : files'[r][f] = Rendering(s)
        BY <1>2, <2>1, <3>1 DEF Undisturbed, Read
      <3>3. \A q \in Exporters : ~Exporting(q, r)'
        BY <1>1, <1>2, <2>1, <2>2, <3>1 DEF Undisturbed, Exporting
      <3> QED
        BY <3>2, <3>3
    <2>4. \A q \in Exporters : step'[q] \notin {"packet", "review"} /\ Exporting(q, r)'
              => step[q] \notin {"packet", "review"}
      BY <1>1 DEF Verifying, Reading
    <2> QED
      BY <2>1, <2>2, <2>3, <2>4 DEF InTurn
  <1>6. ASSUME ~failed'[r] PROVE Agreeing(r)'
    <2>1. Agreeing(r) /\ ~bad
      BY <1>1, <1>6 DEF HistoryInv, AgreeInv
    <2>2. Agree(r) => Agree(r)'
      BY DEF Agree
    <2>3. ASSUME NEW q \in Exporters \ {p}, Exporting(q, r), Unconfirmed(q)
          PROVE  Exporting(q, r)' /\ Unconfirmed(q)'
      BY <1>1, <2>3 DEF Exporting, Unconfirmed, Read
    <2>4. ASSUME Unconfirmed(p) PROVE Agree(r) \/ (Exporting(p, r)' /\ Unconfirmed(p)')
      BY <1>1, <1>2, <2>1, <2>4 DEF Exporting, Reading
    <2> QED
      BY <2>1, <2>2, <2>3, <2>4 DEF Agreeing
  <1>7. Local(p, r)
    BY <1>1, <1>2, <1>4, <1>5, <1>6 DEF Local, Reading
  <1>8. \A f \in Formats : files'[r][f] \in Seq(Of(r)) \union {Null}
    BY DEF HistoryInv, RunInv
  <1> QED
    BY <1>3, <1>7, <1>8, OneProcessSteps

\* A process that has read a text of the run it exports, and goes on.
LEMMA VerifyKeepsHistory ==
    ASSUME CoreInv, HistoryInv, NEW p \in Exporters, step[p] \in Verifying,
           NEW f \in Formats, NEW to \in Reading, Verify(p, f, to),
           UNCHANGED <<store, files, turn, snapshot, history>>,
           f = "json" \/ step[p] # "verify_json",
           alone[p] /\ f # "markdown" /\ to # "verify_markdown" =>
              step[p] \in Reading \ {"verify_markdown"},
           Unconfirmed(p) => Unconfirmed(p)' \/ Agree(snapshot[p].run_id)
    PROVE  HistoryInv'
  <1>1. PICK r \in RunIds : r = snapshot[p].run_id /\ Exporting(p, r)
    BY ActiveHasRun DEF Verifying, Reading
  <1> DEFINE texts == [seen[p] EXCEPT ![f] = Read(p, f)]
             how   == outcome[p]
  <1>2. seen[p] \in [Formats -> Seq(Snapshots)]
    BY DEF CoreInv, TypeOK
  <1>3. texts[f] = Read(p, f) /\ \A g \in Formats \ {f} : texts[g] = seen[p][g]
    BY <1>2
  <1>4. /\ step' = [step EXCEPT ![p] = to] /\ seen' = [seen EXCEPT ![p] = texts]
        /\ outcome' = [outcome EXCEPT ![p] = how]
        /\ failed' = failed
    BY DEF Verify, CoreInv, TypeOK
  <1>5. failed' = [failed EXCEPT ![r] = @ \/ FALSE]
    <2>1. failed \in [RunIds -> BOOLEAN]
      BY DEF CoreInv, TypeOK
    <2>2. failed = [failed EXCEPT ![r] = failed[r]]
      BY <2>1
    <2>3. (failed[r] \/ FALSE) = failed[r]
      BY <2>1
    <2> QED
      BY <1>4, <2>2, <2>3
  <1>6. texts["json"] \in Seq(Of(r))
    <2>1. Read(p, f) \in Seq(CommittedSnapshots)
      BY ReadIsText DEF Verifying, Reading
    <2>2. Read(p, f) # Null
      BY <2>1, CommittedAreSnapshots, SeqMonotonic
    <2>3. CASE f = "json"
      BY <1>1, <1>3, <2>2, <2>3 DEF HistoryInv, RunInv, Read
    <2>4. CASE f # "json"
      <3>1. step[p] \in Reading
        BY <2>4 DEF Verifying
      <3> QED
        BY <1>1, <1>3, <2>4, <3>1 DEF HistoryInv, RunInv
    <2> QED
      BY <2>3, <2>4
  <1>7. ASSUME alone[p], Undisturbed(p)
        PROVE  /\ texts["json"] = Rendering(snapshot[p])
               /\ to # "verify_markdown" => texts["markdown"] = Rendering(snapshot[p])
    <2>1. Read(p, f) = Rendering(snapshot[p])
      BY <1>7 DEF Undisturbed
    <2>2. f # "json" => seen[p]["json"] = Rendering(snapshot[p])
      BY <1>7 DEF Undisturbed, Verifying
    <2>3. f # "markdown" /\ to # "verify_markdown" =>
              seen[p]["markdown"] = Rendering(snapshot[p])
      BY <1>7 DEF Undisturbed
    <2> QED
      BY <1>3, <2>1, <2>2, <2>3
  <1> HIDE DEF texts, how
  <1>8. ASSUME Unconfirmed(p) PROVE Unconfirmed(p)' \/ Agree(r)
    BY <1>1, <1>8
  <1>9. UNCHANGED <<files, turn, snapshot, alone, serial, reported>> /\ to # "done"
    BY DEF Reading
  <1> QED
    BY <1>1, <1>4, <1>5, <1>6, <1>7, <1>8, <1>9, ReadingKeepsHistory

\* A process that has read a text it cannot accept, which does not happen to a
\* process that is alone.
LEMMA FailKeepsHistory ==
    ASSUME CoreInv, HistoryInv, NEW p \in Exporters, step[p] \in Verifying,
           NEW how \in {"refused", "raised"}, Fail(p, how),
           UNCHANGED <<store, files, turn, snapshot, history>>,
           ~(alone[p] /\ Undisturbed(p))
    PROVE  HistoryInv'
  <1>1. PICK r \in RunIds : r = snapshot[p].run_id /\ Exporting(p, r)
    BY ActiveHasRun DEF Verifying, Reading
  <1>2. /\ step' = [step EXCEPT ![p] = "done"] /\ seen' = [seen EXCEPT ![p] = NothingSeen]
        /\ outcome' = [outcome EXCEPT ![p] = how]
        /\ failed' = [failed EXCEPT ![r] = @ \/ TRUE]
    BY <1>1 DEF Fail, End
  <1>3. UNCHANGED <<files, turn, snapshot, alone, serial, reported>>
    OBVIOUS
  <1> QED
    BY <1>1, <1>2, <1>3, ReadingKeepsHistory

LEMMA VerifyJsonKeepsHistory ==
    ASSUME CoreInv, HistoryInv, NEW p \in Exporters, VerifyJson(p)
    PROVE  HistoryInv'
  <1>1. step[p] \in Verifying /\ UNCHANGED <<store, files, turn, snapshot, history>>
    BY DEF VerifyJson, Verifying
  <1>2. CASE Verify(p, "json", "verify_markdown")
    <2>1. Unconfirmed(p)'
      <3>1. step'[p] = "verify_markdown" /\ seen'[p]["json"] = Read(p, "json")
        BY <1>2 DEF Verify, CoreInv, TypeOK
      <3> QED
        BY <1>1, <3>1 DEF Unconfirmed, Read
    <2>2. "verify_markdown" \in Reading /\ "json" \in Formats
      BY DEF Reading
    <2> QED
      BY <1>1, <1>2, <2>1, <2>2, VerifyKeepsHistory
  <1>3. CASE ~Parses(Read(p, "json")) /\ Fail(p, "raised")
    <2>1. ~(alone[p] /\ Undisturbed(p))
      BY <1>1, <1>3, RenderingIsWhole DEF Undisturbed
    <2> QED
      BY <1>1, <1>3, <2>1, FailKeepsHistory
  <1> QED
    BY <1>2, <1>3 DEF VerifyJson

LEMMA VerifyMarkdownKeepsHistory ==
    ASSUME CoreInv, HistoryInv, NEW p \in Exporters, VerifyMarkdown(p)
    PROVE  HistoryInv'
  <1>1. /\ step[p] = "verify_markdown" /\ step[p] \in Verifying
        /\ UNCHANGED <<store, files, turn, snapshot, history>>
    BY DEF VerifyMarkdown, Verifying, Reading
  <1>2. CASE Read(p, "markdown") # <<>> /\ Verify(p, "markdown", "verify_html")
    <2>1. Unconfirmed(p) => Unconfirmed(p)'
      <3>1. step'[p] = "verify_html" /\ seen'[p]["markdown"] = Read(p, "markdown")
        BY <1>2 DEF Verify, CoreInv, TypeOK
      <3>2. seen'[p]["json"] = seen[p]["json"]
        BY <1>2 DEF Verify, CoreInv, TypeOK
      <3> QED
        BY <1>1, <1>2, <3>1, <3>2 DEF Unconfirmed, Read, Reading
    <2>2. "verify_html" \in Reading /\ "markdown" \in Formats
      BY DEF Reading
    <2> QED
      BY <1>1, <1>2, <2>1, <2>2, VerifyKeepsHistory
  <1>3. CASE Read(p, "markdown") = <<>> /\ Fail(p, "raised")
    <2>1. ~(alone[p] /\ Undisturbed(p))
      BY <1>1, <1>3, RenderingIsText DEF Undisturbed
    <2> QED
      BY <1>1, <1>3, <2>1, FailKeepsHistory
  <1> QED
    BY <1>2, <1>3 DEF VerifyMarkdown

\* Whoever reads the third of three files nobody has touched since it began to
\* read has found one digest in all of them.
LEMMA VerifyHtmlKeepsHistory ==
    ASSUME CoreInv, HistoryInv, NEW p \in Exporters, VerifyHtml(p)
    PROVE  HistoryInv'
  <1>1. /\ step[p] = "verify_html" /\ step[p] \in Verifying
        /\ UNCHANGED <<store, files, turn, snapshot, history>>
    BY DEF VerifyHtml, Verifying, Reading
  <1> DEFINE ok == Equivalent(seen[p]["json"], seen[p]["markdown"], Read(p, "html"))
  <1>2. CASE ok /\ Verify(p, "html", "verify_links")
    <2>1. ASSUME Unconfirmed(p) PROVE Agree(snapshot[p].run_id)
      <3>1. /\ seen[p]["json"] = Read(p, "json")
            /\ seen[p]["markdown"] = Read(p, "markdown")
            /\ Read(p, "markdown") # <<>>
        BY <1>1, <2>1 DEF Unconfirmed, Reading
      <3>2. Read(p, "json") # <<>> /\ Read(p, "html") # <<>>
        BY <1>1, <1>2, <3>1 DEF Equivalent, CoreInv, ProgressInv
      <3>3. \A f \in Formats : Read(p, f) # Null
        BY <1>1, OrderListsFormats DEF CoreInv, ProgressInv
      <3>4. \A f, g \in Formats : Mark(Read(p, f)) = Mark(Read(p, g))
        BY <1>2, <3>1 DEF Equivalent
      <3> QED
        BY <3>1, <3>2, <3>3, <3>4 DEF Agree, Read
    <2>2. "verify_links" \in Reading /\ "html" \in Formats
      BY DEF Reading
    <2>3. step[p] \in Reading \ {"verify_markdown"}
      BY <1>1 DEF Reading
    <2> QED
      BY <1>1, <1>2, <2>1, <2>2, <2>3, VerifyKeepsHistory
  <1>3. CASE ~ok /\ Fail(p, "refused")
    <2>1. ASSUME Undisturbed(p) PROVE ok
      <3>1. /\ seen[p]["json"] = Rendering(snapshot[p])
            /\ seen[p]["markdown"] = Rendering(snapshot[p])
            /\ Read(p, "html") = Rendering(snapshot[p])
        BY <1>1, <2>1 DEF Undisturbed, Verifying, Reading
      <3> QED
        BY <3>1, RenderingIsText DEF Equivalent
    <2> QED
      BY <1>1, <1>3, <2>1, FailKeepsHistory
  <1> QED
    BY <1>2, <1>3 DEF VerifyHtml

\* The report of a process that is alone is about its own snapshot; it is
\* refused when the HTML it has written holds a link.
LEMMA VerifyLinksKeepsHistory ==
    ASSUME CoreInv, HistoryInv, NEW p \in Exporters, VerifyLinks(p)
    PROVE  HistoryInv'
  <1>1. PICK r \in RunIds : r = snapshot[p].run_id /\ Exporting(p, r)
    BY ActiveHasRun DEF VerifyLinks
  <1> DEFINE html == Read(p, "html")
             ok   == \A i \in DOMAIN html : ~HasLink(html[i])
             how  == IF ok THEN "exported" ELSE "refused"
  <1>2. /\ step[p] = "verify_links" /\ step[p] \in Verifying
        /\ UNCHANGED <<files, turn, snapshot, alone, serial>>
    BY DEF VerifyLinks, Verifying, Reading
  <1>3. /\ step' = [step EXCEPT ![p] = "done"] /\ seen' = [seen EXCEPT ![p] = NothingSeen]
        /\ outcome' = [outcome EXCEPT ![p] = how]
        /\ failed' = [failed EXCEPT ![r] = @ \/ how # "exported"]
    BY <1>1 DEF VerifyLinks, End
  <1>4. /\ reported \subseteq reported'
        /\ \A s \in reported' \ reported : s = Mark(seen[p]["json"])
    BY DEF VerifyLinks
  <1>5. Mark(seen[p]["json"]) \in Of(r)
    <2>1. seen[p]["json"] \in Seq(Of(r)) /\ seen[p]["json"] # <<>>
      BY <1>1, <1>2 DEF HistoryInv, RunInv, Reading, CoreInv, ProgressInv
    <2>2. 1 \in 1..Len(seen[p]["json"])
      BY <2>1, EmptySeq
    <2> QED
      BY <2>1, <2>2, ElementOfSeq DEF Mark
  <1>6. ASSUME Undisturbed(p)
        PROVE  /\ Mark(seen[p]["json"]) = snapshot[p]
               /\ how = IF HasLink(snapshot[p]) THEN "refused" ELSE "exported"
    <2>1. html = Rendering(snapshot[p]) /\ seen[p]["json"] = Rendering(snapshot[p])
      BY <1>2, <1>6 DEF Undisturbed, Reading
    <2>2. ok <=> ~HasLink(snapshot[p])
      BY <2>1, RenderingIsWhole
    <2> HIDE DEF ok
    <2> QED
      BY <2>1, <2>2, RenderingIsWhole
  <1>7. alone[p] => Undisturbed(p)
    BY DEF HistoryInv, AloneInv
  <1>8. ~Unconfirmed(p)
    BY <1>2 DEF Unconfirmed, Reading
  <1>9. \A s \in reported' \ reported : s.run_id = r /\ (alone[p] => s = snapshot[p])
    BY <1>4, <1>5, <1>6, <1>7 DEF Of
  <1>10. UNCHANGED <<files, turn, snapshot, alone, serial>> /\ "done" \notin Reading
    BY <1>2 DEF Reading
  <1>11. CASE ok
    <2>1. outcome' = [outcome EXCEPT ![p] = "exported"]
      BY <1>3, <1>11
    <2>2. failed' = [failed EXCEPT ![r] = @ \/ FALSE]
      BY <1>3, <1>11
    <2>3. ASSUME Undisturbed(p) PROVE ~HasLink(snapshot[p])
      BY <1>6, <1>11, <2>3
    <2> HIDE DEF ok
    <2> QED
      BY <1>1, <1>2, <1>3, <1>4, <1>8, <1>9, <1>10, <2>1, <2>2, <2>3, ReadingKeepsHistory
  <1>12. CASE ~ok
    <2>1. outcome' = [outcome EXCEPT ![p] = "refused"]
      BY <1>3, <1>12
    <2>2. failed' = [failed EXCEPT ![r] = @ \/ TRUE]
      BY <1>3, <1>12
    <2>3. ASSUME Undisturbed(p) PROVE HasLink(snapshot[p])
      BY <1>6, <1>12, <2>3
    <2> HIDE DEF ok
    <2> QED
      BY <1>1, <1>2, <1>3, <1>4, <1>8, <1>9, <1>10, <2>1, <2>2, <2>3, ReadingKeepsHistory
  <1> HIDE DEF ok
  <1> QED
    BY <1>11, <1>12

-----------------------------------------------------------------------------
(* All steps *)

LEMMA InitIInv == Init => IInv
  <1> SUFFICES ASSUME Init PROVE IInv
    OBVIOUS
  <1> USE DEF Init
  <1>1. RunInv
    BY DEF RunInv, Reading, Verifying
  <1>2. AloneInv /\ SerialInv
    BY DEF AloneInv, SerialInv, InTurn, Exporting
  <1>3. AgreeInv
    BY DEF AgreeInv, Agreeing
  <1> QED
    BY <1>1, <1>2, <1>3, InitCore DEF IInv

LEMMA NextKeepsIInv == IInv /\ [Next]_vars => IInv'
  <1> SUFFICES ASSUME IInv, [Next]_vars PROVE IInv'
    OBVIOUS
  <1>1. CoreInv /\ HistoryInv /\ CoreInv'
    BY NextKeepsCore DEF IInv, HistoryInv
  <1>2. HistoryInv'
    <2>1. CASE StoreStep
      BY <1>1, <2>1, StoreKeepsHistory DEF StoreStep
    <2>2. CASE \E p \in Exporters, r \in RunIds : StartExport(p, r)
      BY <1>1, <2>2, StartExportKeepsHistory
    <2>3. CASE \E p \in Exporters : Export(p)
      BY <1>1, <2>3, ReadPacketKeepsHistory, ReadReviewKeepsHistory, OpenFileKeepsHistory,
         WriteFileKeepsHistory, VerifyJsonKeepsHistory, VerifyMarkdownKeepsHistory,
         VerifyHtmlKeepsHistory, VerifyLinksKeepsHistory DEF Export
    <2>4. CASE \E p \in Exporters : Kill(p)
      BY <1>1, <2>4, KillKeepsHistory
    <2>5. CASE UNCHANGED vars
      BY <1>1, <2>5, StoreKeepsHistory DEF vars
    <2> QED
      BY <2>1, <2>2, <2>3, <2>4, <2>5 DEF Next
  <1> QED
    BY <1>1, <1>2 DEF IInv, HistoryInv

\* The inductive invariant of the exports of a run and of the files they share:
\* what an export that is alone has written is there, the exports of a run that
\* never overlapped read one reviewed snapshot, and while none has failed the
\* files agree or somebody has still to read them (exporters.py 131-167).
THEOREM ExportHistoryInvariant == Spec => []IInv
  BY InitIInv, NextKeepsIInv, PTL DEF Spec

\* An export no other export of its run overlaps leaves three whole files of its
\* own snapshot, and is refused only for a link or for a long identifier.
THEOREM AloneExportsAreWholeFiles == Spec => []AloneExportsAreWhole
  <1>1. IInv => AloneExportsAreWhole
    <2> SUFFICES ASSUME IInv, NEW p \in Exporters,
                        step[p] = "done", alone[p], Committed(snapshot[p])
                 PROVE  Whole(p)
      BY DEF AloneExportsAreWhole, Whole
    <2>1. snapshot[p].packet = Null \/ Whole(p)
      BY DEF IInv, AloneInv, Undisturbed
    <2>2. snapshot[p].packet \in Digests
      BY DEF IInv, CoreInv, TypeOK, Committed
    <2> QED
      BY <2>1, <2>2
  <1> QED
    BY <1>1, ExportHistoryInvariant, PTL

\* Exports of a run that overlap and all end with exit code 0 leave three files
\* that carry one digest.
THEOREM SucceededExportsAgreeOnTheDigest == Spec => []SucceededExportsAgree
  <1>1. IInv => SucceededExportsAgree
    BY DEF IInv, AgreeInv, Agreeing, SucceededExportsAgree, Settled
  <1> QED
    BY <1>1, ExportHistoryInvariant, PTL

\* A run that was reported as reviewed never shows a draft again, as long as its
\* exports come one after the other.
THEOREM ReviewedFilesStayReviewed == Spec => []SerialExportsNeverRegress
  <1>1. IInv => SerialExportsNeverRegress
    BY DEF IInv, CoreInv, TypeOK, SerialInv, InTurn, SerialExportsNeverRegress, Snapshots
  <1> QED
    BY <1>1, ExportHistoryInvariant, PTL

=============================================================================
