------------------------------- MODULE Exports -------------------------------
(***************************************************************************)
(* The export command (cli.py, exporters.py, snapshot in store.py): a      *)
(* process reads the packet and the review of a run on two connections,    *)
(* writes <run>.json, <run>.md and <run>.html one after the other, reads   *)
(* them again and reports the digest they carry.  Processes share the      *)
(* directory and the database; runs are bound, challenged and reviewed     *)
(* meanwhile, and a process may be killed between any two steps.           *)
(*                                                                         *)
(* The database is the one of ReviewProtocol, which ReviewStore implements.*)
(* A file is a sequence of blocks, each the part of one snapshot's text.   *)
(* Opening a file for writing empties it; the text then goes to offset 0   *)
(* in one call, over whatever another process has put there since, and     *)
(* what is longer than the text stays behind it.                           *)
(***************************************************************************)
EXTENDS Naturals, Sequences

CONSTANTS RunIds, Digests, Nonces, Reviewers, Actions, Times, MinTtl, MaxTtl,
          Exporters, \* processes that run the export command
          Killable,  \* those that may be killed
          Length,    \* the number of characters of each run identifier
          Linked,    \* packets and reviewers with "http://" or "https://" in their texts
          Null       \* no review, no file

ASSUME LengthAssumption == Length \in [RunIds -> Nat]

VARIABLES bound, issued, open, closed, \* the database
          files,    \* files[r][f]: what the file of run r in format f holds
          step,     \* step[p]: what process p does next
          turn,     \* turn[p]: the place in Order of the file it writes
          snapshot, \* snapshot[p]: what it has read of the database
          seen,     \* seen[p][f]: what its verification has read of the file
          outcome,  \* outcome[p]: how its command ended
          failed,   \* history: an export of the run has failed or been killed
                    \* since there was none under way
          alone,    \* history: no other export of its run since it began
          serial,   \* history: exports of the run never overlapped
          reported  \* history: the snapshots whose digest was reported

store   == <<bound, issued, open, closed>>
process == <<step, turn, snapshot, seen, outcome>>
history == <<alone, serial, reported>>
vars    == <<store, files, process, failed, history>>

Store == INSTANCE ReviewProtocol

Verdicts == [run_id : RunIds, decision_digest : Digests, nonce : Nonces,
             reviewer : Reviewers, action : Actions, reviewed_at : Times]

\* What snapshot() returns: the packet of a run and its review, if any.
Snapshots == [run_id : RunIds, packet : Digests, review : Verdicts \union {Null}]

\* A file that is not there is no text.
ASSUME NullIsNothing == Null \notin Digests \union RunIds /\ Null \notin Seq(Snapshots)

\* Between the two reads, a packet without its review is a snapshot too.
NoSnapshot == [run_id |-> Null, packet |-> Null, review |-> Null]

Order   == <<"json", "markdown", "html">>
Formats == {"json", "markdown", "html"}

NothingSeen == [f \in Formats |-> <<>>]

Active  == {"packet", "review", "open", "write", "verify_json", "verify_markdown",
            "verify_html", "verify_links"}

-----------------------------------------------------------------------------
(* Identifiers *)

\* _IDENTIFIER: at most 80 characters.
ValidIdentifier(length) == length \in 1..80

SuffixLength == [json |-> 5, markdown |-> 3, html |-> 5]

\* safe_child validates the file name, which is longer than the identifier.
PathsResolve(r) == \A f \in Formats : ValidIdentifier(Length[r] + SuffixLength[f])

-----------------------------------------------------------------------------
(* Texts *)

\* The text of a snapshot: the review makes it longer in every format.
Rendering(s) == IF s.review = Null THEN <<s>> ELSE <<s, s>>

\* The HTML holds the evidence identifiers of the packet and the reviewer's words.
HasLink(s) == s.packet \in Linked \/ (s.review # Null /\ s.review.reviewer \in Linked)

\* Writing a text at offset 0 of what the file holds by then.
Overwrite(old, text) == text \o SubSeq(old, Len(text) + 1, Len(old))

\* json.loads takes one document and nothing after it.
Parses(text) == text # <<>> /\ text = Rendering(text[1])

\* The digest in the first line, or in the first marker.
Mark(text) == text[1]

-----------------------------------------------------------------------------
Init ==
    /\ Store!Init
    /\ files = [r \in RunIds |-> [f \in Formats |-> Null]]
    /\ step = [p \in Exporters |-> "idle"]
    /\ turn = [p \in Exporters |-> 1]
    /\ snapshot = [p \in Exporters |-> NoSnapshot]
    /\ seen = [p \in Exporters |-> NothingSeen]
    /\ outcome = [p \in Exporters |-> "none"]
    /\ failed = [r \in RunIds |-> FALSE]
    /\ alone = [p \in Exporters |-> FALSE]
    /\ serial = [r \in RunIds |-> TRUE]
    /\ reported = {}

\* create_run, issue_challenge and record_review, each in one transaction.
StoreStep ==
    /\ Store!Next
    /\ UNCHANGED <<files, process, failed, history>>

Exporting(p, r) == step[p] \in Active /\ snapshot[p].run_id = r

StartExport(p, r) ==
    /\ step[p] \in {"idle", "done"}
    /\ ValidIdentifier(Length[r])
    /\ step' = [step EXCEPT ![p] = "packet"]
    /\ snapshot' = [snapshot EXCEPT ![p] = [NoSnapshot EXCEPT !.run_id = r]]
    /\ outcome' = [outcome EXCEPT ![p] = "none"]
    /\ failed' = [failed EXCEPT ![r] =
                    @ /\ \E other \in Exporters \ {p} : Exporting(other, r)]
    /\ alone' = [q \in Exporters |->
                   IF q = p THEN \A other \in Exporters \ {p} : ~Exporting(other, r)
                   ELSE alone[q] /\ snapshot[q].run_id # r]
    /\ serial' = [serial EXCEPT ![r] =
                    @ /\ \A other \in Exporters \ {p} : ~Exporting(other, r)]
    /\ UNCHANGED <<store, files, turn, seen, reported>>

\* The command ends: exit code 0, a GoLiveDecisionError (exit code 2), or an
\* exception main does not catch.
End(p, how) ==
    /\ outcome' = [outcome EXCEPT ![p] = how]
    /\ step' = [step EXCEPT ![p] = "done"]
    /\ failed' = [failed EXCEPT ![snapshot[p].run_id] = @ \/ how # "exported"]

Kill(p) ==
    /\ p \in Killable /\ step[p] \in Active
    /\ step' = [step EXCEPT ![p] = "idle"]
    /\ turn' = [turn EXCEPT ![p] = 1]
    /\ snapshot' = [snapshot EXCEPT ![p] = NoSnapshot]
    /\ seen' = [seen EXCEPT ![p] = NothingSeen]
    /\ failed' = [failed EXCEPT ![snapshot[p].run_id] = TRUE]
    /\ alone' = [alone EXCEPT ![p] = FALSE]
    /\ UNCHANGED <<store, files, outcome, serial, reported>>

-----------------------------------------------------------------------------
(* snapshot *)

\* load_packet, on a connection of its own; an unknown run is an error.
ReadPacket(p) ==
    /\ step[p] = "packet"
    /\ \/ \E b \in bound :
            /\ b.run_id = snapshot[p].run_id
            /\ snapshot' = [snapshot EXCEPT ![p].packet = b.decision_digest]
            /\ step' = [step EXCEPT ![p] = "review"]
            /\ UNCHANGED <<outcome, failed>>
       \/ /\ \A b \in bound : b.run_id # snapshot[p].run_id
          /\ End(p, "refused")
          /\ UNCHANGED snapshot
    /\ UNCHANGED <<store, files, turn, seen, history>>

\* Mutant: a query without its WHERE.
ReviewOfAnyRun(r) == IF closed = {} THEN Null ELSE CHOOSE v \in closed : TRUE

ReviewOf(r) ==
    IF Store!Closed(r) THEN CHOOSE v \in closed : v.run_id = r ELSE Null

\* Mutant: the second connection may answer from before the last commit.
ReadReviewStale(p) ==
    /\ step[p] = "review"
    /\ \E found \in {Null, ReviewOf(snapshot[p].run_id)} :
          snapshot' = [snapshot EXCEPT ![p].review = found]
    /\ IF PathsResolve(snapshot[p].run_id)
       THEN step' = [step EXCEPT ![p] = "open"] /\ UNCHANGED <<outcome, failed>>
       ELSE End(p, "refused")
    /\ UNCHANGED <<store, files, turn, seen, history>>

\* review_for_run, on another one; then the three paths, before any file.
ReadReview(p) ==
    /\ step[p] = "review"
    /\ snapshot' = [snapshot EXCEPT ![p].review = ReviewOf(snapshot[p].run_id)]
    /\ IF PathsResolve(snapshot[p].run_id)
       THEN step' = [step EXCEPT ![p] = "open"] /\ UNCHANGED <<outcome, failed>>
       ELSE End(p, "refused")
    /\ UNCHANGED <<store, files, turn, seen, history>>

-----------------------------------------------------------------------------
(* write_text, three times *)

\* Mutant: a file that is there is left alone.
OpenMissing(p) ==
    /\ step[p] = "open"
    /\ IF files[snapshot[p].run_id][Order[turn[p]]] = Null
       THEN /\ files' = [files EXCEPT ![snapshot[p].run_id][Order[turn[p]]] = <<>>]
            /\ step' = [step EXCEPT ![p] = "write"]
            /\ UNCHANGED turn
       ELSE /\ turn' = [turn EXCEPT ![p] = IF @ < 3 THEN @ + 1 ELSE 1]
            /\ step' = [step EXCEPT ![p] = IF turn[p] < 3 THEN "open" ELSE "verify_json"]
            /\ UNCHANGED files
    /\ UNCHANGED <<store, snapshot, seen, outcome, failed, history>>

\* open(path, "w")
OpenFile(p) ==
    /\ step[p] = "open"
    /\ files' = [files EXCEPT ![snapshot[p].run_id][Order[turn[p]]] = <<>>]
    /\ step' = [step EXCEPT ![p] = "write"]
    /\ UNCHANGED <<store, turn, snapshot, seen, outcome, failed, history>>

\* Mutant: the verification starts before the last files are written.
WriteFirstFile(p) ==
    /\ step[p] = "write"
    /\ files' = [files EXCEPT ![snapshot[p].run_id][Order[turn[p]]] =
                   Overwrite(@, Rendering(snapshot[p]))]
    /\ step' = [step EXCEPT ![p] = "verify_json"]
    /\ UNCHANGED <<store, turn, snapshot, seen, outcome, failed, history>>

WriteFile(p) ==
    /\ step[p] = "write"
    /\ files' = [files EXCEPT ![snapshot[p].run_id][Order[turn[p]]] =
                   Overwrite(@, Rendering(snapshot[p]))]
    /\ turn' = [turn EXCEPT ![p] = IF @ < 3 THEN @ + 1 ELSE 1]
    /\ step' = [step EXCEPT ![p] = IF turn[p] < 3 THEN "open" ELSE "verify_json"]
    /\ UNCHANGED <<store, snapshot, seen, outcome, failed, history>>

-----------------------------------------------------------------------------
(* verify_export_equivalence *)

Read(p, f) == files[snapshot[p].run_id][f]

\* One file read: the verification goes on, or the command ends.
Verify(p, f, to) ==
    /\ seen' = [seen EXCEPT ![p][f] = Read(p, f)]
    /\ step' = [step EXCEPT ![p] = to]
    /\ UNCHANGED <<outcome, failed>>

Fail(p, how) ==
    /\ seen' = [seen EXCEPT ![p] = NothingSeen]
    /\ End(p, how)

\* The text beside its own digest: they agree whenever the text parses.
VerifyJson(p) ==
    /\ step[p] = "verify_json"
    /\ \/ Parses(Read(p, "json")) /\ Verify(p, "json", "verify_markdown")
       \/ ~Parses(Read(p, "json")) /\ Fail(p, "raised")
    /\ UNCHANGED <<store, files, turn, snapshot, history>>

\* An empty file has no first line.
VerifyMarkdown(p) ==
    /\ step[p] = "verify_markdown"
    /\ \/ Read(p, "markdown") # <<>> /\ Verify(p, "markdown", "verify_html")
       \/ Read(p, "markdown") = <<>> /\ Fail(p, "raised")
    /\ UNCHANGED <<store, files, turn, snapshot, history>>

\* Mutant: the marker of the HTML need only be there.
HasMarkers(json, markdown, html) == html # <<>> /\ Mark(json) = Mark(markdown)

Equivalent(json, markdown, html) ==
    html # <<>> /\ Mark(json) = Mark(markdown) /\ Mark(json) = Mark(html)

VerifyHtml(p) ==
    /\ step[p] = "verify_html"
    /\ LET ok == Equivalent(seen[p]["json"], seen[p]["markdown"], Read(p, "html"))
       IN  \/ ok /\ Verify(p, "html", "verify_links")
           \/ ~ok /\ Fail(p, "refused")
    /\ UNCHANGED <<store, files, turn, snapshot, history>>

\* The HTML is read a second time for the links in it.
VerifyLinks(p) ==
    /\ step[p] = "verify_links"
    /\ LET html == Read(p, "html")
           ok   == \A i \in DOMAIN html : ~HasLink(html[i])
       IN  /\ End(p, IF ok THEN "exported" ELSE "refused")
           /\ reported' = IF ok THEN reported \union {Mark(seen[p]["json"])} ELSE reported
    /\ seen' = [seen EXCEPT ![p] = NothingSeen]
    /\ UNCHANGED <<store, files, turn, snapshot, alone, serial>>

-----------------------------------------------------------------------------
Export(p) ==
    \/ ReadPacket(p) \/ ReadReview(p) \/ OpenFile(p) \/ WriteFile(p)
    \/ VerifyJson(p) \/ VerifyMarkdown(p) \/ VerifyHtml(p) \/ VerifyLinks(p)

Next ==
    \/ StoreStep
    \/ \E p \in Exporters : (\E r \in RunIds : StartExport(p, r)) \/ Export(p) \/ Kill(p)

Spec == Init /\ [][Next]_vars

-----------------------------------------------------------------------------
(* Safety *)

TypeOK ==
    /\ bound \subseteq [run_id : RunIds, decision_digest : Digests]
    /\ closed \subseteq Verdicts
    /\ files \in [RunIds -> [Formats -> Seq(Snapshots) \union {Null}]]
    /\ step \in [Exporters -> Active \union {"idle", "done"}]
    /\ turn \in [Exporters -> 1..3]
    /\ snapshot \in [Exporters -> [run_id : RunIds \union {Null},
                                   packet : Digests \union {Null},
                                   review : Verdicts \union {Null}]]
    /\ seen \in [Exporters -> [Formats -> Seq(Snapshots)]]
    /\ outcome \in [Exporters -> {"none", "exported", "refused", "raised"}]
    /\ failed \in [RunIds -> BOOLEAN]
    /\ alone \in [Exporters -> BOOLEAN] /\ serial \in [RunIds -> BOOLEAN]
    /\ reported \subseteq Snapshots

\* The database held the packet for the run, and the review, if there is one,
\* is the run's final one and about this packet.
Committed(s) ==
    /\ [run_id |-> s.run_id, decision_digest |-> s.packet] \in bound
    /\ s.review # Null => /\ s.review \in closed
                          /\ s.review.run_id = s.run_id
                          /\ s.review.decision_digest = s.packet

\* Whatever exports and reviews overlap and whoever is killed, the digest an
\* export reports is that of a snapshot the database really held: packet and
\* review belong together although they are read on two connections
\* (store.py 297-308), and no mixture of two exports passes for a snapshot.
ReportedSnapshotsAreCommitted == \A s \in reported : Committed(s)

\* An export that no other export of its run overlaps ends with three whole
\* files of its own snapshot, whatever killed exports have left behind, and it
\* reports them, unless a packet or a reviewer put a link into the HTML
\* (exporters.py 165) or the identifier is too long for a file (paths.py 19).
AloneExportsAreWhole ==
    \A p \in Exporters :
        step[p] = "done" /\ alone[p] /\ Committed(snapshot[p]) =>
            LET paths == PathsResolve(snapshot[p].run_id)
            IN  /\ paths => \A f \in Formats : Read(p, f) = Rendering(snapshot[p])
                /\ outcome[p] = IF paths /\ ~HasLink(snapshot[p]) THEN "exported" ELSE "refused"

\* No export of the run is under way, and all since the last such moment have
\* ended with exit code 0.
Settled(r) == ~failed[r] /\ \A p \in Exporters : ~Exporting(p, r)

\* The three files carry one digest.
Agree(r) ==
    /\ \A f \in Formats : files[r][f] \notin {Null, <<>>}
    /\ \A f, g \in Formats : Mark(files[r][f]) = Mark(files[r][g])

\* When exports of a run have overlapped, in any number and any order, and all
\* ended with exit code 0, the three files carry one digest: whoever wrote last
\* has read all three after that (exporters.py 139-141, 150-163).
SucceededExportsAgree ==
    \A r \in RunIds : Settled(r) =>
        \/ \A f \in Formats : files[r][f] = Null
        \/ Agree(r)

\* While the exports of a run come one after the other, a reviewed run that was
\* reported as reviewed never shows a draft again: every file is the reviewed
\* one, or the empty one an export that was killed had just opened.
SerialExportsNeverRegress ==
    \A s \in reported :
        serial[s.run_id] /\ s.review # Null =>
            \A f \in Formats : files[s.run_id][f] \in {<<>>, Rendering(s)}

-----------------------------------------------------------------------------
(* The inductive invariant behind the safety properties *)

CommittedSnapshots == {s \in Snapshots : Committed(s)}

\* A run is bound to one packet, challenges and verdicts are about it, and there
\* is one verdict at most.
StoreInv ==
    /\ \A b, c \in bound : b.run_id = c.run_id => b = c
    /\ \A o \in open : /\ [run_id |-> o.run_id, decision_digest |-> o.decision_digest] \in bound
                        /\ o.nonce \in Nonces
    /\ \A v \in closed : [run_id |-> v.run_id, decision_digest |-> v.decision_digest] \in bound
    /\ \A v, w \in closed : v.run_id = w.run_id => v = w

\* What a process has read is committed, also between its two reads.
SnapshotInv ==
    \A p \in Exporters :
        /\ step[p] = "packet" => snapshot[p].run_id \in RunIds /\ snapshot[p].review = Null
        /\ step[p] \in Active \ {"packet"} => snapshot[p] \in CommittedSnapshots

\* Files and readings of them hold pieces of committed snapshots only.
FileInv ==
    /\ \A r \in RunIds, f \in Formats : files[r][f] \in Seq(CommittedSnapshots) \union {Null}
    /\ \A p \in Exporters, f \in Formats : seen[p][f] \in Seq(CommittedSnapshots)
    /\ reported \subseteq CommittedSnapshots

\* The files a process has opened are there, and a JSON text that passed its
\* check is not empty.
ProgressInv ==
    \A p \in Exporters :
        /\ \A i \in 1..3 :
              \/ step[p] \in {"open", "write"} /\ i < turn[p]
              \/ step[p] = "write" /\ i = turn[p]
              \/ step[p] \in {"verify_json", "verify_markdown", "verify_html", "verify_links"}
              => Read(p, Order[i]) # Null
        /\ step[p] \notin {"open", "write"} => turn[p] = 1
        /\ step[p] \in {"verify_markdown", "verify_html", "verify_links"}
              => seen[p]["json"] # <<>>

\* What is true of any process, whatever the others do.
CoreInv == TypeOK /\ StoreInv /\ SnapshotInv /\ FileInv /\ ProgressInv

Reading   == {"verify_markdown", "verify_html", "verify_links"}
Verifying == {"verify_json"} \union Reading

\* The files of a run, and what is read of them, are about that run.
Of(r) == {s \in Snapshots : s.run_id = r}

RunInv ==
    /\ \A r \in RunIds, f \in Formats : files[r][f] \in Seq(Of(r)) \union {Null}
    /\ \A p \in Exporters : step[p] \in Reading =>
          seen[p]["json"] \in Seq(Of(snapshot[p].run_id))
    /\ \A p \in Exporters : step[p] \in {"open", "write"} \union Verifying =>
          PathsResolve(snapshot[p].run_id)

\* What a process that is alone has written and read is still there.
Whole(p) ==
    /\ PathsResolve(snapshot[p].run_id) => \A f \in Formats : Read(p, f) = Rendering(snapshot[p])
    /\ outcome[p] = IF PathsResolve(snapshot[p].run_id) /\ ~HasLink(snapshot[p])
                    THEN "exported" ELSE "refused"

Undisturbed(p) ==
    /\ step[p] # "idle" /\ snapshot[p].run_id \in RunIds
    /\ \A q \in Exporters \ {p} : ~Exporting(q, snapshot[p].run_id)
    /\ step[p] = "packet" => snapshot[p].packet = Null
    /\ step[p] \in {"open", "write"} =>
          \A i \in 1..3 : i < turn[p] => Read(p, Order[i]) = Rendering(snapshot[p])
    /\ step[p] = "write" => Read(p, Order[turn[p]]) = <<>>
    /\ step[p] \in Verifying => \A f \in Formats : Read(p, f) = Rendering(snapshot[p])
    /\ step[p] \in Reading => seen[p]["json"] = Rendering(snapshot[p])
    /\ step[p] \in Reading \ {"verify_markdown"} =>
          seen[p]["markdown"] = Rendering(snapshot[p])
    /\ step[p] = "done" => snapshot[p].packet = Null \/ Whole(p)

AloneInv == \A p \in Exporters : alone[p] => Undisturbed(p)

\* While the exports of a run have never overlapped, each is alone, and once the
\* reviewed run was reported, every later one has read the same snapshot.
InTurn(r) ==
    /\ \A p \in Exporters : Exporting(p, r) => alone[p]
    /\ \A s \in reported : s.run_id = r /\ s.review # Null =>
          /\ \A f \in Formats : files[r][f] \in {<<>>, Rendering(s)}
          /\ \A p \in Exporters :
                Exporting(p, r) /\ step[p] \notin {"packet", "review"} => snapshot[p] = s

SerialInv == \A r \in RunIds : serial[r] => InTurn(r)

\* Somebody has still to read the files, and what was read of them is unchanged:
\* a process that writes, or one that verifies and has not been written over.
Unconfirmed(p) ==
    \/ step[p] \notin Reading
    \/ step[p] = "verify_markdown" /\ seen[p]["json"] = Read(p, "json")
    \/ /\ step[p] = "verify_html"
       /\ seen[p]["json"] = Read(p, "json")
       /\ seen[p]["markdown"] = Read(p, "markdown") /\ Read(p, "markdown") # <<>>

Agreeing(r) ==
    \/ \A f \in Formats : files[r][f] = Null
    \/ Agree(r)
    \/ \E p \in Exporters : Exporting(p, r) /\ Unconfirmed(p)

AgreeInv == \A r \in RunIds : ~failed[r] => Agreeing(r)

IInv == CoreInv /\ RunInv /\ AloneInv /\ SerialInv /\ AgreeInv

-----------------------------------------------------------------------------
(* Statements of the documentation *)

\* "JSON, Markdown, and safe standalone HTML represent the same canonical
\* snapshot. Each format embeds the same SHA-256 digest." (export-contract.md
\* 3-4): after exports that have all succeeded, the files of a run are the
\* texts of one snapshot.
FilesRepresentOneSnapshot ==
    \A r \in RunIds : Settled(r) => \A f, g \in Formats : files[r][f] = files[r][g]
=============================================================================
