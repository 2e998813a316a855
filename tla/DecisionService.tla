--------------------------- MODULE DecisionService ---------------------------
(***************************************************************************)
(* GoLiveDecisionService.decide (service.py) over a case directory that     *)
(* others write: scripts/build_cases.py clears the directory, writes the    *)
(* three files and at last the manifest, and may die anywhere on the way;   *)
(* an editor outside the repository overwrites a file in place.  decide     *)
(* reads the manifest, hashes the three files, reads each of them again,    *)
(* and then decides on what the second reading found.                       *)
(***************************************************************************)
EXTENDS CaseValidation, Sequences

CONSTANTS Candidates,    \* the candidate files that may be written
          EvidenceFiles, \* the evidence files: sets of evidence items
          WaiverFiles,   \* the waiver files: sets of waivers
          Policies,      \* the gates.json files a service may be built on
          MaxBuilds,     \* bound: builds that are started
          MaxEdits,      \* bound: files overwritten in place
          MaxDecisions   \* bound: decisions that are asked for

Payloads == [candidate : Candidates, evidence : EvidenceFiles, waivers : WaiverFiles]

FilesFor(f) == CASE f = "candidate" -> Candidates
                 [] f = "evidence"  -> EvidenceFiles
                 [] f = "waivers"   -> WaiverFiles

\* build_into writes, and validate_case reads again, in this order.
FileOrder == <<"candidate", "evidence", "waivers">>

VARIABLES disk,      \* the case directory: the contents of each file
          builder,   \* build_cases: its stage and the payload it writes
          policy,    \* gates.json of the service
          at,        \* where decide is
          manifest,  \* the manifest decide read
          todo,      \* the manifest records it has not checked yet
          case,      \* the files it has read again
          advisor,   \* the note a FixtureAdvisor returns; Null: RuleAdvisor
          emitted,   \* history: the decisions returned
          disturbed, \* history: the directory changed since decide began
          builds, edits, decisions   \* counters for the bounds

world   == <<disk, builder, builds, edits>>
decider == <<at, manifest, todo, case, advisor, emitted, decisions>>
vars    == <<world, decider, policy, disturbed>>

\* Parsed files, and a file that cannot be read is not one of them.
ASSUME PayloadAssumption == \A payload \in Payloads : CaseTyped(payload)
ASSUME FileAssumption == /\ \A f \in FileNames : Null \notin FilesFor(f)
                         /\ Null \notin Payloads

NoFiles == [f \in FileNames |-> Null]

Init ==
  /\ disk = [f \in FileNames \cup {"manifest"} |-> Null]
  /\ builder = [stage |-> "off", payload |-> Null]
  /\ policy \in Policies
  /\ at = "idle" /\ manifest = Null /\ todo = {} /\ case = NoFiles
  /\ advisor = Null
  /\ emitted = {}
  /\ disturbed = FALSE
  /\ builds = 0 /\ edits = 0 /\ decisions = 0

-----------------------------------------------------------------------------
(* The writers of the case directory *)

StartBuild(payload) ==
  /\ builder.stage = "off" /\ builds < MaxBuilds
  /\ builder' = [stage |-> "clear", payload |-> payload]
  /\ builds' = builds + 1
  /\ UNCHANGED <<disk, edits, decider, policy, disturbed>>

\* rmtree removes the files in the order the directory lists them.
Remove(f) ==
  /\ builder.stage = "clear" /\ disk[f] # Null
  /\ disk' = [disk EXCEPT ![f] = Null]
  /\ disturbed' = TRUE
  /\ UNCHANGED <<builder, builds, edits, decider, policy>>

StartWriting ==
  /\ builder.stage = "clear" /\ \A f \in DOMAIN disk : disk[f] = Null
  /\ builder' = [builder EXCEPT !.stage = "write"]
  /\ UNCHANGED <<disk, builds, edits, decider, policy, disturbed>>

Write(i) ==
  /\ builder.stage = "write"
  /\ disk[FileOrder[i]] = Null
  /\ \A j \in 1..(i - 1) : disk[FileOrder[j]] # Null
  /\ disk' = [disk EXCEPT ![FileOrder[i]] = builder.payload[FileOrder[i]]]
  /\ disturbed' = TRUE
  /\ UNCHANGED <<builder, builds, edits, decider, policy>>

\* The manifest hashes what is on disk by then.
Seal ==
  /\ builder.stage = "write"
  /\ \A f \in FileNames : disk[f] # Null
  /\ disk' = [disk EXCEPT !["manifest"] =
                [ManifestOf(disk) EXCEPT !.scenario = builder.payload.candidate.scenario]]
  /\ builder' = [stage |-> "off", payload |-> Null]
  /\ disturbed' = TRUE
  /\ UNCHANGED <<builds, edits, decider, policy>>

BuilderDies ==
  /\ builder.stage # "off"
  /\ builder' = [stage |-> "off", payload |-> Null]
  /\ UNCHANGED <<disk, builds, edits, decider, policy, disturbed>>

Edit(f, content) ==
  /\ edits < MaxEdits /\ disk[f] \notin {Null, content}
  /\ disk' = [disk EXCEPT ![f] = content]
  /\ edits' = edits + 1
  /\ disturbed' = TRUE
  /\ UNCHANGED <<builder, builds, decider, policy>>

Writers ==
  \/ \E payload \in Payloads : StartBuild(payload)
  \/ \E f \in DOMAIN disk : Remove(f)
  \/ StartWriting
  \/ \E i \in 1..3 : Write(i)
  \/ Seal
  \/ BuilderDies
  \/ \E f \in FileNames : \E content \in FilesFor(f) : Edit(f, content)

-----------------------------------------------------------------------------
(* adapters.py *)

RuleNote(packet) ==
  [decision |-> packet.body.decision, digest |-> packet.digest, authority |-> "ADVISORY_ONLY"]

Advise(packet) == IF advisor = Null THEN RuleNote(packet) ELSE advisor

\* Mutant: the note's digest is not compared.
VerifyAdviceByDecision(packet, note) ==
  note.authority = "ADVISORY_ONLY" /\ note.decision = packet.body.decision

VerifyAdvice(packet, note) ==
  /\ note.authority = "ADVISORY_ONLY"
  /\ note.decision = packet.body.decision
  /\ note.digest = packet.digest

\* What a service may be built with: the rules, a note kept from an earlier
\* decision, or such a note with more authority than it had.
Advisors ==
  {Null} \cup {d.note : d \in emitted}
         \cup {[d.note EXCEPT !.authority = "APPROVER"] : d \in emitted}

-----------------------------------------------------------------------------
(* decide *)

Reject ==
  /\ at' = "rejected"
  /\ UNCHANGED <<todo, case, manifest, emitted>>

StartDecide(a) ==
  /\ at \in {"idle", "decided", "rejected"} /\ decisions < MaxDecisions
  /\ at' = "manifest" /\ manifest' = Null /\ todo' = FileNames /\ case' = NoFiles
  /\ advisor' = a
  /\ decisions' = decisions + 1
  /\ disturbed' = FALSE
  /\ UNCHANGED <<world, policy, emitted>>

ReadManifest ==
  /\ at = "manifest"
  /\ IF disk["manifest"] = Null
     THEN Reject
     ELSE at' = "check" /\ manifest' = disk["manifest"] /\ UNCHANGED <<todo, case, emitted>>
  /\ UNCHANGED <<world, policy, advisor, decisions, disturbed>>

\* Mutant: the loop over the manifest ends with its first record.
CheckFirstFile(f) ==
  /\ at = "check" /\ f \in todo
  /\ IF FileMatches(manifest, disk, f)
     THEN todo' = todo \ {f} /\ at' = "read" /\ UNCHANGED <<manifest, case, emitted>>
     ELSE Reject
  /\ UNCHANGED <<world, policy, advisor, decisions, disturbed>>

CheckFile(f) ==
  /\ at = "check" /\ f \in todo
  /\ IF FileMatches(manifest, disk, f)
     THEN /\ todo' = todo \ {f}
          /\ at' = IF todo' = {} THEN "read" ELSE "check"
          /\ UNCHANGED <<manifest, case, emitted>>
     ELSE Reject
  /\ UNCHANGED <<world, policy, advisor, decisions, disturbed>>

\* The three files are loaded once more; the last one is followed by the
\* checks on their contents.
ReadFile(i) ==
  /\ at = "read"
  /\ case[FileOrder[i]] = Null
  /\ \A j \in 1..(i - 1) : case[FileOrder[j]] # Null
  /\ LET read == [case EXCEPT ![FileOrder[i]] = disk[FileOrder[i]]]
     IN  IF disk[FileOrder[i]] = Null
         THEN Reject
         ELSE /\ case' = read
              /\ at' = IF i < 3 THEN "read"
                       ELSE IF CaseAdmissible(manifest, read) THEN "evaluate" ELSE "rejected"
              /\ UNCHANGED <<todo, manifest, emitted>>
  /\ UNCHANGED <<world, policy, advisor, decisions, disturbed>>

\* load_policy, evaluate_case, verify_packet, advise and verify_advice: no
\* file of the case is read any more.
Conclude ==
  /\ at = "evaluate"
  /\ LET packet == Evaluate(policy, case)
         note   == Advise(packet)
     IN  IF /\ PolicyLoads(policy)
            /\ ~EvaluateRaises(policy, case)
            /\ VerifyPacket(packet)
            /\ VerifyAdvice(packet, note)
         THEN /\ at' = "decided"
              /\ emitted' = emitted \cup
                   {[case |-> case, policy |-> policy, packet |-> packet, note |-> note]}
              /\ UNCHANGED <<todo, case, manifest>>
         ELSE Reject
  /\ UNCHANGED <<world, policy, advisor, decisions, disturbed>>

Decide ==
  \/ \E a \in Advisors : StartDecide(a)
  \/ ReadManifest
  \/ \E f \in FileNames : CheckFile(f)
  \/ \E i \in 1..3 : ReadFile(i)
  \/ Conclude

Next == Writers \/ Decide

Spec == Init /\ [][Next]_vars

-----------------------------------------------------------------------------
(* Properties *)

\* decide's variables between its steps: what it has read is what some build
\* or edit wrote, files are read in order, and a decision is only returned on
\* a case that was read whole.
TypeOK ==
  /\ DOMAIN disk = FileNames \cup {"manifest"} /\ DOMAIN case = FileNames
  /\ \A f \in FileNames : disk[f] \in FilesFor(f) \cup {Null}
  /\ builder.stage \in {"off", "clear", "write"}
  /\ builder.payload \in Payloads \cup {Null}
  /\ (builder.stage = "off") <=> (builder.payload = Null)
  /\ policy \in Policies
  /\ at \in {"idle", "manifest", "check", "read", "evaluate", "decided", "rejected"}
  /\ at \in {"check", "read", "evaluate", "decided"} => manifest # Null
  /\ todo \subseteq FileNames
  /\ at = "manifest" => todo = FileNames
  /\ at \in {"read", "evaluate", "decided"} => todo = {}
  /\ \A f \in FileNames : case[f] \in FilesFor(f) \cup {Null}
  /\ at \in {"evaluate", "decided"} => case \in Payloads
  /\ disturbed \in BOOLEAN

\* FAIL exactly when some evidence fails, PASS exactly when every gate is
\* proven or properly waived, BLOCKED otherwise (decision-semantics.md 9-18).
DecisionsFollowTheSemantics ==
  \A d \in emitted : d.packet.body.decision = DecisionFor(d.policy, d.case)

\* Against the same case without its waivers, a waiver turns only blocked
\* waivable gates, into waived ones or into gates blocked for one reason more;
\* no failed gate changes and no passing gate is lost (waiver-controls.md 12-13).
WaiversOnlyLiftUncertainty ==
  \A d \in emitted :
    LET bare == Body(d.policy, [d.case EXCEPT !["waivers"] = {}])
        body == d.packet.body
    IN  \A g \in Gates :
          \/ body.gates[g] = bare.gates[g]
          \/ /\ g \in d.policy.waivable
             /\ g \in bare.blocked /\ g \notin body.failed
             /\ g \in body.passed =>
                  \A e \in d.case.evidence : e.gate = g => e.status = "PASS" /\ e.approval # "REJECTED"
             /\ bare.gates[g].reasons \subseteq body.gates[g].reasons

\* Whatever the writers do while decide reads, a returned packet speaks of one
\* candidate: every item it rests on is bound to it, is listed under its own
\* gate and under no other, and nothing else is listed (engine.py 217-222,
\* case_validation.py 79-82, 147-151).
EvidenceIsAccountedFor ==
  \A d \in emitted :
    /\ d.packet.body.candidate = d.case.candidate
    /\ \A e \in d.case.evidence :
         /\ e.candidate = d.case.candidate.id
         /\ \A g \in Gates : (e.id \in d.packet.body.gates[g].evidence) <=> (e.gate = g)
    /\ \A g \in Gates : \A id \in d.packet.body.gates[g].evidence :
         \E e \in d.case.evidence : e.id = id

\* verify_packet never refuses what evaluate_case returns (engine.py 292-334).
EngineSatisfiesVerifyPacket ==
  (at = "evaluate" /\ PolicyLoads(policy) /\ ~EvaluateRaises(policy, case)) =>
    VerifyPacket(Evaluate(policy, case))

\* No note kept from another packet, and none with more authority than advice,
\* leaves decide (adapters.py 48-56).
AdviceSpeaksOfItsPacket ==
  \A d \in emitted : d.note = RuleNote(d.packet)

\* When nobody writes while decide runs, it decides on exactly the case the
\* manifest binds: a directory that a dead build left half cleared or half
\* written, or that was edited after it was sealed, yields no decision.
UndisturbedDecisionsAreManifested ==
  (at = "decided" /\ ~disturbed) =>
    /\ disk["manifest"] = manifest
    /\ \A f \in FileNames : case[f] = disk[f] /\ manifest.hashes[f] = Hash(case[f])

\* What decide knows of an undisturbed directory: its manifest, that the files
\* off the list match it, and that what it read again is still there.
ReadingInv ==
  ~disturbed =>
    /\ at \in {"check", "read", "evaluate", "decided"} =>
         /\ manifest = disk["manifest"]
         /\ \A f \in FileNames \ todo : FileMatches(manifest, disk, f)
    /\ \A f \in FileNames : case[f] # Null => case[f] = disk[f]

\* What stands behind every decision returned.
EmittedInv ==
  /\ at = "evaluate" => CaseAdmissible(manifest, case)
  /\ advisor # Null => advisor = [decision  |-> advisor.decision,
                                  digest    |-> advisor.digest,
                                  authority |-> advisor.authority]
  /\ \A d \in emitted :
       /\ d.case \in Payloads /\ d.policy = policy
       /\ \A e \in d.case.evidence : EvidenceAdmissible(d.case, e)
       /\ \A e, f \in d.case.evidence : e.id = f.id => e = f
       /\ ~EvaluateRaises(d.policy, d.case)
       /\ d.packet = Evaluate(d.policy, d.case)
       /\ d.note = RuleNote(d.packet)

\* The inductive invariant.
DecideInv == TypeOK /\ ReadingInv /\ EmittedInv

\* What documents say of decide and the code does not do.

\* "at least one mandatory gate has current, valid evidence explicitly
\* demonstrating failure" (decision-semantics.md 9-10).
FailRestsOnCurrentValidEvidence ==
  \A d \in emitted :
    d.packet.body.decision = "FAIL" =>
      \E e \in d.case.evidence :
        /\ e.status = "FAIL" /\ e.approval # "REJECTED"
        /\ e.observed <= d.case.candidate.date /\ d.case.candidate.date <= e.expires

\* "Any evidence, policy, gate outcome, or candidate change produces another
\* digest." (ui.py 45)
AnyEvidenceChangeChangesTheDigest ==
  \A c, d \in emitted : c.case.evidence # d.case.evidence => c.packet.digest # d.packet.digest

\* "The case manifest binds file names, byte counts, and SHA-256 values."
\* (evidence-contract.md 13)
ManifestBindsTheDecision ==
  at = "decided" => \A f \in FileNames : manifest.hashes[f] = Hash(case[f])
=============================================================================
