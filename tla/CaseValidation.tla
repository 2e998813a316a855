--------------------------- MODULE CaseValidation ---------------------------
(***************************************************************************)
(* case_validation.py as operators: what the manifest of a case binds, and *)
(* what makes the three files of a case admissible.  An unreadable file,   *)
(* absent or cut short, is Null.  The manifest's hashes cover exactly the  *)
(* three files.                                                            *)
(***************************************************************************)
EXTENDS GateEngine

\* The types the JSON of a case has once it is parsed.
CaseTyped(cs) ==
  /\ cs.candidate.date \in Int
  /\ IsFiniteSet(cs.evidence)
  /\ \A e \in cs.evidence :
       /\ e.status \in {"PASS", "FAIL"}
       /\ e.approval \in {"APPROVED", "PENDING", "REJECTED"}
       /\ e.observed \in Int /\ e.expires \in Int
  /\ IsFiniteSet(cs.waivers)
  /\ \A w \in cs.waivers : w.approved \in Int /\ w.expires \in Int /\ w.id # Null

FileNames == {"candidate", "evidence", "waivers"}

Hash(content) == <<"file hash", content>>

ManifestOf(case) ==
  [scenario |-> case["candidate"].scenario,
   hashes   |-> [f \in FileNames |-> Hash(case[f])]]

\* Mutant: presence is checked, the digest is not.
FilePresent(manifest, disk, f) == disk[f] # Null

\* One record of the manifest against the file on disk.
FileMatches(manifest, disk, f) ==
  disk[f] # Null /\ manifest.hashes[f] = Hash(disk[f])

\* Mutant: the evidence is not compared with the candidate.
EvidenceOfAnyCandidate(cs, e) == e.intact /\ e.observed <= e.expires

EvidenceAdmissible(cs, e) ==
  /\ e.intact
  /\ e.candidate = cs.candidate.id
  /\ e.observed <= e.expires

CaseAdmissible(manifest, cs) ==
  /\ cs.candidate.scenario = manifest.scenario
  /\ \A e \in cs.evidence : EvidenceAdmissible(cs, e)
  /\ \A e, f \in cs.evidence : e.id = f.id => e = f
=============================================================================
