----------------------------- MODULE GateEngine -----------------------------
(***************************************************************************)
(* engine.py, domain.py and policy.py as operators: from a validated case  *)
(* and a readiness policy to a decision packet, and the packet's own       *)
(* verification.  A case is a record of three files: the candidate         *)
(* [scenario, id, date], the set of evidence items and the set of waivers. *)
(* Dates are integers.  `intact' stands for the field, enumeration and     *)
(* payload digest checks of an item, `dated' for "both dates of the waiver *)
(* parse"; `entry' is a waiver's place in its list, where the same waiver  *)
(* may stand twice.  A digest is a free constructor: SHA-256 is taken to   *)
(* have no collisions.                                                     *)
(***************************************************************************)
EXTENDS Integers, FiniteSets

CONSTANTS Gates,   \* the readiness gates, G-01 .. G-14 in the code
          Null     \* no waiver, no file, no packet

Digest(value) == <<"sha256", value>>

-----------------------------------------------------------------------------
(* policy.py *)

Waivable(policy, g) == g \in policy.waivable

\* load_policy accepts exactly the complete set of gates.
PolicyLoads(policy) == policy.wellFormed /\ DOMAIN policy.owner = Gates

-----------------------------------------------------------------------------
(* One gate *)

EvidenceFor(cs, g) == {e \in cs.evidence : e.gate = g}

ExplicitFailure(cs, g) == \E e \in EvidenceFor(cs, g) : e.status = "FAIL"

\* What is wrong with the only evidence of a gate.
Defects(policy, cs, g, e) ==
  {r \in {"EVIDENCE_REJECTED", "APPROVAL_PENDING", "EVIDENCE_FROM_FUTURE", "EVIDENCE_STALE",
          "OWNER_MISMATCH"} :
     \/ r = "EVIDENCE_REJECTED" /\ e.approval = "REJECTED"
     \/ r = "APPROVAL_PENDING" /\ e.approval = "PENDING"
     \/ r = "EVIDENCE_FROM_FUTURE" /\ e.observed > cs.candidate.date
     \/ r = "EVIDENCE_STALE" /\ e.expires < cs.candidate.date
     \/ r = "OWNER_MISMATCH" /\ e.owner # policy.owner[g]}

Reasons(policy, cs, g) ==
  LET items == EvidenceFor(cs, g)
  IN  IF items = {} THEN {"MISSING_REQUIRED_EVIDENCE"}
      ELSE IF Cardinality(items) # 1 THEN {"EVIDENCE_CARDINALITY_CONFLICT"}
      ELSE UNION {Defects(policy, cs, g, e) : e \in items}

\* Mutant: rejected evidence can be waived too.
WaivableByRejection ==
  {"MISSING_REQUIRED_EVIDENCE", "EVIDENCE_STALE", "APPROVAL_PENDING", "EVIDENCE_REJECTED"}

WaivableReasons ==
  {"MISSING_REQUIRED_EVIDENCE", "EVIDENCE_STALE", "APPROVAL_PENDING"}

\* The waiver is for this gate and this candidate, and its owner approved it.
Names(policy, cs, g, w) ==
  /\ w.gate = g
  /\ w.candidate = cs.candidate.id
  /\ w.status = "APPROVED"
  /\ w.authority = policy.owner[g]

\* Its dates are only looked at once it names the gate.
DatesAreBad(w) == ~w.dated \/ w.expires < w.approved

\* Mutant: a waiver outlives its window.
ValidWhenExpired(policy, cs, g, w) ==
  Names(policy, cs, g, w) /\ w.approved <= cs.candidate.date

ValidWaiver(policy, cs, g, w) ==
  /\ Names(policy, cs, g, w)
  /\ w.approved <= cs.candidate.date
  /\ cs.candidate.date <= w.expires

Applicable(policy, cs, g) == {w \in cs.waivers : ValidWaiver(policy, cs, g, w)}

Outcome(status, reasons, cs, g, waiver) ==
  [status   |-> status,
   reasons  |-> reasons,
   evidence |-> {e.id : e \in EvidenceFor(cs, g)},
   waiver   |-> waiver]

GateOutcome(policy, cs, g) ==
  LET reasons    == Reasons(policy, cs, g)
      applicable == Applicable(policy, cs, g)
  IN  CASE ExplicitFailure(cs, g) ->
             Outcome("FAIL", {"EXPLICIT_MANDATORY_FAILURE"}, cs, g, Null)
        [] ~ExplicitFailure(cs, g) /\ reasons = {} ->
             Outcome("PASS", {"CURRENT_APPROVED_PASS_EVIDENCE"}, cs, g, Null)
        [] ~ExplicitFailure(cs, g) /\ reasons # {} ->
             IF /\ Waivable(policy, g)
                /\ Cardinality(applicable) = 1
                /\ reasons \subseteq WaivableReasons
             THEN Outcome("PASS_WITH_WAIVER", reasons \cup {"VALID_BOUNDED_WAIVER"}, cs, g,
                          (CHOOSE w \in applicable : TRUE).id)
             ELSE Outcome("BLOCKED",
                          reasons \cup IF Waivable(policy, g) /\ Cardinality(applicable) > 1
                                       THEN {"MULTIPLE_APPLICABLE_WAIVERS"} ELSE {},
                          cs, g, Null)

-----------------------------------------------------------------------------
(* evaluate_case *)

\* A waiver that names a gate whose outcome hangs on waivers, with bad dates.
WaiverDatesRaise(policy, cs, g) ==
  /\ Waivable(policy, g)
  /\ ~ExplicitFailure(cs, g)
  /\ Reasons(policy, cs, g) # {}
  /\ \E w \in cs.waivers : Names(policy, cs, g, w) /\ DatesAreBad(w)

EvaluateRaises(policy, cs) ==
  \/ \E e \in cs.evidence : e.gate \notin Gates
  \/ \E w \in cs.waivers : ~w.intact \/ w.gate \notin Gates \/ ~Waivable(policy, w.gate)
  \/ \E g \in Gates : WaiverDatesRaise(policy, cs, g)

WithStatus(gates, statuses) == {g \in DOMAIN gates : gates[g].status \in statuses}

\* Mutant: uncertainty is reported before failure.
PrecedenceSwapped(failed, blocked) ==
  CASE blocked # {}                  -> "BLOCKED"
    [] blocked = {} /\ failed # {}   -> "FAIL"
    [] blocked = {} /\ failed = {}   -> "PASS"

\* FAIL > BLOCKED > PASS
Precedence(failed, blocked) ==
  CASE failed # {}                   -> "FAIL"
    [] failed = {} /\ blocked # {}   -> "BLOCKED"
    [] failed = {} /\ blocked = {}   -> "PASS"

\* The packet without its digest.  Of an outcome's evidence it holds the
\* identifiers, and of the policy its version.
Body(policy, cs) ==
  LET gates   == [g \in Gates |-> GateOutcome(policy, cs, g)]
      failed  == WithStatus(gates, {"FAIL"})
      blocked == WithStatus(gates, {"BLOCKED"})
  IN  [candidate |-> cs.candidate,
       policy    |-> policy.version,
       decision  |-> Precedence(failed, blocked),
       gates     |-> gates,
       failed    |-> failed,
       blocked   |-> blocked,
       passed    |-> WithStatus(gates, {"PASS", "PASS_WITH_WAIVER"})]

Evaluate(policy, cs) ==
  [body |-> Body(policy, cs), digest |-> Digest(Body(policy, cs))]

VerifyPacket(packet) ==
  LET body == packet.body
  IN  /\ packet.digest = Digest(body)
      /\ DOMAIN body.gates = Gates
      /\ body.failed = WithStatus(body.gates, {"FAIL"})
      /\ body.blocked = WithStatus(body.gates, {"BLOCKED"})
      /\ body.passed = WithStatus(body.gates, {"PASS", "PASS_WITH_WAIVER"})
      /\ \A g \in Gates : (body.gates[g].status = "PASS_WITH_WAIVER")
                            <=> (body.gates[g].waiver # Null)
      /\ body.failed # {} => body.decision = "FAIL"
      /\ body.failed = {} /\ body.blocked # {} => body.decision = "BLOCKED"
      /\ body.failed = {} /\ body.blocked = {} => body.decision = "PASS"

-----------------------------------------------------------------------------
(* What the documents promise of a decision, said without the engine's      *)
(* reasons and counts.                                                      *)

\* Current, approved, candidate-bound passing evidence, and nothing beside it.
Proven(policy, cs, g) ==
  \E e \in cs.evidence :
    /\ EvidenceFor(cs, g) = {e}
    /\ e.status = "PASS" /\ e.approval = "APPROVED"
    /\ e.candidate = cs.candidate.id
    /\ e.observed <= cs.candidate.date /\ cs.candidate.date <= e.expires
    /\ e.owner = policy.owner[g]

\* Evidence that is only missing, stale or pending.
Uncertain(policy, cs, g) ==
  \/ EvidenceFor(cs, g) = {}
  \/ \E e \in cs.evidence :
       /\ EvidenceFor(cs, g) = {e}
       /\ e.status = "PASS" /\ e.approval # "REJECTED"
       /\ e.candidate = cs.candidate.id
       /\ e.observed <= cs.candidate.date
       /\ e.owner = policy.owner[g]

\* One waiver, and one only, is signed by the owner and current.
Waived(policy, cs, g) ==
  /\ g \in policy.waivable
  /\ \E w \in cs.waivers :
       /\ w.gate = g /\ w.status = "APPROVED" /\ w.intact
       /\ w.candidate = cs.candidate.id /\ w.authority = policy.owner[g]
       /\ w.approved <= cs.candidate.date /\ cs.candidate.date <= w.expires
       /\ \A v \in cs.waivers \ {w} : ~ValidWaiver(policy, cs, g, v)

Satisfied(policy, cs, g) ==
  Proven(policy, cs, g) \/ (Uncertain(policy, cs, g) /\ Waived(policy, cs, g))

DecisionFor(policy, cs) ==
  IF \E e \in cs.evidence : e.status = "FAIL" THEN "FAIL"
  ELSE IF \A g \in Gates : Satisfied(policy, cs, g) THEN "PASS" ELSE "BLOCKED"
=============================================================================
