------------------------ MODULE DecisionServiceProofs ------------------------
(***************************************************************************)
(* Theorems about the gate engine, for every policy and every typed case,  *)
(* and about decide over a directory that others write, for every set of   *)
(* gates, of file contents and of policies, and for every bound.           *)
(***************************************************************************)
EXTENDS DecisionService, FiniteSetTheorems, TLAPS

-----------------------------------------------------------------------------
(* The gate engine *)

\* What validate_case leaves true of the case that evaluate_case gets.
Bound(cs) == \A e \in cs.evidence : e.candidate = cs.candidate.id

LEMMA OneElement ==
  ASSUME NEW S, IsFiniteSet(S)
  PROVE  Cardinality(S) = 1 <=> \E x : S = {x}
BY FS_Singleton

LEMMA DefectsAre ==
  ASSUME NEW rules, NEW cs, NEW g, NEW e, NEW r
  PROVE  r \in Defects(rules, cs, g, e) <=>
           \/ r = "EVIDENCE_REJECTED" /\ e.approval = "REJECTED"
           \/ r = "APPROVAL_PENDING" /\ e.approval = "PENDING"
           \/ r = "EVIDENCE_FROM_FUTURE" /\ e.observed > cs.candidate.date
           \/ r = "EVIDENCE_STALE" /\ e.expires < cs.candidate.date
           \/ r = "OWNER_MISMATCH" /\ e.owner # rules.owner[g]
BY DEF Defects

LEMMA EvidenceIsFinite ==
  ASSUME NEW cs, CaseTyped(cs), NEW g
  PROVE  IsFiniteSet(EvidenceFor(cs, g))
BY FS_Subset DEF CaseTyped, EvidenceFor

\* The reasons of a gate with one item are that item's defects.
LEMMA ReasonsOfOne ==
  ASSUME NEW rules, NEW cs, NEW g, NEW e, EvidenceFor(cs, g) = {e}
  PROVE  Reasons(rules, cs, g) = Defects(rules, cs, g, e)
<1>1. Cardinality({e}) = 1
  BY FS_Singleton
<1> QED
  BY <1>1 DEF Reasons

LEMMA ReasonsOfMany ==
  ASSUME NEW rules, NEW cs, CaseTyped(cs), NEW g,
         EvidenceFor(cs, g) # {}, ~\E e : EvidenceFor(cs, g) = {e}
  PROVE  Reasons(rules, cs, g) = {"EVIDENCE_CARDINALITY_CONFLICT"}
<1>1. Cardinality(EvidenceFor(cs, g)) # 1
  BY EvidenceIsFinite, OneElement
<1> QED
  BY <1>1 DEF Reasons

LEMMA NoReasonsIsProven ==
  ASSUME NEW rules, NEW cs, CaseTyped(cs), Bound(cs), NEW g, ~ExplicitFailure(cs, g)
  PROVE  Reasons(rules, cs, g) = {} <=> Proven(rules, cs, g)
<1>1. CASE EvidenceFor(cs, g) = {}
  BY <1>1 DEF Reasons, Proven
<1>2. CASE \E e : EvidenceFor(cs, g) = {e}
  <2> PICK e : EvidenceFor(cs, g) = {e}
    BY <1>2
  <2>1. /\ e \in cs.evidence /\ e.status = "PASS" /\ e.candidate = cs.candidate.id
        /\ e.approval \in {"APPROVED", "PENDING", "REJECTED"}
        /\ e.observed \in Int /\ e.expires \in Int /\ cs.candidate.date \in Int
    BY DEF EvidenceFor, ExplicitFailure, CaseTyped, Bound
  <2>2. Reasons(rules, cs, g) = Defects(rules, cs, g, e)
    BY ReasonsOfOne
  <2>3. Defects(rules, cs, g, e) = {} <=>
          /\ e.approval = "APPROVED"
          /\ e.observed <= cs.candidate.date /\ cs.candidate.date <= e.expires
          /\ e.owner = rules.owner[g]
    <3>1. Defects(rules, cs, g, e) = {} <=> \A r : r \notin Defects(rules, cs, g, e)
      OBVIOUS
    <3>2. /\ "EVIDENCE_REJECTED" \in Defects(rules, cs, g, e) <=> e.approval = "REJECTED"
          /\ "APPROVAL_PENDING" \in Defects(rules, cs, g, e) <=> e.approval = "PENDING"
          /\ "EVIDENCE_FROM_FUTURE" \in Defects(rules, cs, g, e)
               <=> e.observed > cs.candidate.date
          /\ "EVIDENCE_STALE" \in Defects(rules, cs, g, e) <=> e.expires < cs.candidate.date
          /\ "OWNER_MISMATCH" \in Defects(rules, cs, g, e) <=> e.owner # rules.owner[g]
      BY DefectsAre
    <3>3. \A r \in Defects(rules, cs, g, e) :
            r \in {"EVIDENCE_REJECTED", "APPROVAL_PENDING", "EVIDENCE_FROM_FUTURE",
                  "EVIDENCE_STALE", "OWNER_MISMATCH"}
      BY DefectsAre
    <3> QED
      BY <2>1, <3>1, <3>2, <3>3
  <2>4. Proven(rules, cs, g) <=>
          /\ e.approval = "APPROVED"
          /\ e.observed <= cs.candidate.date /\ cs.candidate.date <= e.expires
          /\ e.owner = rules.owner[g]
    BY <2>1 DEF Proven
  <2> QED
    BY <2>2, <2>3, <2>4
<1>3. CASE EvidenceFor(cs, g) # {} /\ ~\E e : EvidenceFor(cs, g) = {e}
  BY <1>3, ReasonsOfMany DEF Proven
<1> QED
  BY <1>1, <1>2, <1>3

LEMMA WaivableIsUncertain ==
  ASSUME NEW rules, NEW cs, CaseTyped(cs), Bound(cs), NEW g, ~ExplicitFailure(cs, g)
  PROVE  Reasons(rules, cs, g) \subseteq WaivableReasons <=> Uncertain(rules, cs, g)
<1>1. CASE EvidenceFor(cs, g) = {}
  BY <1>1 DEF Reasons, Uncertain, WaivableReasons
<1>2. CASE \E e : EvidenceFor(cs, g) = {e}
  <2> PICK e : EvidenceFor(cs, g) = {e}
    BY <1>2
  <2>1. /\ e \in cs.evidence /\ e.status = "PASS" /\ e.candidate = cs.candidate.id
        /\ e.approval \in {"APPROVED", "PENDING", "REJECTED"}
        /\ e.observed \in Int /\ e.expires \in Int /\ cs.candidate.date \in Int
    BY DEF EvidenceFor, ExplicitFailure, CaseTyped, Bound
  <2>2. Reasons(rules, cs, g) = Defects(rules, cs, g, e)
    BY ReasonsOfOne
  <2>3. Defects(rules, cs, g, e) \subseteq WaivableReasons <=>
          /\ e.approval # "REJECTED"
          /\ ~(e.observed > cs.candidate.date)
          /\ e.owner = rules.owner[g]
    <3>1. Defects(rules, cs, g, e) \subseteq WaivableReasons <=>
            \A r \in Defects(rules, cs, g, e) :
              r \notin {"EVIDENCE_REJECTED", "EVIDENCE_FROM_FUTURE", "OWNER_MISMATCH"}
      BY DefectsAre DEF WaivableReasons
    <3>2. /\ "EVIDENCE_REJECTED" \in Defects(rules, cs, g, e) <=> e.approval = "REJECTED"
          /\ "EVIDENCE_FROM_FUTURE" \in Defects(rules, cs, g, e)
               <=> e.observed > cs.candidate.date
          /\ "OWNER_MISMATCH" \in Defects(rules, cs, g, e) <=> e.owner # rules.owner[g]
      BY DefectsAre
    <3> QED
      BY <3>1, <3>2
  <2>4. Uncertain(rules, cs, g) <=>
          /\ e.approval # "REJECTED"
          /\ e.observed <= cs.candidate.date
          /\ e.owner = rules.owner[g]
    BY <2>1 DEF Uncertain
  <2> QED
    BY <2>1, <2>2, <2>3, <2>4
<1>3. CASE EvidenceFor(cs, g) # {} /\ ~\E e : EvidenceFor(cs, g) = {e}
  BY <1>3, ReasonsOfMany DEF Uncertain, WaivableReasons
<1> QED
  BY <1>1, <1>2, <1>3

LEMMA OneApplicableIsWaived ==
  ASSUME NEW rules, NEW cs, CaseTyped(cs), NEW g,
         Waivable(rules, g), \A w \in cs.waivers : w.intact
  PROVE  Cardinality(Applicable(rules, cs, g)) = 1 <=> Waived(rules, cs, g)
<1>1. IsFiniteSet(Applicable(rules, cs, g))
  BY FS_Subset DEF CaseTyped, Applicable
<1>2. Cardinality(Applicable(rules, cs, g)) = 1 <=> \E w : Applicable(rules, cs, g) = {w}
  BY <1>1, OneElement
<1>3. ASSUME NEW w, Applicable(rules, cs, g) = {w}
      PROVE  Waived(rules, cs, g)
  <2>1. w \in cs.waivers /\ ValidWaiver(rules, cs, g, w)
        /\ \A v \in cs.waivers \ {w} : ~ValidWaiver(rules, cs, g, v)
    BY <1>3 DEF Applicable
  <2> QED
    BY <2>1 DEF ValidWaiver, Names, Waived, Waivable
<1>4. ASSUME Waived(rules, cs, g)
      PROVE  \E w : Applicable(rules, cs, g) = {w}
  <2>1. PICK w \in cs.waivers :
          /\ w.gate = g /\ w.status = "APPROVED" /\ w.intact
          /\ w.candidate = cs.candidate.id /\ w.authority = rules.owner[g]
          /\ w.approved <= cs.candidate.date /\ cs.candidate.date <= w.expires
          /\ \A v \in cs.waivers \ {w} : ~ValidWaiver(rules, cs, g, v)
    BY <1>4 DEF Waived
  <2>2. ValidWaiver(rules, cs, g, w)
    BY <2>1 DEF ValidWaiver, Names
  <2>3. Applicable(rules, cs, g) = {w}
    BY <2>1, <2>2 DEF Applicable
  <2> QED
    BY <2>3
<1> QED
  BY <1>2, <1>3, <1>4

\* A gate fails on any failing evidence, and passes exactly when it is
\* satisfied in the documents' sense (engine.py 110-204).
LEMMA GateStatus ==
  ASSUME NEW rules, NEW cs, CaseTyped(cs), Bound(cs), NEW g \in Gates,
         ~EvaluateRaises(rules, cs)
  PROVE  /\ GateOutcome(rules, cs, g).status = "FAIL" <=> ExplicitFailure(cs, g)
         /\ GateOutcome(rules, cs, g).status = "BLOCKED" <=>
              ~ExplicitFailure(cs, g) /\ ~Satisfied(rules, cs, g)
         /\ GateOutcome(rules, cs, g).status \in {"FAIL", "BLOCKED", "PASS", "PASS_WITH_WAIVER"}
<1>1. CASE ExplicitFailure(cs, g)
  BY <1>1 DEF GateOutcome, Outcome
<1>2. CASE ~ExplicitFailure(cs, g) /\ Reasons(rules, cs, g) = {}
  <2>1. Satisfied(rules, cs, g)
    BY <1>2, NoReasonsIsProven DEF Satisfied
  <2> QED
    BY <1>2, <2>1 DEF GateOutcome, Outcome
<1>3. CASE ~ExplicitFailure(cs, g) /\ Reasons(rules, cs, g) # {}
  <2>1. ~Proven(rules, cs, g)
    BY <1>3, NoReasonsIsProven
  <2>2. Reasons(rules, cs, g) \subseteq WaivableReasons <=> Uncertain(rules, cs, g)
    BY <1>3, WaivableIsUncertain
  <2>3. Waived(rules, cs, g) <=>
          Waivable(rules, g) /\ Cardinality(Applicable(rules, cs, g)) = 1
    BY OneApplicableIsWaived DEF EvaluateRaises, Waived, Waivable
  <2> QED
    BY <1>3, <2>1, <2>2, <2>3 DEF GateOutcome, Outcome, Satisfied
<1> QED
  BY <1>1, <1>2, <1>3

\* The decision of evaluate_case is FAIL exactly when some evidence fails and
\* PASS exactly when every gate is satisfied (engine.py 207-254).
THEOREM EvaluateDecides ==
  ASSUME NEW rules, NEW cs, CaseTyped(cs), Bound(cs), ~EvaluateRaises(rules, cs)
  PROVE  Evaluate(rules, cs).body.decision = DecisionFor(rules, cs)
<1> DEFINE gates   == [g \in Gates |-> GateOutcome(rules, cs, g)]
           failed  == WithStatus(gates, {"FAIL"})
           blocked == WithStatus(gates, {"BLOCKED"})
<1>1. Evaluate(rules, cs).body.decision = Precedence(failed, blocked)
  BY DEF Evaluate, Body
<1>2. failed # {} <=> \E g \in Gates : ExplicitFailure(cs, g)
  BY GateStatus DEF WithStatus
<1>3. (\E g \in Gates : ExplicitFailure(cs, g)) <=> \E e \in cs.evidence : e.status = "FAIL"
  BY DEF ExplicitFailure, EvidenceFor, EvaluateRaises
<1>4. failed = {} => (blocked = {} <=> \A g \in Gates : Satisfied(rules, cs, g))
  BY <1>2, GateStatus DEF WithStatus
<1>5. Precedence(failed, blocked) = IF failed # {} THEN "FAIL"
                                    ELSE IF blocked # {} THEN "BLOCKED" ELSE "PASS"
  BY DEF Precedence
<1> QED
  BY <1>1, <1>2, <1>3, <1>4, <1>5 DEF DecisionFor

LEMMA WaiverIsNamed ==
  ASSUME NEW rules, NEW cs, CaseTyped(cs), NEW g
  PROVE  GateOutcome(rules, cs, g).status = "PASS_WITH_WAIVER" <=>
           GateOutcome(rules, cs, g).waiver # Null
<1> DEFINE applicable == Applicable(rules, cs, g)
<1>1. Cardinality(applicable) = 1 => (CHOOSE w \in applicable : TRUE).id # Null
  <2>1. SUFFICES ASSUME Cardinality(applicable) = 1
                 PROVE  (CHOOSE w \in applicable : TRUE) \in cs.waivers
    BY <2>1 DEF CaseTyped
  <2>2. applicable \subseteq cs.waivers /\ IsFiniteSet(applicable)
    BY FS_Subset DEF Applicable, CaseTyped
  <2>3. applicable # {}
    BY <2>1, <2>2, OneElement
  <2> QED
    BY <2>2, <2>3
<1>2. CASE ExplicitFailure(cs, g)
  BY <1>2 DEF GateOutcome, Outcome
<1>3. CASE ~ExplicitFailure(cs, g) /\ Reasons(rules, cs, g) = {}
  BY <1>3 DEF GateOutcome, Outcome
<1>4. CASE ~ExplicitFailure(cs, g) /\ Reasons(rules, cs, g) # {}
  BY <1>1, <1>4 DEF GateOutcome, Outcome
<1> QED
  BY <1>2, <1>3, <1>4

\* verify_packet accepts every packet that evaluate_case returns
\* (engine.py 292-334).
THEOREM EvaluateIsVerified ==
  ASSUME NEW rules, NEW cs, CaseTyped(cs)
  PROVE  VerifyPacket(Evaluate(rules, cs))
<1> DEFINE packet == Evaluate(rules, cs)
           gates  == [g \in Gates |-> GateOutcome(rules, cs, g)]
<1>1. /\ packet.digest = Digest(packet.body) /\ packet.body.gates = gates
      /\ packet.body.failed = WithStatus(gates, {"FAIL"})
      /\ packet.body.blocked = WithStatus(gates, {"BLOCKED"})
      /\ packet.body.passed = WithStatus(gates, {"PASS", "PASS_WITH_WAIVER"})
      /\ packet.body.decision = Precedence(packet.body.failed, packet.body.blocked)
  BY DEF Evaluate, Body
<1>2. \A g \in Gates : (gates[g].status = "PASS_WITH_WAIVER") <=> (gates[g].waiver # Null)
  BY WaiverIsNamed
<1> QED
  BY <1>1, <1>2 DEF VerifyPacket, Precedence

-----------------------------------------------------------------------------
(* What waivers can do to a gate *)

\* A case and the same case without its waivers.
Bare(cs, bare) ==
  bare.evidence = cs.evidence /\ bare.candidate = cs.candidate /\ bare.waivers = {}

LEMMA ReasonsIgnoreWaivers ==
  ASSUME NEW rules, NEW cs, NEW bare, Bare(cs, bare), NEW g
  PROVE  /\ EvidenceFor(bare, g) = EvidenceFor(cs, g)
         /\ ExplicitFailure(bare, g) = ExplicitFailure(cs, g)
         /\ Reasons(rules, bare, g) = Reasons(rules, cs, g)
<1>1. EvidenceFor(bare, g) = EvidenceFor(cs, g)
  BY DEF Bare, EvidenceFor
<1>2. \A e : Defects(rules, bare, g, e) = Defects(rules, cs, g, e)
  BY DEF Bare, Defects
<1> QED
  BY <1>1, <1>2 DEF ExplicitFailure, Reasons

\* Without waivers, a gate that neither fails nor passes is blocked for its
\* reasons alone.
LEMMA OutcomeWithoutWaivers ==
  ASSUME NEW rules, NEW cs, NEW bare, Bare(cs, bare), NEW g
  PROVE  GateOutcome(rules, bare, g) =
           IF ExplicitFailure(cs, g) \/ Reasons(rules, cs, g) = {}
           THEN GateOutcome(rules, cs, g)
           ELSE Outcome("BLOCKED", Reasons(rules, cs, g), cs, g, Null)
<1>1. \A status, reasons, waiver :
        Outcome(status, reasons, bare, g, waiver) = Outcome(status, reasons, cs, g, waiver)
  BY ReasonsIgnoreWaivers DEF Outcome
<1>2. Cardinality(Applicable(rules, bare, g)) = 0
  <2>1. Applicable(rules, bare, g) = {}
    BY DEF Bare, Applicable
  <2> QED
    BY <2>1, FS_EmptySet
<1>3. CASE ExplicitFailure(cs, g)
  BY <1>1, <1>3, ReasonsIgnoreWaivers DEF GateOutcome
<1>4. CASE ~ExplicitFailure(cs, g) /\ Reasons(rules, cs, g) = {}
  BY <1>1, <1>4, ReasonsIgnoreWaivers DEF GateOutcome
<1>5. CASE ~ExplicitFailure(cs, g) /\ Reasons(rules, cs, g) # {}
  <2>1. GateOutcome(rules, bare, g) = Outcome("BLOCKED", Reasons(rules, cs, g) \cup {}, bare, g, Null)
    BY <1>2, <1>5, ReasonsIgnoreWaivers DEF GateOutcome
  <2> QED
    BY <1>1, <1>5, <2>1
<1> QED
  BY <1>3, <1>4, <1>5

\* With waivers, such a gate keeps its reasons: it is waived when each of them
\* may be, or it stays blocked, and only a waivable gate is touched at all.
LEMMA OutcomeWithWaivers ==
  ASSUME NEW rules, NEW cs, NEW g, ~ExplicitFailure(cs, g), Reasons(rules, cs, g) # {}
  PROVE  LET outcome == GateOutcome(rules, cs, g)
         IN  \/ outcome = Outcome("BLOCKED", Reasons(rules, cs, g), cs, g, Null)
             \/ /\ Waivable(rules, g)
                /\ Reasons(rules, cs, g) \subseteq outcome.reasons
                /\ \/ outcome.status = "BLOCKED"
                   \/ /\ outcome.status = "PASS_WITH_WAIVER"
                      /\ Reasons(rules, cs, g) \subseteq WaivableReasons
<1> DEFINE reasons == Reasons(rules, cs, g)
           lifted  == /\ Waivable(rules, g)
                      /\ Cardinality(Applicable(rules, cs, g)) = 1
                      /\ reasons \subseteq WaivableReasons
           extra   == IF Waivable(rules, g) /\ Cardinality(Applicable(rules, cs, g)) > 1
                      THEN {"MULTIPLE_APPLICABLE_WAIVERS"} ELSE {}
<1>1. GateOutcome(rules, cs, g) =
        IF lifted THEN Outcome("PASS_WITH_WAIVER", reasons \cup {"VALID_BOUNDED_WAIVER"}, cs, g,
                               (CHOOSE w \in Applicable(rules, cs, g) : TRUE).id)
                  ELSE Outcome("BLOCKED", reasons \cup extra, cs, g, Null)
  BY DEF GateOutcome
<1>2. CASE lifted
  BY <1>1, <1>2 DEF Outcome
<1>3. CASE ~lifted /\ Waivable(rules, g)
  BY <1>1, <1>3 DEF Outcome
<1>4. CASE ~Waivable(rules, g)
  <2>1. reasons \cup extra = reasons
    BY <1>4
  <2> QED
    BY <1>1, <1>4, <2>1
<1> QED
  BY <1>2, <1>3, <1>4

-----------------------------------------------------------------------------
(* What a gate depends on *)

\* Two cases about one candidate in which gate g has the same evidence, and
\* which have the same waivers for g.
SameForGate(cs, other, g) ==
  /\ other.candidate = cs.candidate
  /\ EvidenceFor(other, g) = EvidenceFor(cs, g)
  /\ {w \in other.waivers : w.gate = g} = {w \in cs.waivers : w.gate = g}

\* A gate is judged on its own evidence and on the waivers that name it,
\* whatever else the case holds (engine.py 110-204).
THEOREM GatesAreJudgedAlone ==
  ASSUME NEW rules, NEW cs, NEW other, NEW g, SameForGate(cs, other, g)
  PROVE  GateOutcome(rules, other, g) = GateOutcome(rules, cs, g)
<1>1. ExplicitFailure(other, g) = ExplicitFailure(cs, g)
  BY DEF SameForGate, ExplicitFailure
<1>2. Reasons(rules, other, g) = Reasons(rules, cs, g)
  <2>1. \A e : Defects(rules, other, g, e) = Defects(rules, cs, g, e)
    BY DEF SameForGate, Defects
  <2> QED
    BY <2>1 DEF SameForGate, Reasons
<1>3. Applicable(rules, other, g) = Applicable(rules, cs, g)
  <2>1. \A w : /\ ValidWaiver(rules, other, g, w) <=> ValidWaiver(rules, cs, g, w)
               /\ ValidWaiver(rules, cs, g, w) => w.gate = g
    BY DEF SameForGate, ValidWaiver, Names
  <2>2. \A w : w.gate = g => (w \in other.waivers <=> w \in cs.waivers)
    BY DEF SameForGate
  <2>3. \A w : w \in Applicable(rules, other, g) <=> w \in Applicable(rules, cs, g)
    BY <2>1, <2>2 DEF Applicable
  <2> QED
    BY <2>3
<1>4. \A status, reasons, waiver :
        Outcome(status, reasons, other, g, waiver) = Outcome(status, reasons, cs, g, waiver)
  BY DEF SameForGate, Outcome
<1> QED
  BY <1>1, <1>2, <1>3, <1>4 DEF GateOutcome

\* Every item of a case is replaced by another one.
Replaced(cs, other, by) ==
  /\ other.candidate = cs.candidate /\ other.waivers = cs.waivers
  /\ other.evidence = {by[e] : e \in cs.evidence}

\* Item f is for the same gate as e, and no worse in any respect.
NoWorse(e, f) ==
  /\ f.gate = e.gate /\ f.candidate = e.candidate /\ f.owner = e.owner
  /\ e.status = "PASS" => f.status = "PASS"
  /\ e.approval = "APPROVED" => f.approval = "APPROVED"
  /\ e.approval # "REJECTED" => f.approval # "REJECTED"
  /\ f.observed <= e.observed /\ e.expires <= f.expires

LEMMA ReplacedForGate ==
  ASSUME NEW cs, NEW other, NEW by, NEW g, Replaced(cs, other, by),
         \A e \in cs.evidence : by[e].gate = e.gate
  PROVE  EvidenceFor(other, g) = {by[e] : e \in EvidenceFor(cs, g)}
BY DEF Replaced, EvidenceFor

\* Better evidence never harms a gate that is satisfied: the waiver that was
\* needed is still there, and it is not needed twice.
LEMMA SatisfiedStays ==
  ASSUME NEW rules, NEW cs, NEW other, NEW by, NEW g, CaseTyped(cs), CaseTyped(other),
         Replaced(cs, other, by), \A e \in cs.evidence : NoWorse(e, by[e]),
         Satisfied(rules, cs, g)
  PROVE  Satisfied(rules, other, g)
<1>1. EvidenceFor(other, g) = {by[e] : e \in EvidenceFor(cs, g)}
  BY ReplacedForGate DEF NoWorse
<1>2. /\ \A e \in cs.evidence : /\ by[e] \in other.evidence
                                /\ e.observed \in Int /\ e.expires \in Int
                                /\ by[e].observed \in Int /\ by[e].expires \in Int
      /\ cs.candidate.date \in Int /\ other.candidate = cs.candidate
  BY DEF CaseTyped, Replaced
<1>3. Proven(rules, cs, g) => Proven(rules, other, g)
  <2>1. SUFFICES ASSUME NEW e \in cs.evidence,
                        EvidenceFor(cs, g) = {e},
                        e.status = "PASS", e.approval = "APPROVED",
                        e.candidate = cs.candidate.id,
                        e.observed <= cs.candidate.date, cs.candidate.date <= e.expires,
                        e.owner = rules.owner[g]
                 PROVE  Proven(rules, other, g)
    BY DEF Proven
  <2>2. EvidenceFor(other, g) = {by[e]}
    BY <1>1, <2>1
  <2>3. by[e].observed <= cs.candidate.date /\ cs.candidate.date <= by[e].expires
    BY <1>2, <2>1 DEF NoWorse
  <2> QED
    BY <1>2, <2>1, <2>2, <2>3 DEF Proven, NoWorse
<1>4. Uncertain(rules, cs, g) => Uncertain(rules, other, g)
  <2>1. CASE EvidenceFor(cs, g) = {}
    BY <1>1, <2>1 DEF Uncertain
  <2>2. CASE \E e \in cs.evidence :
               /\ EvidenceFor(cs, g) = {e}
               /\ e.status = "PASS" /\ e.approval # "REJECTED"
               /\ e.candidate = cs.candidate.id
               /\ e.observed <= cs.candidate.date
               /\ e.owner = rules.owner[g]
    <3>1. PICK e \in cs.evidence :
               /\ EvidenceFor(cs, g) = {e}
               /\ e.status = "PASS" /\ e.approval # "REJECTED"
               /\ e.candidate = cs.candidate.id
               /\ e.observed <= cs.candidate.date
               /\ e.owner = rules.owner[g]
      BY <2>2
    <3>2. EvidenceFor(other, g) = {by[e]}
      BY <1>1, <3>1
    <3>3. by[e].observed <= cs.candidate.date
      BY <1>2, <3>1 DEF NoWorse
    <3> QED
      BY <1>2, <3>1, <3>2, <3>3 DEF Uncertain, NoWorse
  <2> QED
    BY <2>1, <2>2 DEF Uncertain
<1>5. Waived(rules, cs, g) => Waived(rules, other, g)
  BY DEF Waived, Replaced, ValidWaiver, Names
<1> QED
  BY <1>3, <1>4, <1>5 DEF Satisfied

\* With better evidence, item by item, and all else the same, a decision is
\* never worse: what passed still passes, and nothing fails that did not
\* (engine.py 110-254).
THEOREM BetterEvidenceNeverHurts ==
  ASSUME NEW rules, NEW cs, NEW other, NEW by,
         CaseTyped(cs), Bound(cs), ~EvaluateRaises(rules, cs),
         CaseTyped(other), ~EvaluateRaises(rules, other),
         Replaced(cs, other, by), \A e \in cs.evidence : NoWorse(e, by[e])
  PROVE  /\ Evaluate(rules, other).body.decision = "FAIL" =>
              Evaluate(rules, cs).body.decision = "FAIL"
         /\ Evaluate(rules, cs).body.decision = "PASS" =>
              Evaluate(rules, other).body.decision = "PASS"
<1>1. Bound(other)
  BY DEF Bound, Replaced, NoWorse
<1>2. /\ Evaluate(rules, cs).body.decision = DecisionFor(rules, cs)
      /\ Evaluate(rules, other).body.decision = DecisionFor(rules, other)
  BY <1>1, EvaluateDecides
<1>3. (\E f \in other.evidence : f.status = "FAIL") => \E e \in cs.evidence : e.status = "FAIL"
  <2>1. \A e \in cs.evidence : e.status # "FAIL" => e.status = "PASS"
    BY DEF CaseTyped
  <2> QED
    BY <2>1 DEF Replaced, NoWorse
<1>4. \A g \in Gates : Satisfied(rules, cs, g) => Satisfied(rules, other, g)
  BY SatisfiedStays
<1> QED
  BY <1>2, <1>3, <1>4 DEF DecisionFor

\* Item f says what e says, and is stale when e is: only the end of its window
\* may be another.
SameButExpiry(cs, e, f) ==
  /\ f.id = e.id /\ f.gate = e.gate /\ f.status = e.status /\ f.approval = e.approval
  /\ f.observed = e.observed /\ f.owner = e.owner
  /\ f.expires < cs.candidate.date <=> e.expires < cs.candidate.date

LEMMA SameReasons ==
  ASSUME NEW rules, NEW cs, NEW other, NEW by, NEW g, CaseTyped(cs), CaseTyped(other),
         \A e, f \in cs.evidence : e.id = f.id => e = f,
         Replaced(cs, other, by), \A e \in cs.evidence : SameButExpiry(cs, e, by[e])
  PROVE  Reasons(rules, other, g) = Reasons(rules, cs, g)
<1>1. EvidenceFor(other, g) = {by[e] : e \in EvidenceFor(cs, g)}
  BY ReplacedForGate DEF SameButExpiry
<1>2. \A e \in EvidenceFor(cs, g) : e \in cs.evidence
  BY DEF EvidenceFor
<1>3. CASE EvidenceFor(cs, g) = {}
  BY <1>1, <1>3 DEF Reasons
<1>4. CASE \E e : EvidenceFor(cs, g) = {e}
  <2>1. PICK e : EvidenceFor(cs, g) = {e}
    BY <1>4
  <2>2. EvidenceFor(other, g) = {by[e]}
    BY <1>1, <2>1
  <2>3. Defects(rules, other, g, by[e]) = Defects(rules, cs, g, e)
    BY <1>2, <2>1 DEF Defects, SameButExpiry, Replaced
  <2> QED
    BY <2>1, <2>2, <2>3, ReasonsOfOne
<1>5. CASE EvidenceFor(cs, g) # {} /\ ~\E e : EvidenceFor(cs, g) = {e}
  <2>1. EvidenceFor(other, g) # {}
    BY <1>1, <1>5
  <2>2. PICK e, f \in EvidenceFor(cs, g) : e # f
    BY <1>5
  <2>3. by[e] # by[f]
    BY <1>2, <2>2 DEF SameButExpiry
  <2>4. ~\E x : EvidenceFor(other, g) = {x}
    BY <1>1, <2>2, <2>3
  <2> QED
    BY <1>5, <2>1, <2>4, ReasonsOfMany
<1> QED
  BY <1>3, <1>4, <1>5

\* The digest says nothing of how long the evidence of a packet holds: two
\* cases whose items differ in when they expire, each on the same side of the
\* assessment, have one packet and one digest (engine.py 257-289).
THEOREM DigestsOverlookExpiry ==
  ASSUME NEW rules, NEW cs, NEW other, NEW by, CaseTyped(cs), CaseTyped(other),
         \A e, f \in cs.evidence : e.id = f.id => e = f,
         Replaced(cs, other, by), \A e \in cs.evidence : SameButExpiry(cs, e, by[e])
  PROVE  Evaluate(rules, other) = Evaluate(rules, cs)
<1>1. ASSUME NEW g
      PROVE  GateOutcome(rules, other, g) = GateOutcome(rules, cs, g)
  <2>1. EvidenceFor(other, g) = {by[e] : e \in EvidenceFor(cs, g)}
    BY ReplacedForGate DEF SameButExpiry
  <2>2. \A e \in EvidenceFor(cs, g) : SameButExpiry(cs, e, by[e])
    BY DEF EvidenceFor
  <2>3. ExplicitFailure(other, g) = ExplicitFailure(cs, g)
    BY <2>1, <2>2 DEF ExplicitFailure, SameButExpiry
  <2>4. Reasons(rules, other, g) = Reasons(rules, cs, g)
    BY SameReasons
  <2>5. Applicable(rules, other, g) = Applicable(rules, cs, g)
    BY DEF Replaced, Applicable, ValidWaiver, Names
  <2>6. {f.id : f \in EvidenceFor(other, g)} = {e.id : e \in EvidenceFor(cs, g)}
    BY <2>1, <2>2 DEF SameButExpiry
  <2>7. \A status, reasons, waiver :
          Outcome(status, reasons, other, g, waiver) = Outcome(status, reasons, cs, g, waiver)
    BY <2>6 DEF Outcome
  <2> QED
    BY <2>3, <2>4, <2>5, <2>7 DEF GateOutcome
<1> QED
  BY <1>1 DEF Evaluate, Body, Replaced

-----------------------------------------------------------------------------
(* decide *)

USE PayloadAssumption, FileAssumption

\* Nobody but decide changes decide's variables, and whoever changes the
\* directory marks it disturbed.
LEMMA WritersOnlyWrite ==
  ASSUME DecideInv, Writers
  PROVE  /\ UNCHANGED <<decider, policy>>
         /\ disturbed' \in BOOLEAN
         /\ disturbed' \/ UNCHANGED <<disk, disturbed>>
<1> USE DEF DecideInv, TypeOK
<1>1. ASSUME NEW p \in Payloads, StartBuild(p) PROVE UNCHANGED <<decider, policy, disk, disturbed>>
  BY <1>1 DEF StartBuild
<1>2. ASSUME NEW f \in DOMAIN disk, Remove(f) PROVE UNCHANGED <<decider, policy>> /\ disturbed' = TRUE
  BY <1>2 DEF Remove
<1>3. ASSUME StartWriting PROVE UNCHANGED <<decider, policy, disk, disturbed>>
  BY <1>3 DEF StartWriting
<1>4. ASSUME NEW i \in 1..3, Write(i) PROVE UNCHANGED <<decider, policy>> /\ disturbed' = TRUE
  BY <1>4 DEF Write
<1>5. ASSUME Seal PROVE UNCHANGED <<decider, policy>> /\ disturbed' = TRUE
  BY <1>5 DEF Seal
<1>6. ASSUME BuilderDies PROVE UNCHANGED <<decider, policy, disk, disturbed>>
  BY <1>6 DEF BuilderDies
<1>7. ASSUME NEW f \in FileNames, NEW c \in FilesFor(f), Edit(f, c)
      PROVE  UNCHANGED <<decider, policy>> /\ disturbed' = TRUE
  BY <1>7 DEF Edit
<1> QED
  BY <1>1, <1>2, <1>3, <1>4, <1>5, <1>6, <1>7 DEF Writers

\* The files on disk and the builder keep their types under the writers.
LEMMA WritersKeepTypes ==
  ASSUME DecideInv, Writers
  PROVE  TypeOK'
<1> USE DEF DecideInv, TypeOK
<1>0. UNCHANGED <<decider, policy>> /\ disturbed' \in BOOLEAN
  BY WritersOnlyWrite
<1>a. SUFFICES /\ DOMAIN disk' = FileNames \cup {"manifest"}
               /\ \A f \in FileNames : disk'[f] \in FilesFor(f) \cup {Null}
               /\ builder'.stage \in {"off", "clear", "write"}
               /\ builder'.payload \in Payloads \cup {Null}
               /\ (builder'.stage = "off") <=> (builder'.payload = Null)
  BY <1>0, <1>a DEF decider
<1>b. Null \notin Payloads
  BY FileAssumption
<1>1. CASE \E p \in Payloads : StartBuild(p)
  BY <1>1, <1>b DEF StartBuild
<1>2. CASE \E f \in DOMAIN disk : Remove(f)
  BY <1>2 DEF Remove
<1>3. CASE StartWriting
  BY <1>3 DEF StartWriting
<1>4. CASE \E i \in 1..3 : Write(i)
  <2> PICK i \in 1..3 : Write(i)
    BY <1>4
  <2>1. builder.payload \in Payloads
    BY DEF Write
  <2>2. FileOrder[i] \in FileNames /\ builder.payload[FileOrder[i]] \in FilesFor(FileOrder[i])
    BY <2>1 DEF FileOrder, FileNames, FilesFor, Payloads
  <2> QED
    BY <2>2 DEF Write
<1>5. CASE Seal
  BY <1>5 DEF Seal, FileNames
<1>6. CASE BuilderDies
  BY <1>6 DEF BuilderDies
<1>7. CASE \E f \in FileNames : \E c \in FilesFor(f) : Edit(f, c)
  BY <1>7 DEF Edit
<1> QED
  BY <1>1, <1>2, <1>3, <1>4, <1>5, <1>6, <1>7 DEF Writers

LEMMA WritersStep ==
  ASSUME DecideInv, Writers
  PROVE  DecideInv'
<1>1. /\ UNCHANGED <<decider, policy>>
      /\ disturbed' \/ UNCHANGED <<disk, disturbed>>
  BY WritersOnlyWrite
<1>2. ReadingInv'
  BY <1>1 DEF DecideInv, ReadingInv, decider, FileMatches
<1>3. EmittedInv'
  BY <1>1 DEF DecideInv, EmittedInv, decider
<1> QED
  BY <1>2, <1>3, WritersKeepTypes DEF DecideInv

\* The three readings leave a payload behind.
LEMMA WholeCase ==
  ASSUME NEW c, DOMAIN c = FileNames, c = [f \in FileNames |-> c[f]],
         \A f \in FileNames : c[f] \in FilesFor(f)
  PROVE  c \in Payloads
BY DEF Payloads, FileNames, FilesFor

LEMMA ReadFileStep ==
  ASSUME DecideInv, NEW i \in 1..3, ReadFile(i)
  PROVE  DecideInv'
<1> DEFINE file == FileOrder[i]
           read == [case EXCEPT ![file] = disk[file]]
<1> USE DEF DecideInv
<1>1. file \in FileNames /\ at = "read" /\ todo = {} /\ manifest # Null
  BY DEF ReadFile, FileOrder, FileNames, TypeOK
<1>2. CASE disk[file] = Null
  BY <1>1, <1>2 DEF ReadFile, Reject, TypeOK, ReadingInv, EmittedInv, world, FileMatches
<1>3. CASE disk[file] # Null
  <2>1. /\ case' = read
        /\ at' = IF i < 3 THEN "read"
                 ELSE IF CaseAdmissible(manifest, read) THEN "evaluate" ELSE "rejected"
        /\ UNCHANGED <<world, policy, advisor, decisions, disturbed, todo, manifest, emitted>>
    BY <1>3 DEF ReadFile
  <2>2. /\ DOMAIN read = FileNames
        /\ \A f \in FileNames : read[f] \in FilesFor(f) \cup {Null}
        /\ \A f \in FileNames : read[f] = IF f = file THEN disk[file] ELSE case[f]
    BY <1>1 DEF TypeOK
  <2>3. ASSUME i = 3
        PROVE  read \in Payloads
    <3>1. case["candidate"] # Null /\ case["evidence"] # Null /\ file = "waivers"
      BY <2>3 DEF ReadFile, FileOrder
    <3>2. \A f \in FileNames : read[f] \in FilesFor(f)
      BY <1>3, <2>2, <3>1 DEF FileNames
    <3> QED
      BY <2>2, <3>2, WholeCase DEF TypeOK
  <2>4. TypeOK'
    BY <1>1, <2>1, <2>2, <2>3 DEF TypeOK, world
  <2>5. ReadingInv'
    BY <1>1, <2>1, <2>2 DEF ReadingInv, world, FileMatches
  <2>6. EmittedInv'
    BY <2>1 DEF EmittedInv
  <2> QED
    BY <2>4, <2>5, <2>6
<1> QED
  BY <1>2, <1>3

LEMMA ConcludeStep ==
  ASSUME DecideInv, Conclude
  PROVE  DecideInv'
<1> DEFINE packet == Evaluate(policy, case)
           note   == Advise(packet)
           new    == [case |-> case, policy |-> policy, packet |-> packet, note |-> note]
           good   == /\ PolicyLoads(policy) /\ ~EvaluateRaises(policy, case)
                     /\ VerifyPacket(packet) /\ VerifyAdvice(packet, note)
<1> USE DEF DecideInv
<1>1. at = "evaluate" /\ case \in Payloads
  BY DEF Conclude, TypeOK
<1>2. CASE ~good
  BY <1>2 DEF Conclude, Reject, TypeOK, ReadingInv, EmittedInv, world, FileMatches
<1>3. CASE good
  <2>1. /\ at' = "decided" /\ emitted' = emitted \cup {new}
        /\ UNCHANGED <<world, policy, advisor, decisions, disturbed, todo, case, manifest>>
    BY <1>3 DEF Conclude
  <2>2. note = RuleNote(packet)
    <3>1. advisor # Null => note = [decision |-> note.decision, digest |-> note.digest,
                                    authority |-> note.authority]
      BY DEF EmittedInv, Advise
    <3> QED
      BY <1>3, <3>1 DEF Advise, VerifyAdvice, RuleNote
  <2>3. TypeOK'
    BY <1>1, <2>1 DEF TypeOK, world
  <2>4. ReadingInv'
    BY <1>1, <2>1 DEF ReadingInv, world, FileMatches
  <2>5. EmittedInv'
    BY <1>1, <1>3, <2>1, <2>2 DEF EmittedInv, CaseAdmissible
  <2> QED
    BY <2>3, <2>4, <2>5
<1> QED
  BY <1>2, <1>3

LEMMA DecideStep ==
  ASSUME DecideInv, Decide
  PROVE  DecideInv'
<1> USE DEF DecideInv
<1>1. ASSUME NEW a \in Advisors, StartDecide(a)
      PROVE  DecideInv'
  <2>1. /\ at' = "manifest" /\ manifest' = Null /\ todo' = FileNames /\ case' = NoFiles
        /\ advisor' = a /\ ~disturbed' /\ disturbed' \in BOOLEAN
        /\ UNCHANGED <<world, policy, emitted>>
    BY <1>1 DEF StartDecide
  <2>2. TypeOK'
    BY <2>1 DEF TypeOK, world, NoFiles
  <2>3. ReadingInv'
    BY <2>1 DEF ReadingInv, NoFiles
  <2>4. a # Null => a = [decision |-> a.decision, digest |-> a.digest, authority |-> a.authority]
    <3>1. \A d \in emitted : d.note = RuleNote(d.packet)
      BY DEF EmittedInv
    <3>2. CASE \E d \in emitted : a = RuleNote(d.packet)
      BY <3>2 DEF RuleNote
    <3>3. CASE \E d \in emitted : a = [RuleNote(d.packet) EXCEPT !.authority = "APPROVER"]
      BY <3>3 DEF RuleNote
    <3>4. \/ a = Null
          \/ \E d \in emitted : a = d.note
          \/ \E d \in emitted : a = [d.note EXCEPT !.authority = "APPROVER"]
      BY DEF Advisors
    <3> QED
      BY <3>1, <3>2, <3>3, <3>4
  <2>5. EmittedInv'
    BY <2>1, <2>4 DEF EmittedInv
  <2> QED
    BY <2>2, <2>3, <2>5
<1>2. ASSUME ReadManifest
      PROVE  DecideInv'
  <2>1. TypeOK'
    BY <1>2 DEF ReadManifest, Reject, TypeOK, world
  <2>2. ReadingInv'
    BY <1>2 DEF ReadManifest, Reject, TypeOK, ReadingInv, world
  <2>3. EmittedInv'
    BY <1>2 DEF ReadManifest, Reject, EmittedInv
  <2> QED
    BY <2>1, <2>2, <2>3
<1>3. ASSUME NEW f \in FileNames, CheckFile(f)
      PROVE  DecideInv'
  <2>1. TypeOK'
    BY <1>3 DEF CheckFile, Reject, TypeOK, world
  <2>2. ReadingInv'
    BY <1>3 DEF CheckFile, Reject, ReadingInv, world, FileMatches
  <2>3. EmittedInv'
    BY <1>3 DEF CheckFile, Reject, EmittedInv
  <2> QED
    BY <2>1, <2>2, <2>3
<1> QED
  BY <1>1, <1>2, <1>3, ReadFileStep, ConcludeStep DEF Decide

-----------------------------------------------------------------------------
(* The invariant and what follows from it *)

THEOREM DecideInvariant == Spec => []DecideInv
<1>1. Init => DecideInv
  <2> SUFFICES ASSUME Init
               PROVE  DecideInv
    OBVIOUS
  <2>1. TypeOK
    <3>1. /\ DOMAIN disk = FileNames \cup {"manifest"} /\ DOMAIN case = FileNames
          /\ \A f \in FileNames : disk[f] = Null /\ case[f] = Null
      BY DEF Init, NoFiles
    <3>2. builder.stage = "off" /\ builder.payload = Null
      BY DEF Init
    <3> QED
      BY <3>1, <3>2 DEF Init, TypeOK
  <2>2. ReadingInv
    BY DEF Init, ReadingInv, NoFiles
  <2>3. EmittedInv
    BY DEF Init, EmittedInv
  <2> QED
    BY <2>1, <2>2, <2>3 DEF DecideInv
<1>2. DecideInv /\ [Next]_vars => DecideInv'
  <2> SUFFICES ASSUME DecideInv, [Next]_vars
               PROVE  DecideInv'
    OBVIOUS
  <2>1. CASE UNCHANGED vars
    <3>1. TypeOK'
      BY <2>1 DEF DecideInv, TypeOK, vars, world, decider
    <3>2. ReadingInv'
      BY <2>1 DEF DecideInv, ReadingInv, FileMatches, vars, world, decider
    <3>3. EmittedInv'
      BY <2>1 DEF DecideInv, EmittedInv, vars, world, decider
    <3> QED
      BY <3>1, <3>2, <3>3 DEF DecideInv
  <2>2. CASE Writers
    BY <2>2, WritersStep
  <2>3. CASE Decide
    BY <2>3, DecideStep
  <2> QED
    BY <2>1, <2>2, <2>3 DEF Next
<1> QED
  BY <1>1, <1>2, PTL DEF Spec

\* What decide holds between its steps is well typed.
THEOREM DecideTypes == Spec => []TypeOK
<1>1. DecideInv => TypeOK
  BY DEF DecideInv
<1> QED
  BY <1>1, DecideInvariant, PTL

\* Every decision returned is the one the documents define on what was read.
THEOREM DecisionsAreRight == Spec => []DecisionsFollowTheSemantics
<1>1. DecideInv => DecisionsFollowTheSemantics
  <2> SUFFICES ASSUME DecideInv, NEW d \in emitted
               PROVE  d.packet.body.decision = DecisionFor(d.policy, d.case)
    BY DEF DecisionsFollowTheSemantics
  <2>1. /\ d.case \in Payloads /\ ~EvaluateRaises(d.policy, d.case)
        /\ d.packet = Evaluate(d.policy, d.case)
        /\ \A e \in d.case.evidence : EvidenceAdmissible(d.case, e)
    BY DEF DecideInv, EmittedInv
  <2>2. CaseTyped(d.case) /\ Bound(d.case)
    BY <2>1, PayloadAssumption DEF Bound, EvidenceAdmissible
  <2> QED
    BY <2>1, <2>2, EvaluateDecides
<1> QED
  BY <1>1, DecideInvariant, PTL

\* Waivers turn only blocked waivable gates, and lift only what is uncertain.
THEOREM WaiversAreBounded == Spec => []WaiversOnlyLiftUncertainty
<1>1. DecideInv => WaiversOnlyLiftUncertainty
  <2> SUFFICES ASSUME DecideInv, NEW d \in emitted, NEW g \in Gates
               PROVE  LET bare == Body(d.policy, [d.case EXCEPT !["waivers"] = {}])
                          body == d.packet.body
                      IN  \/ body.gates[g] = bare.gates[g]
                          \/ /\ g \in d.policy.waivable
                             /\ g \in bare.blocked /\ g \notin body.failed
                             /\ g \in body.passed =>
                                  \A e \in d.case.evidence :
                                    e.gate = g => e.status = "PASS" /\ e.approval # "REJECTED"
                             /\ bare.gates[g].reasons \subseteq body.gates[g].reasons
    BY DEF WaiversOnlyLiftUncertainty
  <2> DEFINE cs      == d.case
             bare    == [cs EXCEPT !["waivers"] = {}]
             reasons == Reasons(d.policy, cs, g)
             with    == GateOutcome(d.policy, cs, g)
             without == GateOutcome(d.policy, bare, g)
  <2>1. /\ cs \in Payloads /\ d.packet = Evaluate(d.policy, cs)
        /\ \A e \in cs.evidence : EvidenceAdmissible(cs, e)
    BY DEF DecideInv, EmittedInv
  <2>2. Bare(cs, bare)
    BY <2>1 DEF Payloads, Bare
  <2>3. CaseTyped(cs) /\ Bound(cs)
    BY <2>1, PayloadAssumption DEF Bound, EvidenceAdmissible
  <2>4. /\ d.packet.body.gates[g] = with
        /\ Body(d.policy, bare).gates[g] = without
        /\ (g \in Body(d.policy, bare).blocked) <=> (without.status = "BLOCKED")
        /\ (g \in d.packet.body.failed) <=> (with.status = "FAIL")
        /\ (g \in d.packet.body.passed) <=> (with.status \in {"PASS", "PASS_WITH_WAIVER"})
    BY <2>1 DEF Evaluate, Body, WithStatus
  <2>5. CASE ExplicitFailure(cs, g) \/ reasons = {}
    BY <2>2, <2>4, <2>5, OutcomeWithoutWaivers
  <2>6. CASE ~ExplicitFailure(cs, g) /\ reasons # {}
    <3>1. without = Outcome("BLOCKED", reasons, cs, g, Null)
      BY <2>2, <2>6, OutcomeWithoutWaivers
    <3>2. without.status = "BLOCKED" /\ without.reasons = reasons
      BY <3>1 DEF Outcome
    <3>3. ASSUME reasons \subseteq WaivableReasons, NEW e \in cs.evidence, e.gate = g
          PROVE  e.status = "PASS" /\ e.approval # "REJECTED"
      <4>1. Uncertain(d.policy, cs, g)
        BY <2>3, <2>6, <3>3, WaivableIsUncertain
      <4>2. e \in EvidenceFor(cs, g)
        BY <3>3 DEF EvidenceFor
      <4> QED
        BY <4>1, <4>2 DEF Uncertain
    <3>4. \/ with = Outcome("BLOCKED", reasons, cs, g, Null)
          \/ /\ Waivable(d.policy, g) /\ reasons \subseteq with.reasons
             /\ \/ with.status = "BLOCKED"
                \/ with.status = "PASS_WITH_WAIVER" /\ reasons \subseteq WaivableReasons
      BY <2>6, OutcomeWithWaivers
    <3> QED
      BY <2>4, <3>1, <3>2, <3>3, <3>4 DEF Waivable
  <2> QED
    BY <2>5, <2>6
<1> QED
  BY <1>1, DecideInvariant, PTL

LEMMA OutcomeListsItsEvidence ==
  ASSUME NEW policy0, NEW cs, NEW g
  PROVE  GateOutcome(policy0, cs, g).evidence = {e.id : e \in EvidenceFor(cs, g)}
<1>1. CASE ExplicitFailure(cs, g)
  BY <1>1 DEF GateOutcome, Outcome
<1>2. CASE ~ExplicitFailure(cs, g) /\ Reasons(policy0, cs, g) = {}
  BY <1>2 DEF GateOutcome, Outcome
<1>3. CASE ~ExplicitFailure(cs, g) /\ Reasons(policy0, cs, g) # {}
  BY <1>3 DEF GateOutcome, Outcome
<1> QED
  BY <1>1, <1>2, <1>3

\* Every packet speaks of one candidate and accounts for all its evidence,
\* whatever the writers do while decide reads.
THEOREM PacketsAccountForEvidence == Spec => []EvidenceIsAccountedFor
<1>1. DecideInv => EvidenceIsAccountedFor
  <2> SUFFICES ASSUME DecideInv, NEW d \in emitted
               PROVE  /\ d.packet.body.candidate = d.case.candidate
                      /\ \A e \in d.case.evidence :
                           /\ e.candidate = d.case.candidate.id
                           /\ \A g \in Gates :
                                (e.id \in d.packet.body.gates[g].evidence) <=> (e.gate = g)
                      /\ \A g \in Gates : \A id \in d.packet.body.gates[g].evidence :
                           \E e \in d.case.evidence : e.id = id
    BY DEF EvidenceIsAccountedFor
  <2>1. /\ d.packet = Evaluate(d.policy, d.case)
        /\ \A e \in d.case.evidence : EvidenceAdmissible(d.case, e)
        /\ \A e, f \in d.case.evidence : e.id = f.id => e = f
    BY DEF DecideInv, EmittedInv
  <2>2. /\ d.packet.body.candidate = d.case.candidate
        /\ \A g \in Gates : d.packet.body.gates[g] = GateOutcome(d.policy, d.case, g)
    BY <2>1 DEF Evaluate, Body
  <2>3. \A g \in Gates : d.packet.body.gates[g].evidence = {e.id : e \in EvidenceFor(d.case, g)}
    BY <2>2, OutcomeListsItsEvidence
  <2>4. \A e \in d.case.evidence : e.candidate = d.case.candidate.id
    BY <2>1 DEF EvidenceAdmissible
  <2>5. ASSUME NEW e \in d.case.evidence, NEW g \in Gates
        PROVE  (e.id \in d.packet.body.gates[g].evidence) <=> (e.gate = g)
    BY <2>1, <2>3 DEF EvidenceFor
  <2>6. ASSUME NEW g \in Gates, NEW id \in d.packet.body.gates[g].evidence
        PROVE  \E e \in d.case.evidence : e.id = id
    BY <2>3 DEF EvidenceFor
  <2> QED
    BY <2>2, <2>4, <2>5, <2>6
<1> QED
  BY <1>1, DecideInvariant, PTL

\* verify_packet accepts every packet the engine returns to decide.
THEOREM EnginePassesItsCheck == Spec => []EngineSatisfiesVerifyPacket
<1>1. DecideInv => EngineSatisfiesVerifyPacket
  <2> SUFFICES ASSUME DecideInv, at = "evaluate"
               PROVE  VerifyPacket(Evaluate(policy, case))
    BY DEF EngineSatisfiesVerifyPacket
  <2>1. case \in Payloads
    BY DEF DecideInv, TypeOK
  <2> QED
    BY <2>1, PayloadAssumption, EvaluateIsVerified
<1> QED
  BY <1>1, DecideInvariant, PTL

\* No stale or escalated note is returned.
THEOREM AdviceIsBound == Spec => []AdviceSpeaksOfItsPacket
<1>1. DecideInv => AdviceSpeaksOfItsPacket
  BY DEF DecideInv, EmittedInv, AdviceSpeaksOfItsPacket
<1> QED
  BY <1>1, DecideInvariant, PTL

\* An undisturbed decision rests on exactly the case its manifest binds.
THEOREM DecisionsAreManifested == Spec => []UndisturbedDecisionsAreManifested
<1>1. DecideInv => UndisturbedDecisionsAreManifested
  <2> SUFFICES ASSUME DecideInv, at = "decided", ~disturbed
               PROVE  /\ disk["manifest"] = manifest
                      /\ \A f \in FileNames :
                           case[f] = disk[f] /\ manifest.hashes[f] = Hash(case[f])
    BY DEF UndisturbedDecisionsAreManifested
  <2>1. todo = {} /\ case \in Payloads
    BY DEF DecideInv, TypeOK
  <2>2. /\ manifest = disk["manifest"]
        /\ \A f \in FileNames : FileMatches(manifest, disk, f)
        /\ \A f \in FileNames : case[f] # Null => case[f] = disk[f]
    BY <2>1 DEF DecideInv, ReadingInv
  <2>3. \A f \in FileNames : case[f] # Null
    BY <2>1, FileAssumption DEF Payloads, FileNames, FilesFor
  <2> QED
    BY <2>2, <2>3 DEF FileMatches
<1> QED
  BY <1>1, DecideInvariant, PTL
=============================================================================
