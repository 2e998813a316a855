-------------------------- MODULE MCDecisionService --------------------------
(* Two gates, g1 waivable and g2 not; the assessment date is 2.              *)
EXTENDS DecisionService

CONSTANTS g1, g2, gUnknown

Item(id, gate) ==
  [id |-> id, gate |-> gate, status |-> "PASS", approval |-> "APPROVED", observed |-> 1,
   expires |-> 2, owner |-> "owner", candidate |-> "c1", intact |-> TRUE]

Waiver ==
  [entry |-> 1, id |-> "w", gate |-> g1, candidate |-> "c1", authority |-> "owner",
   status |-> "APPROVED", approved |-> 1, expires |-> 2, dated |-> TRUE, intact |-> TRUE]

First == [scenario |-> "pass", id |-> "c1", date |-> 2]
Second == [scenario |-> "pass", id |-> "c2", date |-> 2]

Good == Item("e1", g1)
G1Items ==
  {Good, [Good EXCEPT !.status = "FAIL"], [Good EXCEPT !.status = "FAIL", !.expires = 1],
   [Good EXCEPT !.approval = "PENDING"], [Good EXCEPT !.approval = "REJECTED"],
   [Good EXCEPT !.expires = 1], [Good EXCEPT !.expires = 1, !.approval = "PENDING"],
   [Good EXCEPT !.observed = 3, !.expires = 3], [Good EXCEPT !.owner = "other"],
   [Good EXCEPT !.candidate = "c2"], [Good EXCEPT !.intact = FALSE],
   [Good EXCEPT !.observed = 2, !.expires = 1]}
G2Items == {Item("e2", g2), [Item("e2", g2) EXCEPT !.status = "FAIL"], Item("e2", gUnknown)}

\* None, one or two items for the first gate, none or one for the second.
EveryEvidenceFile ==
  {{Good, [Good EXCEPT !.approval = "PENDING"]}} \cup
  {a \cup b \cup c : a \in {{}} \cup {{e} : e \in G1Items},
                     b \in {{}, {Item("e1b", g1)}},
                     c \in {{}} \cup {{e} : e \in G2Items}}

Twice == {Waiver, [Waiver EXCEPT !.entry = 2]}
EveryWaiverFile ==
  {{}, {Waiver}, Twice, {[Waiver EXCEPT !.expires = 1]}, {[Waiver EXCEPT !.approved = 3, !.expires = 3]},
   {[Waiver EXCEPT !.authority = "other"]}, {[Waiver EXCEPT !.candidate = "c2"]},
   {[Waiver EXCEPT !.status = "PROPOSED"]}, {[Waiver EXCEPT !.dated = FALSE]},
   {[Waiver EXCEPT !.approved = 2, !.expires = 1]}, {[Waiver EXCEPT !.intact = FALSE]},
   {[Waiver EXCEPT !.gate = g2]}, {[Waiver EXCEPT !.gate = gUnknown]}}

Policy == [version |-> "v1", owner |-> [g \in Gates |-> "owner"], waivable |-> {g1},
           wellFormed |-> TRUE]
PolicyWithoutAGate == [Policy EXCEPT !.owner = [g \in {g1} |-> "owner"]]

\* Few contents, for the runs with several writers and decisions.
FewEvidenceFiles ==
  {{Good, Item("e2", g2)}, {[Good EXCEPT !.approval = "PENDING"], Item("e2", g2)}}
MixedEvidenceFiles ==
  {{Good, Item("e2", g2)}, {[Good EXCEPT !.expires = 3], Item("e2", g2)},
   {[Good EXCEPT !.status = "FAIL", !.expires = 1], Item("e2", g2)},
   {[Good EXCEPT !.candidate = "c2"], Item("e2", g2)}}
FewWaiverFiles == {{}, {Waiver}}

OneCandidate == {First}
TwoCandidates == {First, Second}
OnePolicy == {Policy}
TwoPolicies == {Policy, PolicyWithoutAGate}
=============================================================================
