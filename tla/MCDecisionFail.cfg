SPECIFICATION Spec
CONSTANTS
  g1 = g1
  g2 = g2
  gUnknown = gUnknown
  Null = Null
  Gates = {g1, g2}
  Candidates <- OneCandidate
  EvidenceFiles <- MixedEvidenceFiles
  WaiverFiles <- FewWaiverFiles
  Policies <- OnePolicy
  MaxBuilds = 1
  MaxEdits = 0
  MaxDecisions = 1
CHECK_DEADLOCK FALSE
INVARIANTS
  FailRestsOnCurrentValidEvidence
