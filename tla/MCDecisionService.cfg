SPECIFICATION Spec
CONSTANTS
  g1 = g1
  g2 = g2
  gUnknown = gUnknown
  Null = Null
  Gates = {g1, g2}
  Candidates <- TwoCandidates
  EvidenceFiles <- FewEvidenceFiles
  WaiverFiles <- FewWaiverFiles
  Policies <- OnePolicy
  MaxBuilds = 2
  MaxEdits = 1
  MaxDecisions = 2
CHECK_DEADLOCK FALSE
INVARIANTS
  TypeOK
  DecideInv
  EvidenceIsAccountedFor
  
  UndisturbedDecisionsAreManifested
