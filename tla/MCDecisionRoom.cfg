SPECIFICATION Spec
CONSTANTS
    brief = brief
    wordy = wordy
    oldRelease = oldRelease
    newRelease = newRelease
    RunIds = {r1, r2}
    Digests = {brief, wordy}
    Nonces = {n1}
    Reviewers = {ada}
    Actions = {"CONFIRM"}
    Times = {0}
    MinTtl = 1
    MaxTtl = 1
    Terminals = {t1, t2}
    Outputs = {o1}
    Long = {wordy}
    CandidateOf <- Candidates
    NoDatabase = NoDatabase
    BadName = BadName
    Null = null
SYMMETRY Interchangeable
INVARIANTS
    TypeOK
    RunsTellOneStory
    
    SettledOutputsMatchTheRun
    
    IInv
