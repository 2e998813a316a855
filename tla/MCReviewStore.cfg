SPECIFICATION Spec
CONSTANTS
    RunIds = {r1}
    Digests = {d1, d2}
    Nonces = {n1, n2}
    Reviewers = {ada}
    Blank = blank
    MinTtl = 1
    MaxTtl = 1
    Null = null
    Clients = {p1, p2}
    TtlRequests = {0, 1, 2}
    ActionRequests = {"CONFIRM"}
    MaxTime = 2
SYMMETRY Interchangeable
INVARIANTS
    TypeOK
    OneLiveChallengePerRun
    ReviewRedeemsItsChallenge
    OnePacketPerRun
    LedgerVerifies
    LedgerMatchesTables
    
    LedgerTellsTheProtocol
    AnswersAreDurable
    IInv
PROPERTIES
    LedgerAppendOnly
    Finality
    ImplementsProtocol
