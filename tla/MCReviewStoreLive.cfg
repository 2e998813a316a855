\* Liveness: no symmetry, one nonce and little time.
SPECIFICATION FairSpec
CONSTANTS
    RunIds = {r1}
    Digests = {d1}
    Nonces = {n1}
    Reviewers = {ada}
    Blank = blank
    MinTtl = 1
    MaxTtl = 1
    Null = null
    Clients = {p1, p2}
    TtlRequests = {1}
    ActionRequests = {"REQUEST_REVISION"}
    MaxTime = 1
PROPERTIES
    LockIsReleased
    EveryCallReturns
