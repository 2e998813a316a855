\* The clock is read before the lock is asked for.
SPECIFICATION Spec
CONSTANTS
    RunIds = {r1}
    Digests = {d1}
    Nonces = {n1}
    Reviewers = {ada}
    Blank = blank
    MinTtl = 1
    MaxTtl = 1
    Null = null
    Clients = {p1, p2}
    TtlRequests = {1}
    ActionRequests = {"CONFIRM"}
    MaxTime = 2
PROPERTIES
    ExpiredNonceIsRejected
