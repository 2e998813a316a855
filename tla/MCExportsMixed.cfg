\* Two exports write one file: the shorter text over the longer one.
SPECIFICATION Spec
CONSTANTS
    short = short
    long = long
    RunIds = {short}
    Digests = {d1}
    Nonces = {n1}
    Reviewers = {ada}
    Actions = {"CONFIRM"}
    Times = {0}
    MinTtl = 1
    MaxTtl = 1
    Exporters = {p1, p2}
    Killable = {}
    Length <- IdentifierLength
    Linked = {}
    Null = null
INVARIANTS
    FilesRepresentOneSnapshot
