SPECIFICATION Spec
CONSTANTS
    short = short
    long = long
    RunIds = {short, long}
    Digests = {d1}
    Nonces = {n1}
    Reviewers = {ada, bob}
    Actions = {"CONFIRM"}
    Times = {0}
    MinTtl = 1
    MaxTtl = 1
    Exporters = {p1, p2}
    Killable = {p1, p2}
    Length <- IdentifierLength
    Linked = {bob}
    Null = null
SYMMETRY Interchangeable
INVARIANTS
    TypeOK
    ReportedSnapshotsAreCommitted
    AloneExportsAreWhole
    SucceededExportsAgree
    SerialExportsNeverRegress
    IInv
