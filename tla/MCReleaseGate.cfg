SPECIFICATION Spec
CONSTANTS
    frozen = frozen
    revised = revised
    strict = strict
    lax = lax
    Builders = {frozen, revised}
    Policies = {strict, lax}
    Scenarios <- AllScenarios
    Decisions <- AllDecisions
    Decided <- PacketTable
    DecisionOf <- FirstOf
    BuiltKey <- KeyTable
    Wanted <- FrozenKey
    Keys <- KeySet
    Partial = Partial
    Missing = Missing
    None = None
    MaxWork = 5
INVARIANTS
    TypeOK
    PassedGatesVouchForTheTree
    ChecksLeaveTheTreeAlone
    IInv
