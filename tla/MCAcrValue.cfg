SPECIFICATION FairSpec
CONSTANTS
    Key = {k1, k2, k3}
    Slots = 2
    Roles <- BothRoles
    Weights <- RoleWeights
    Gain = 73
    Rent = 220
    LeaseProbs <- TimesFloor
    Probs = {2, 5, 30}
    Hints <- SomeHints
    NoHints = NoHints
    LastTime = 2
    MaxCalls = 5
INVARIANTS
    TypeOK
    EvictableExact
PROPERTIES
    ImplementsContract
    ColdGoStalestFirst
    LeasesProtect
    ReferencesReturn
CHECK_DEADLOCK FALSE
