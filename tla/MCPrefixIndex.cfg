SPECIFICATION MCSpec
CONSTANTS
    Session = {s1, s2}
    Role = {r1, r2}
    NoRole = NoRole
    BlockTokens = 2
    Prompts <- MCPrompts
    SharedSizes <- MCSharedSizes
    StaleAfter = 1
    FirstTime = 1
    LastTime = 2
    MaxRequests = 4
SYMMETRY Symmetry
INVARIANTS
    TypeOK
    LeaseExact
    DepthIsPosition
    InteriorFull
    LeasesInNamespace
    LeaseHasClock
PROPERTIES
    BlocksOnlyGrow
    ImplementsLeaseTable
CHECK_DEADLOCK FALSE
