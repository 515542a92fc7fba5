SPECIFICATION MCSpec
CONSTANTS
    Session = {s1, s2}
    Role = {r1, r2}
    NoRole = NoRole
    BlockTokens = 2
    Prompts <- MCPrompts
    SharedSizes <- MCSharedSizes
    StaleAfter = 1
    FirstTime = 0
    LastTime = 2
    MaxRequests = 4
SYMMETRY Symmetry
INVARIANTS
    ReusedHasHistory
CHECK_DEADLOCK FALSE
