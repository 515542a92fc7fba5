SPECIFICATION RunnerSpec
CONSTANTS
    c1 = c1
    p1 = p1
    p2 = p2
    repo = repo
    base = base
    Session <- Sessions
    Key <- Blocks
    Slots = 4
    Roles <- SomeRoles
    NoRole = NoRole
    Ttl <- Lifetimes
    DefaultTtl = 12
    LastTime = 4
    RoleOf <- RolesOf
    Prefix <- SharedBy
    Own <- OwnedBy
    MaxGap = 1
    MaxTurns = 3
SYMMETRY Alike
PROPERTIES
    ClockMovesForward
CHECK_DEADLOCK FALSE
