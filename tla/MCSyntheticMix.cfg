SPECIFICATION MixSpec
CONSTANTS
    code1 = code1
    patient1 = patient1
    Session <- TwoSessions
    Role <- TwoRoles
    BlockTokens = 2
    Prompts = {}
    SharedSizes = {}
    StaleAfter = 1
    NoRole = NoRole
    FirstTime = 1
    LastTime = 1
    RoleOf <- Roles
    Root <- Roots
    Starts = {7, 10}
    Growths = {2, 4}
    Cuts = {5, 9}
    Drawn = {2, 4}
    MaxTurns = 4
PROPERTIES
    AbortedBranchRecorded
CHECK_DEADLOCK FALSE
