SPECIFICATION Spec
CONSTANTS
    Session = {s1, s2}
    Role = {r1}
    NoRole = NoRole
    s1 = s1
    s2 = s2
    r1 = r1
    BlockTokens = 2
    Prompts = {1, 2, 3, 4, 5}
    SharedSizes = {0, 2, 3}
    StaleAfter = 2
    FirstTime = 1
    LastTime = 9
    HbmCapacity = 4
    Policies = {"lru"}
    Capacity = 4
    BaseTtl = 1
    TtlPerByte = 0
    ChainTtlPerByte = 1
    MinTtl = 1
    MaxTtl = 1
    ThrashWindow = 1
    Turns <- AbortsOnly
    Gaps <- ShortGaps
    MaxTurns = 4
    Densities = {1}
PROPERTIES
    AbortedNotServed
CHECK_DEADLOCK FALSE
