SPECIFICATION Spec
CONSTANTS
    Session = {s1, s2}
    Role = {r1}
    NoRole = NoRole
    s1 = s1
    s2 = s2
    r1 = r1
    BlockTokens = 2
    Prompts = {1, 2, 3, 4, 5, 7}
    SharedSizes = {0, 2, 3}
    StaleAfter = 2
    FirstTime = 1
    LastTime = 9
    HbmCapacity = 4
    Policies = {"lru", "lfu", "fixed_ttl", "continuum_ttl", "adaptive_value", "oracle"}
    Capacity = 5
    BaseTtl = 1
    TtlPerByte = 0
    ChainTtlPerByte = 1
    MinTtl = 1
    MaxTtl = 1
    ThrashWindow = 1
    Turns <- TurnsByPolicy
    Gaps <- ShortGaps
    MaxTurns = 4
    Densities = {1, 2}
INVARIANTS
    HbmAccounted
    HbmBounded
    ChargesKnownBlocks
    HostFits
    ThrashAnswersDemotion
    NewBlocksLand
    KeepsEverything
    NoLeaseAfterEnd
    NextUseKnown
PROPERTIES
    DeparturesRecorded
    NoLapseBeforeReturn
    PrivateLeafFirst
    SharedGoLast
    FarthestFirst
    OldestGoFirst
    StopsWhenEnough
CHECK_DEADLOCK FALSE
