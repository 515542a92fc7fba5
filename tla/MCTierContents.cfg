SPECIFICATION MCSpec
CONSTANTS
    k1 = k1
    k2 = k2
    k3 = k3
    s1 = s1
    s2 = s2
    Policies = {"lru", "lfu", "fixed_ttl", "continuum_ttl", "adaptive_value"}
    Key <- MCKey
    Sizes = {1, 2}
    Asks = {1, 3}
    Views <- MCViews
    LastTime = 1
    MaxUses = 2
    Capacity = 5
    BaseTtl = 0
    TtlPerByte = 1
    ChainTtlPerByte = 1
    MinTtl = 0
    MaxTtl = 1
INVARIANTS
    FreesEnoughOnly
    OneChainCut
PROPERTIES
    VictimsArePartition
CHECK_DEADLOCK FALSE
