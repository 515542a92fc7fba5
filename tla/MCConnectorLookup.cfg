SPECIFICATION LookupSpec
CONSTANTS
    Width <- ScaledWidth
    Prompts <- ScaledPrompts
INVARIANTS
    HitIsLongest
    StoreServesLookup
    RingVetoes
CHECK_DEADLOCK FALSE
