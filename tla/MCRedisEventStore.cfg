CONSTANTS
    Ids = {"order", "payment"}
    Types = {"order", "payment"}
    TypeOf <- IdIsType
    LegacyIds = {"order"}
    w1 = w1
    w2 = w2
    Callers = {w1, w2}
    Setups <- Deployments
    PageSize = 1
    ChunkSize = 1
    MaxAppends = 2
    MaxBatch = 2
    MaxFaults = 2
    Evictable = {"revision", "index", "hash"}
CHECK_DEADLOCK FALSE
SPECIFICATION Spec
INVARIANTS
    AppendsTakeEffectOnce
    AnswersAreOwn
    LoadsAreWhole
    FeedHasNoGaps
