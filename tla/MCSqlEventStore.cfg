CONSTANTS
    a = a
    b = b
    Ids = {a, b}
    Keys = {"k1"}
    Writers = {w1, w2}
    Target <- OneTarget
    Accepts <- AcceptsUntilClosed
    Setups <- Deployments
    MaxPolls = 1
    MaxAttempts = 2
SPECIFICATION FairSpec
INVARIANTS
    StreamsAreLinear
    KeysCommitOnce
    SqliteFeedHasNoLateEvents
PROPERTIES
    ImplementsAtomicRequests
    ConflictLeavesKeyFree
    EveryCallReturns
CHECK_DEADLOCK FALSE
