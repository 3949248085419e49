CONSTANTS
    Ids = {"order", "payment"}
    Payloads = {x}
    MaxEvents = 3
    MaxBatch = 1
    r1 = r1
    r2 = r2
    Runners = {r1, r2}
    Scopes = {"order", "payment"}
    ScopeOf <- IdIsScope
    Setups <- Deployments
SPECIFICATION FairSpec
INVARIANTS
    NothingIsSkipped
    OwnedIsExactlyOnce
    RunCatchesUp
    DeliveredInOrder
    PagesFollowCheckpoints
PROPERTIES
    CheckpointsOnlyAdvance
    EveryEventIsProjected
