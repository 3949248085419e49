CONSTANTS
    Ids = {a}
    Payloads = {"deposit", "withdraw"}
    Keys = {"deposit", "withdraw"}
    MaxEvents = 3
    MaxBatch = 1
    Callers = {c1, c2}
    Target <- OneTarget
    Accepts <- AccountAccepts
    MaxPolls = 1
    MaxAttempts = 3
    FaultSets = {{"store_failure"}, {"store_failure", "idempotency_failure", "crash"}, {"append_reply_lost", "lease_expiry"}, {"crash", "purge"}, {"crash", "lease_expiry", "purge", "clear"}, {"idempotency_reply_lost"}}
SPECIFICATION FairSpec
INVARIANTS
    SingleExecutor
    KeyExecutesOnce
    ExtraRunsHaveIncidents
    PendingIsOwned
    OkMeansCommitted
PROPERTIES
    CompletedIsKept
    EveryCallReturns
CHECK_DEADLOCK FALSE
