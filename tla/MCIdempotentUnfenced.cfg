CONSTANTS
    Ids = {a}
    Payloads = {"deposit", "withdraw"}
    Keys = {"deposit", "withdraw"}
    MaxEvents = 3
    MaxBatch = 1
    Callers = {c1, c2}
    Target <- OneTarget
    Accepts <- AccountAccepts
    MaxPolls = 1
    MaxAttempts = 3
    FaultSets = {{"idempotency_reply_lost"}}
SPECIFICATION Spec
PROPERTY ResultsAreKept
CHECK_DEADLOCK FALSE
