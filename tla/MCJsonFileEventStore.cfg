CONSTANTS
    Ids = {"order", "payment"}
    Types = {"order", "payment"}
    TypeOf <- IdIsType
    LegacyFiles <- LegacyArrays
    MaxEvents = 5
    MaxBatch = 2
    MaxFaults = 2
SPECIFICATION Spec
CHECK_DEADLOCK FALSE
INVARIANTS
    ReadableStreamsAreDense
    AcknowledgedBytesRemain
    OneInterruptionIsHarmless
    NothingBehindTheCheckpoint
