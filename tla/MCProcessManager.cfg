CONSTANTS
    Runners = {r1, r2}
    Events = {"e1"}
    NumCommands <- MCNumCommands
    MaxRejections = 2
    MaxFaults = 1
    MaxRedeliveries = 1
SPECIFICATION FairSpec
INVARIANTS
    SkippedAreExecuted
    ExecutedInOrder
    ResumeDoesNotRepeat
PROPERTY EveryCommandIsExecuted
CHECK_DEADLOCK FALSE
