CONSTANTS
    Threads = {t1, t2, t3}
    MaxSize = 2
SPECIFICATION FairPoolSpec
INVARIANTS
    CountsAreExact
    CapacityRemains
PROPERTY EveryAcquireReturns
