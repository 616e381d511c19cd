SPECIFICATION Spec
CONSTANTS
    MaxId = 4
    Entry = {1, 2, 3, 4}
    MaxRuns = 2
    MaxTail = 1
    GroupOf <- MCGroupOf
    Capacity = 2
    MaxEntriesPerFlush = 2
    MaxRequests = 2
    MaxBatch = 2
    MaxRetries = 1
    Threshold = 2
    FlushAt = 2
    Configs <- AllConfigs
    Callers = {"user", "exit", "close"}
    CompactMin = 1
    MaxLines = 3
    MaxDiskEntries = 3
CONSTRAINT Bounds
INVARIANTS
    Contract
    OrderlySending
    TimerFollowsBreaker
    JournalCovers
PROPERTIES
    BreakerGates
    DrainedIsTrue
    ImplementsDelivery
CHECK_DEADLOCK FALSE
