SPECIFICATION FairSpec
CONSTANTS
    MaxId = 2
    Entry = {1, 2}
    MaxRuns = 1
    MaxTail = 1
    GroupOf <- MCGroupOf
    Capacity = 2
    MaxEntriesPerFlush = 1
    MaxRequests = 2
    MaxBatch = 2
    MaxRetries = 1
    Threshold = 2
    FlushAt = 2
    Configs <- LiveConfigs
    Callers = {"user", "close"}
    CompactMin = 1
    MaxLines = 4
    MaxDiskEntries = 3
PROPERTIES
    Progress
CHECK_DEADLOCK FALSE
