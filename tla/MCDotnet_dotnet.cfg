SPECIFICATION FairSpec
CONSTANTS
    MaxId = 3
    GroupOf <- MCGroupOf
    Urgent = {2}
    Durable = {1, 2}
    Configs <- Policies
    MaxQueued = 2
    MaxBatch = 2
    Threshold = 2
    MaxLines = 1
    DiskRefuses = TRUE
    MaxRuns = 2
CONSTRAINT Bounds
INVARIANTS Contract
PROPERTIES FlushTrue Progress
CHECK_DEADLOCK FALSE
