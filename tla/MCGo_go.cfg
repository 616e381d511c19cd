SPECIFICATION FairSpec
CONSTANTS
    MaxId = 3
    GroupOf <- MCGroupOf
    Urgent = {2}
    Configs <- AllPolicies
    QueueSize = 2
    MaxBatch = 1
    MaxRetries = 1
    Threshold = 2
    RetryBase = 2
    Reset = 2
    MaxRuns = 2
    MaxBytes = 2
    DiskRefuses = TRUE
CONSTRAINT Bounds
INVARIANTS Contract
PROPERTIES FreshBatchGated ImplementsDelivery Progress
CHECK_DEADLOCK FALSE
