SPECIFICATION Spec
CONSTANTS
    MaxId = 3
    Urgent = {2}
    Configs <- Policies
    MaxQueued = 2
    MaxBatch = 1
    Threshold = 2
    MaxFile = 2
    DiskRefuses = TRUE
    Callers = {"user", "close"}
    MaxRuns = 2
CONSTRAINT Bounds
INVARIANTS Contract
PROPERTIES FlushTrue ImplementsDelivery
CHECK_DEADLOCK FALSE
