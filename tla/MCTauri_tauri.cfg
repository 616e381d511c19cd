SPECIFICATION FairSpec
CONSTANTS
    MaxId = 3
    MaxEntries = 2
    MaxBytes = 2
    Faults = {"tear", "write"}
    Modes = {"immediate", "startup", "interval"}
    Backings = {TRUE, FALSE}
    Urgent = {2}
    MaxBatch = 1
    Threshold = 2
    MaxRuns = 2
    MaxFlushes = 1
    MaxChannel = 1
CONSTRAINT Bounds
INVARIANTS
    QueueContract
    OneProbe
    FlushTrue
PROPERTIES
    ImplementsDelivery
    Progress
CHECK_DEADLOCK FALSE
