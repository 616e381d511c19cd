SPECIFICATION PartitionsSpec
CONSTANTS
    job = job
    boot = boot
    w1 = w1
    w2 = w2
    Entry = {1, 2, 3}
    MonthOf <- Months
    Replica = {job, boot}
    Back <- Reach
    Ahead = 1
    Writer = {w1, w2}
    Attached = {2}
    FirstMonth = 3
    LastMonth = 4
SYMMETRY Writers
INVARIANTS
    Placed
    NothingLost
CHECK_DEADLOCK FALSE
