SPECIFICATION Spec
CONSTANTS
    r1 = r1
    r2 = r2
    r3 = r3
    s1 = s1
    p1 = p1
    e1 = e1
    e2 = e2
    Request = {r1, r2, r3}
    Source = {s1}
    Project = {p1}
    ProjectOf <- OneProject
    Entry = {e1, e2}
    Batch <- Bodies
    MaxBatchEntries = 2
    MaxDay = 2
    HoursPerDay = 2
    Window = 2
SYMMETRY Requests
INVARIANTS
    MeterSound
    MeterExact
    AnsweredIsStored
    BillBounded
CHECK_DEADLOCK FALSE
