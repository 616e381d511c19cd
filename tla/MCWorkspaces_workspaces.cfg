SPECIFICATION WorkspacesSpec
CONSTANTS
    u1 = u1
    u2 = u2
    r1 = r1
    r2 = r2
    p1 = p1
    p2 = p2
    p3 = p3
    User = {u1, u2}
    Request = {r1, r2}
    Project = {p1, p2, p3}
    Ceiling = 1
SYMMETRY Symmetric
INVARIANT WithinCeiling
CHECK_DEADLOCK FALSE
