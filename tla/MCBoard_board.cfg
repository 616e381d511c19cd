SPECIFICATION FairSpec
CONSTANTS
    b1 = b1
    b2 = b2
    Dash = {b1, b2}
    First = b1
    Scripts <- Evenings
    MAX_WIDGETS = 2
INVARIANTS Contract Kept
PROPERTIES Converges
CHECK_DEADLOCK FALSE
