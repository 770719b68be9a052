SPECIFICATION Spec
CONSTANTS
    Pattern = {A, B}
    A = A
    B = B
    Op = {o1, o2, o3}
    o1 = o1
    o2 = o2
    o3 = o3
    None = None
    Eager = TRUE
    Timeouts = FALSE
    Noticed = TRUE
    MaxLosses = 1
SYMMETRY Names
INVARIANTS
    UnsubscribedIsOff
CHECK_DEADLOCK FALSE
