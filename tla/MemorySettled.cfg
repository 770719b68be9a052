SPECIFICATION Spec
CONSTANTS
    Pattern = {A, B}
    A = A
    B = B
    Op = {o1, o2, o3}
    o1 = o1
    o2 = o2
    o3 = o3
    None = None
    Eager = FALSE
    Timeouts = TRUE
    Noticed = FALSE
    MaxLosses = 2
SYMMETRY Names
INVARIANTS
    MemoryIsServed
    ConfirmedHolds
CHECK_DEADLOCK FALSE
