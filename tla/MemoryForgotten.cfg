SPECIFICATION Spec
CONSTANTS
    Pattern = {A, B}
    A = A
    B = B
    Op = {o1, o2, o3}
    o1 = o1
    o2 = o2
    o3 = o3
    None = None
    Eager = TRUE
    Timeouts = FALSE
    Noticed = TRUE
    MaxLosses = 2
SYMMETRY Names
INVARIANTS
    SubscribedIsServed
CHECK_DEADLOCK FALSE
