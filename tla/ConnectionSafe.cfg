SPECIFICATION Spec
CONSTANTS
    Call = {c1, c2}
    c1 = c1
    c2 = c2
    Transport = {t1, t2}
    t1 = t1
    t2 = t2
    None = None
    AutoReconnect = TRUE
    MaxConnects = 2
    ConnectAlone = FALSE
    Cancels = "waiting"
    Flaky = TRUE
INVARIANTS
    PendingIsServed
    AwaitingIsResolvable
SYMMETRY Names
CHECK_DEADLOCK FALSE
