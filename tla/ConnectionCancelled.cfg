SPECIFICATION Spec
CONSTANTS
    Call = {c1, c2}
    c1 = c1
    c2 = c2
    Transport = {t1, t2}
    t1 = t1
    t2 = t2
    None = None
    AutoReconnect = TRUE
    MaxConnects = 1
    ConnectAlone = TRUE
    Cancels = "any"
    Flaky = FALSE
INVARIANT
    PendingHasWaiter
CHECK_DEADLOCK FALSE
