SPECIFICATION Spec
CONSTANTS
    Call = {c1}
    c1 = c1
    Transport = {t1, t2}
    t1 = t1
    t2 = t2
    None = None
    AutoReconnect = TRUE
    MaxConnects = 2
    ConnectAlone = FALSE
    Cancels = "never"
    Flaky = FALSE
INVARIANT
    OneReader
CHECK_DEADLOCK FALSE
