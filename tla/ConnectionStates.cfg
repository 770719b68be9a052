SPECIFICATION Spec
CONSTANTS
    Call = {c1}
    c1 = c1
    Transport = {t1, t2}
    t1 = t1
    t2 = t2
    None = None
    AutoReconnect = TRUE
    MaxConnects = 1
    ConnectAlone = TRUE
    Cancels = "never"
    Flaky = FALSE
INVARIANTS
    EventMeansConnected
    ReconnectingIsRetrying
CHECK_DEADLOCK FALSE
