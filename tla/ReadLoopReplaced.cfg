SPECIFICATION FairSpec
CONSTANTS
    Client = {c1, c2}
    c1 = c1
    c2 = c2
    None = None
    Records <- ShortRecords
    MaxLineBytes = 3
    Churn = "any"
    MaxStarts = 1
    LastRefusable = 0
PROPERTY SoleClientDrains
\* Every client may have gone, and the server may be stopped for good.
CHECK_DEADLOCK FALSE
