SPECIFICATION FairSpec
CONSTANTS
    Client = {c1, c2, c3}
    c1 = c1
    c2 = c2
    c3 = c3
    None = None
    Records <- MixedRecords
    MaxLineBytes = 2
    Churn = "paced"
    MaxStarts = 1
    LastRefusable = 2
INVARIANTS
    ReadBookkeeping
    NoSplicedRecords
    TagNamesOneRead
    OverlapCost
PROPERTIES
    SoleClientDrains
\* Every client may have gone, and the server may be stopped for good.
CHECK_DEADLOCK FALSE
