SPECIFICATION FairSpec
CONSTANTS
    Client = {c1}
    c1 = c1
    None = None
    Records <- BoundaryRecords
    MaxLineBytes = 3
    Churn = "alone"
    MaxStarts = 1
    LastRefusable = 0
PROPERTY StreamRefined
\* Every client may have gone, and the server may be stopped for good.
CHECK_DEADLOCK FALSE
