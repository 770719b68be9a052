SPECIFICATION ServerSpec
CONSTANTS
    Client = {c1, c2}
    c1 = c1
    c2 = c2
    None = None
    Records <- RequestRecords
    MaxLineBytes = 2
    Churn = "alone"
    MaxStarts = 1
    LastRefusable = 1
    Event = {moved, created}
    moved = moved
    created = created
    Coalesced = {moved}
    Pattern = {all}
    all = all
    Covers <- CoversAll
    Data = {}
    Unencodable = {}
    Empty = Empty
    Nil = Nil
    Invalid = Invalid
    Batches <- OneBatch
    MaxQueueSize = 1
    MaxSequence = 1
    MaxClients = 3
    MaxRequests = 2
INVARIANTS
    OwnTraffic
PROPERTY
    StreamRefined
CHECK_DEADLOCK FALSE
