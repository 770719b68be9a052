SPECIFICATION FairSpec
CONSTANTS
    Consumer = {n1, n2}
    Handler = {h1}
    n1 = n1
    n2 = n2
    h1 = h1
    QueueSize = 2
    Closed = Closed
    Application = Application
    Reader = Reader
    None = None
    MaxEvents = 3
INVARIANTS
    EveryEventAccounted
    InOrder
    CallbacksEnd
PROPERTY
    ConsumersWoken
CHECK_DEADLOCK FALSE
