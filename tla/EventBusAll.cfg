SPECIFICATION FairSpec
CONSTANTS
    moved = moved
    created = created
    exact = exact
    wildcard = wildcard
    Event = {moved, created}
    Coalesced = {moved}
    Pattern = {exact, wildcard}
    Covers <- CoversBoth
    Data = {text, bad}
    Unencodable = {bad}
    text = text
    bad = bad
    Empty = Empty
    Nil = Nil
    Invalid = Invalid
    Batches <- SomeBatches
    MaxQueueSize = 2
    MaxSequence = 3
    MaxClients = 1
    MaxRequests = 2
INVARIANTS
    WireInOrder
    QueueKept
    OneTimerPerPayload
    ServesOneClient
    DataAsAsked
PROPERTIES
    NoSilentLoss
    CoalescedIsSent
