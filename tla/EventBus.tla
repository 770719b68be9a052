------------------------------ MODULE EventBus ------------------------------
(***************************************************************************)
(* The event bus of hammerspoon/macapi/eventbus.lua with the subscription  *)
(* registry of subscriptions.lua: filtering, coalescing timers, sequence   *)
(* numbers, the bounded queue, and the flush through the server's sender.  *)
(*                                                                         *)
(* Lua runs each call to completion, so an action is a whole emit, timer   *)
(* callback, request or disconnect.  Of the server this module knows what  *)
(* send returns: link is "exactly one client is connected".                *)
(***************************************************************************)
EXTENDS Naturals, Sequences, FiniteSets, SequencesExt

CONSTANTS
    Event,          \* event names
    Coalesced,      \* those the watchers emit with { coalesce = true }
    Pattern,        \* subscription patterns: exact names or prefixes
    Covers,         \* Covers[p]: the events that pattern p matches
    Data,           \* payloads that are not empty
    Unencodable,    \* those among them that protocol.encode rejects
    Empty,          \* protocol.empty_object()
    Nil,
    Invalid,        \* an item that normalize rejects
    Batches,        \* the "subscriptions" arrays clients send
    MaxQueueSize,   \* config.max_queue_size
    MaxSequence,    \* bound on the events numbered
    MaxClients,     \* bound on the clients served
    MaxRequests     \* bound on the requests of a client that change its subscriptions

ASSUME EventAssumption == Coalesced \subseteq Event
ASSUME PatternAssumption == Covers \in [Pattern -> SUBSET Event]
ASSUME DataAssumption ==
    /\ Unencodable \subseteq Data
    /\ Empty \notin Data
    /\ Nil \notin Data \cup {Empty}
ASSUME BatchAssumption ==
    Batches \subseteq Seq([event : Pattern, include : BOOLEAN] \cup {Invalid})
ASSUME InvalidAssumption == Invalid \notin [event : Pattern, include : BOOLEAN]
ASSUME SizeAssumption ==
    /\ MaxQueueSize \in Nat \ {0}
    /\ MaxSequence \in Nat /\ MaxClients \in Nat /\ MaxRequests \in Nat

VARIABLES
    \* the module locals of eventbus.lua and subscriptions.lua
    sender,         \* send_message is set
    queue,
    sequence,
    pending,        \* pending[name]: the payload to send, or Nil
    timerKey,       \* pending[name .. ":timer"] is set
    subscriptions,  \* of each pattern: "none", "data" or "nodata"
    \* hs.timer and the server
    armed,          \* how many timers for the name are still to fire
    link,           \* listener:connections() == 1
    \* history
    client,         \* the client being served, counted by client_disconnected
    wire,           \* the messages written
    calm,           \* since the last flush began one client has been connected, and no
                    \* write has raised
    log             \* the requests of the client that were to change its subscriptions

vars == <<sender, queue, sequence, pending, timerKey, subscriptions,
          armed, link, client, wire, calm, log>>

\* A payload remembers the client it was emitted for, how many of its requests had
\* come by then, and the policy that was applied.
Payload == [data : Data \cup {Empty}, for : Nat, after : Nat, policy : BOOLEAN]
Message == [seq : Nat, event : Event, payload : Payload]
Entry == [kind : {"subscribe", "unsubscribe", "unsubscribeAll"}, batch : Batches \cup {<<>>}]

ASSUME NilAssumption == Nil \notin Payload

-----------------------------------------------------------------------------
\* subscriptions.lua

MatchingPatterns(name) ==
    {p \in Pattern : subscriptions[p] # "none" /\ name \in Covers[p]}
Matches(name) == MatchingPatterns(name) # {}

\* Mutant of MayInclude: nothing but an exact name refuses the data.
MayIncludeUnlessExact(name, include) ==
    include = ~\E p \in MatchingPatterns(name) :
                  Covers[p] = {name} /\ subscriptions[p] = "nodata"
\* include_data(name) is the policy of the first match in the order of pairs,
\* which Lua leaves open.
MayInclude(name, include) ==
    \E p \in MatchingPatterns(name) : include = (subscriptions[p] = "data")

\* The items subscribe applies: those before the first invalid one, which stays
\* applied when the request fails.
AppliedItems(batch) ==
    {k \in DOMAIN batch : \A j \in 1 .. k : batch[j] # Invalid}

Policy(item) == IF item.include THEN "data" ELSE "nodata"

\* Mutant of SubscribeItems: a pattern subscribed already keeps its policy.
SubscribeItemsAnew(batch) ==
    [p \in Pattern |->
        LET own == {k \in AppliedItems(batch) : batch[k].event = p}
        IN  IF own = {} \/ subscriptions[p] # "none" THEN subscriptions[p]
            ELSE Policy(batch[CHOOSE k \in own : \A j \in own : j <= k])]
SubscribeItems(batch) ==
    [p \in Pattern |->
        LET own == {k \in AppliedItems(batch) : batch[k].event = p}
        IN  IF own = {} THEN subscriptions[p]
            ELSE Policy(batch[CHOOSE k \in own : \A j \in own : j <= k])]

UnsubscribeItems(batch) ==
    [p \in Pattern |->
        IF \E k \in AppliedItems(batch) : batch[k].event = p
        THEN "none" ELSE subscriptions[p]]

NoSubscriptions == [p \in Pattern |-> "none"]

-----------------------------------------------------------------------------
\* enqueue(message), on the queue q, and flush()

Encodable(message) == message.payload.data \notin Unencodable

EnqueueDropsNewest(q, message) ==       \* mutant: a full queue refuses
    IF Len(q) >= MaxQueueSize THEN q ELSE Append(q, message)
Enqueue(q, message) ==
    Append(IF Len(q) >= MaxQueueSize THEN Tail(q) ELSE q, message)

\* send() takes the first n messages of q one after the other.
MaySend(q, n) == n > 0 => sender /\ link /\ \A k \in 1 .. n : Encodable(q[k])

\* flush() stops after n messages: all are sent, or send fails for the next one, of
\* which the write may also raise.
StopsAfter(q, n, raised) ==
    IF raised THEN n < Len(q) /\ MaySend(q, n + 1)
    ELSE n < Len(q) => ~MaySend(q, n + 1)

\* Mutants of Flush: the loop is "while #queue > 1"; a message is removed before it
\* is sent; sent messages stay queued.
FlushLeavesLast(q) ==
    \E n \in 0 .. Len(q), raised \in BOOLEAN :
        /\ MaySend(q, n)
        /\ IF raised \/ q = <<>> THEN StopsAfter(q, n, raised)
           ELSE n < Len(q) /\ (n + 1 < Len(q) => ~MaySend(q, n + 1))
        /\ wire' = wire \o SubSeq(q, 1, n)
        /\ queue' = SubSeq(q, n + 1, Len(q))
        /\ calm' = (sender /\ link /\ ~raised)
FlushRemovesFirst(q) ==
    \E n \in 0 .. Len(q), raised \in BOOLEAN :
        /\ MaySend(q, n) /\ StopsAfter(q, n, raised)
        /\ wire' = wire \o SubSeq(q, 1, n)
        /\ queue' = SubSeq(q, IF sender /\ link THEN n + 2 ELSE n + 1, Len(q))
        /\ calm' = (sender /\ link /\ ~raised)
FlushResends(q) ==
    \E n \in 0 .. Len(q), raised \in BOOLEAN :
        /\ MaySend(q, n) /\ StopsAfter(q, n, raised)
        /\ wire' = wire \o SubSeq(q, 1, n)
        /\ queue' = q
        /\ calm' = (sender /\ link /\ ~raised)

Flush(q) ==
    \E n \in 0 .. Len(q), raised \in BOOLEAN :
        /\ MaySend(q, n) /\ StopsAfter(q, n, raised)
        /\ wire' = wire \o SubSeq(q, 1, n)
        /\ queue' = SubSeq(q, n + 1, Len(q))
        /\ calm' = (sender /\ link /\ ~raised)

Number(name, payload) ==
    [seq |-> sequence + 1, event |-> name, payload |-> payload]

-----------------------------------------------------------------------------
\* emit(name, data, options)

NewPayload(name, data, include) ==
    [data |-> IF include THEN data ELSE Empty,
     for |-> client, after |-> Len(log), policy |-> include]

\* The payload waits for the timer, which is armed if it is not already.
EmitCoalesced(name, data, include) ==
    /\ name \in Coalesced
    /\ pending' = [pending EXCEPT ![name] = NewPayload(name, data, include)]
    /\ timerKey' = [timerKey EXCEPT ![name] = TRUE]
    /\ armed' = [armed EXCEPT ![name] = IF timerKey[name] THEN @ ELSE @ + 1]
    /\ UNCHANGED <<queue, sequence, wire, calm>>

EmitAtOnce(name, data, include) ==
    /\ name \notin Coalesced
    /\ sequence < MaxSequence
    /\ sequence' = sequence + 1
    /\ Flush(Enqueue(queue, Number(name, NewPayload(name, data, include))))
    /\ UNCHANGED <<pending, timerKey, armed>>

Emit(name, data, include) ==
    /\ Matches(name)
    /\ MayInclude(name, include)
    /\ EmitCoalesced(name, data, include) \/ EmitAtOnce(name, data, include)
    /\ UNCHANGED <<sender, subscriptions, link, client, log>>

\* A coalescing timer fires.  With no payload left it only clears its key.
TimerFiresKeepsKey(name) ==             \* mutant: the key is left behind
    /\ armed[name] > 0
    /\ sequence < MaxSequence
    /\ armed' = [armed EXCEPT ![name] = @ - 1]
    /\ pending' = [pending EXCEPT ![name] = Nil]
    /\ pending[name] # Nil
    /\ sequence' = sequence + 1
    /\ Flush(Enqueue(queue, Number(name, pending[name])))
    /\ UNCHANGED <<sender, timerKey, subscriptions, link, client, log>>
TimerFires(name) ==
    /\ armed[name] > 0
    /\ sequence < MaxSequence
    /\ armed' = [armed EXCEPT ![name] = @ - 1]
    /\ pending' = [pending EXCEPT ![name] = Nil]
    /\ timerKey' = [timerKey EXCEPT ![name] = FALSE]
    /\ IF pending[name] # Nil
       THEN /\ sequence' = sequence + 1
            /\ Flush(Enqueue(queue, Number(name, pending[name])))
       ELSE UNCHANGED <<sequence, queue, wire, calm>>
    /\ UNCHANGED <<sender, subscriptions, link, client, log>>

-----------------------------------------------------------------------------
\* init, client_disconnected and stop

ClearPendingOnly ==                     \* mutant: timers are not stopped
    /\ pending' = [name \in Event |-> Nil]
    /\ timerKey' = [name \in Event |-> FALSE]
    /\ UNCHANGED armed
\* clear_pending(): timer:stop() for each timer in the table.
ClearPending ==
    /\ pending' = [name \in Event |-> Nil]
    /\ timerKey' = [name \in Event |-> FALSE]
    /\ armed' = [name \in Event |->
                    IF timerKey[name] THEN armed[name] - 1 ELSE armed[name]]

ForgetClientButQueue ==                 \* mutant: the queue is kept
    /\ ClearPending
    /\ subscriptions' = NoSubscriptions
    /\ client' = client + 1
    /\ log' = <<>>
    /\ UNCHANGED queue
ForgetClient ==
    /\ ClearPending
    /\ queue' = <<>>
    /\ subscriptions' = NoSubscriptions
    /\ client' = client + 1
    /\ log' = <<>>

BusInit ==
    /\ ~sender
    /\ sender' = TRUE
    /\ UNCHANGED <<queue, sequence, pending, timerKey, subscriptions, armed,
                   link, client, wire, calm, log>>

\* The poll of the server sees that no client is left.
ClientDisconnected ==
    /\ sender
    /\ ~link
    /\ client < MaxClients
    /\ ForgetClient
    /\ UNCHANGED <<sender, sequence, link, wire, calm>>

\* M.stop of the server has closed the listener before.
BusStop ==
    /\ sender
    /\ client < MaxClients
    /\ ForgetClient
    /\ sender' = FALSE
    /\ link' = FALSE
    /\ calm' = FALSE
    /\ UNCHANGED <<sequence, wire>>

-----------------------------------------------------------------------------
\* Requests of the connected client.  The server flushes after each.

Request ==
    /\ sender
    /\ link
    /\ Flush(queue)
    /\ UNCHANGED <<sender, sequence, pending, timerKey, armed, link, client>>

Logs(kind, batch) ==
    /\ Len(log) < MaxRequests
    /\ log' = Append(log, [kind |-> kind, batch |-> batch])

Subscribe(batch) ==
    /\ subscriptions' = SubscribeItems(batch)
    /\ Logs("subscribe", batch)
    /\ Request
Unsubscribe(batch) ==
    /\ subscriptions' = UnsubscribeItems(batch)
    /\ Logs("unsubscribe", batch)
    /\ Request
UnsubscribeAll ==
    /\ subscriptions' = NoSubscriptions
    /\ Logs("unsubscribeAll", <<>>)
    /\ Request
OtherRequest == UNCHANGED <<subscriptions, log>> /\ Request

\* Clients connect and disconnect; a second one takes the link down as well.
LinkChanges ==
    /\ sender
    /\ link' = ~link
    /\ calm' = FALSE
    /\ UNCHANGED <<sender, queue, sequence, pending, timerKey, subscriptions,
                   armed, client, wire, log>>

-----------------------------------------------------------------------------

Init ==
    /\ sender = FALSE
    /\ queue = <<>>
    /\ sequence = 0
    /\ pending = [name \in Event |-> Nil]
    /\ timerKey = [name \in Event |-> FALSE]
    /\ subscriptions = NoSubscriptions
    /\ armed = [name \in Event |-> 0]
    /\ link = FALSE
    /\ client = 0
    /\ wire = <<>>
    /\ calm = FALSE
    /\ log = <<>>

Next ==
    \/ BusInit \/ ClientDisconnected \/ BusStop \/ LinkChanges
    \/ \E name \in Event, data \in Data \cup {Empty}, include \in BOOLEAN :
            Emit(name, data, include)
    \/ \E name \in Event : TimerFires(name)
    \/ \E batch \in Batches : Subscribe(batch) \/ Unsubscribe(batch)
    \/ UnsubscribeAll
    \/ OtherRequest

Spec == Init /\ [][Next]_vars

\* hs.timer fires an armed timer.
FairSpec == Spec /\ \A name \in Event : WF_vars(TimerFires(name))

-----------------------------------------------------------------------------
\* Properties

TypeOK ==
    /\ sender \in BOOLEAN
    /\ queue \in Seq(Message)
    /\ sequence \in Nat
    /\ pending \in [Event -> Payload \cup {Nil}]
    /\ timerKey \in [Event -> BOOLEAN]
    /\ subscriptions \in [Pattern -> {"none", "data", "nodata"}]
    /\ armed \in [Event -> Nat]
    /\ link \in BOOLEAN
    /\ client \in Nat
    /\ wire \in Seq(Message)
    /\ calm \in BOOLEAN
    /\ log \in Seq(Entry)

\* The queue keeps its bound and holds the newest events without a gap: an overflow
\* loses the oldest event and never one from the middle, and flush takes from the
\* front only.
QueueIsNewest ==
    /\ Len(queue) <= MaxQueueSize
    /\ \A k \in DOMAIN queue : queue[k].seq + Len(queue) = sequence + k

\* While one client stays connected and no write raises, what waits after a flush
\* waits behind an event that cannot be encoded: send fails for that one at every
\* flush, and it holds back the events behind it until the queue overflows.
WaitsOnlyBehindUnencodable ==
    calm /\ queue # <<>> => ~Encodable(Head(queue))

\* What may be in the queue, and how long.
QueueKept == QueueIsNewest /\ WaitsOnlyBehindUnencodable

\* A client sees sequence numbers strictly grow, whatever was dropped, coalesced,
\* left in the queue by a failed flush or cleared between two clients.
WireInOrder ==
    /\ \A j, k \in DOMAIN wire : j < k => wire[j].seq < wire[k].seq
    /\ \A j \in DOMAIN wire, k \in DOMAIN queue : wire[j].seq < queue[k].seq

\* Each name has a payload waiting exactly while one timer for it is armed: no
\* timer is armed twice, none outlives client_disconnected, and no payload waits
\* for a timer that will not fire.
OneTimerPerPayload ==
    \A name \in Event :
        /\ pending[name] # Nil <=> timerKey[name]
        /\ armed[name] = IF timerKey[name] THEN 1 ELSE 0

\* What waits in the bus was emitted for the client that is being served: nothing
\* a departed client had subscribed to reaches the next one.
ServesOneClient ==
    /\ \A k \in DOMAIN queue : queue[k].payload.for = client
    /\ \A name \in Event : pending[name] # Nil => pending[name].for = client

\* What the client knows of its requests: one that was accepted has taken effect as
\* a whole, of one that was refused any number of the first items may have.
HasInvalid(batch) == \E k \in DOMAIN batch : batch[k] = Invalid
MayHaveApplied(request, n) ==
    IF HasInvalid(request.batch) THEN n \in 0 .. Len(request.batch)
    ELSE n = Len(request.batch)

\* The first n items of the request subscribe to p with this policy.
Sets(request, n, p, include) ==
    /\ request.kind = "subscribe"
    /\ \E k \in 1 .. n :
            /\ request.batch[k] = [event |-> p, include |-> include]
            /\ \A j \in k + 1 .. n :
                    request.batch[j] # [event |-> p, include |-> ~include]

\* The first n items leave the subscription to p as it is.
Leaves(request, n, p) ==
    /\ request.kind # "unsubscribeAll"
    /\ \A k \in 1 .. n : request.batch[k] # Invalid => request.batch[k].event # p

MaySet(request, p, include) ==
    \E n \in 0 .. Len(request.batch) :
        MayHaveApplied(request, n) /\ Sets(request, n, p, include)
MayLeave(request, p) ==
    \E n \in 0 .. Len(request.batch) :
        MayHaveApplied(request, n) /\ Leaves(request, n, p)

\* After the first "after" of these requests p may be subscribed to with this policy.
MayBeInForce(requests, after, p, include) ==
    \E i \in 1 .. after :
        /\ MaySet(requests[i], p, include)
        /\ \A j \in i + 1 .. after : MayLeave(requests[j], p)

\* The client has asked for the event, and for its data if it has any.
AskedFor(requests, name, payload) ==
    /\ payload.data # Empty => payload.policy
    /\ \E p \in Pattern :
            /\ name \in Covers[p]
            /\ MayBeInForce(requests, payload.after, p, payload.policy)

\* An event goes to a client only if, by its own requests before the event, it was
\* subscribed to it, and with its data only if one of the patterns it had subscribed
\* to with data, and not replaced since, covers the event: whatever patterns overlap,
\* were replaced, unsubscribed or refused half way.
DataAsAsked ==
    /\ \A k \in DOMAIN queue :
            queue[k].payload.for = client => AskedFor(log, queue[k].event, queue[k].payload)
    /\ \A k \in DOMAIN wire :
            wire[k].payload.for = client => AskedFor(log, wire[k].event, wire[k].payload)
    /\ \A name \in Event :
            pending[name] # Nil /\ pending[name].for = client
                => AskedFor(log, name, pending[name])

\* A numbered event leaves the queue only by being written, as the oldest of a
\* full queue, or with its client.
NoSilentLoss ==
    [][\A k \in DOMAIN queue :
            \/ queue[k] \in ToSet(queue') \/ queue[k] \in ToSet(wire')
            \/ k = 1 /\ Len(queue) = MaxQueueSize
            \/ client' # client]_vars

\* A coalesced payload does not wait for ever: its timer fires, or its client
\* goes.
CoalescedIsSent ==
    \A name \in Event :
        pending[name] # Nil /\ sequence < MaxSequence
            ~> pending[name] = Nil \/ sequence = MaxSequence
=============================================================================
