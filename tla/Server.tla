------------------------------- MODULE Server -------------------------------
(***************************************************************************)
(* The Lua server as a whole: the read loop of ReadLoop and the event bus  *)
(* of EventBus over the one listener of server.lua.  A record that is      *)
(* complete is a request, the poll that finds no client left empties the   *)
(* bus, and what send() writes goes to the client that is connected then,  *)
(* whoever caused it.                                                      *)
(***************************************************************************)
EXTENDS ReadLoop

CONSTANTS   \* as in EventBus
    Event, Coalesced, Pattern, Covers, Data, Unencodable, Empty, Nil, Invalid, Batches,
    MaxQueueSize, MaxSequence, MaxClients, MaxRequests

VARIABLES
    \* eventbus.lua and subscriptions.lua
    sender, queue, sequence, pending, timerKey, subscriptions, armed, client, wire,
    calm, log,
    \* history
    to,         \* the client that each message on the wire was written to
    asked,      \* <<c, p, n>>: c has asked for p while client was n
    answers     \* <<c, d>>: a request of c was answered to d

bus == <<sender, queue, sequence, pending, timerKey, subscriptions, armed, client, wire,
         calm, log>>
traffic == <<to, asked, answers>>
serverVars == <<vars, bus, traffic>>

\* What send() asks of the listener
Link == running /\ Connections = 1

Bus == INSTANCE EventBus WITH link <- Link

ASSUME BusAssumption ==
    /\ Bus!EventAssumption /\ Bus!PatternAssumption /\ Bus!DataAssumption
    /\ Bus!BatchAssumption /\ Bus!InvalidAssumption /\ Bus!SizeAssumption
    /\ Bus!NilAssumption

-----------------------------------------------------------------------------

ServerStart ==
    /\ Start
    /\ Bus!BusInit
    /\ UNCHANGED traffic

ServerStop ==
    /\ Stop
    /\ Bus!BusStop
    /\ UNCHANGED traffic

\* Mutant of ServerPoll: the bus does not hear that the client has gone.
ServerPollSilent ==
    /\ Poll
    /\ UNCHANGED <<bus, traffic>>

\* poll_connections() empties the bus when the count has come down to zero.
ServerPoll ==
    /\ Poll
    /\ IF Connections # connectionCount /\ Connections = 0
       THEN Bus!ClientDisconnected
       ELSE UNCHANGED bus
    /\ UNCHANGED traffic

\* A client comes or goes; neither module is told.
ClientChanges(c) ==
    /\ Attach(c) \/ Depart(c)
    /\ IF Link' = Link THEN UNCHANGED bus ELSE Bus!LinkChanges
    /\ UNCHANGED traffic

\* A byte that completes no record
ServerReads(c) ==
    /\ \/ LateCallback(c) \/ CrowdedCallback(c)
       \/ DiscardByte(c) \/ OversizedByte(c) \/ StoreByte(c)
    /\ UNCHANGED <<bus, traffic>>

\* The client connected now, if there is one, gets what a flush has written.
Receiver == CHOOSE c \in Client : Attached = {c}
Written == to' = to \o [k \in 1 .. Len(wire') - Len(wire) |-> Receiver]

\* The patterns of the items that subscribe applies
PatternsOf(batch) == {batch[k].event : k \in Bus!AppliedItems(batch)}

\* A record is complete: it is answered, and the bus flushed.
ServerRequests(c) ==
    /\ CompleteRecord(c)
    /\ \/ \E batch \in Batches :
            /\ Bus!Subscribe(batch)
            /\ asked' = asked \cup ({c} \X PatternsOf(batch) \X {client})
       \/ /\ \/ \E batch \in Batches : Bus!Unsubscribe(batch)
             \/ Bus!UnsubscribeAll \/ Bus!OtherRequest
          /\ UNCHANGED asked
    /\ Written
    /\ answers' = answers \cup {<<c, Receiver>>}

\* It cannot be decoded: an error is all that is sent.
ServerRejects(c) ==
    /\ CompleteRecord(c)
    /\ answers' = answers \cup {<<c, Receiver>>}
    /\ UNCHANGED <<bus, to, asked>>

ServerEmits(name, data, include) ==
    /\ UNCHANGED <<vars, asked, answers>>
    /\ Bus!Emit(name, data, include)
    /\ Written

ServerTimerFires(name) ==
    /\ UNCHANGED <<vars, asked, answers>>
    /\ Bus!TimerFires(name)
    /\ Written

-----------------------------------------------------------------------------

ServerInit ==
    /\ Init
    /\ Bus!Init
    /\ to = <<>>
    /\ asked = {}
    /\ answers = {}

ServerNext ==
    \/ ServerStart \/ ServerStop \/ ServerPoll
    \/ TimePasses /\ UNCHANGED <<bus, traffic>>
    \/ \E c \in Client :
        \/ ClientChanges(c)
        \/ ServerReads(c) \/ ServerRequests(c) \/ ServerRejects(c)
    \/ \E name \in Event, data \in Data \cup {Empty}, include \in BOOLEAN :
        ServerEmits(name, data, include)
    \/ \E name \in Event : ServerTimerFires(name)

ServerSpec == ServerInit /\ [][ServerNext]_serverVars

-----------------------------------------------------------------------------

\* One of the requests is of c, when it was client n, for events of that name.
AskedFor(requests, c, name, n) ==
    \E p \in Pattern : name \in Covers[p] /\ <<c, p, n>> \in requests

\* The two parts of OwnTraffic
OwnEvents ==
    \A k \in DOMAIN wire : AskedFor(asked, to[k], wire[k].event, wire[k].payload.for)
OwnAnswers == \A a \in answers : a[1] = a[2]

\* What a client gets is its own: an event written to it matches a subscription of its
\* own, and happened after that; an answer is to one of its requests.  Neither
\* the read loop nor the bus knows which client it has.  This needs that the poll
\* sees a client go before the next one comes (Churn = "alone").
\* Violated when a second client attaches before the first goes (ServerTakeover.cfg): it
\* inherits the subscriptions of the first, against docs/architecture.md, "a client
\* disconnect clears client-specific event subscriptions, timers, and queued events".
OwnTraffic == OwnEvents /\ OwnAnswers
=============================================================================
