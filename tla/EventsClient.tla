---------------------------- MODULE EventsClient ----------------------------
(***************************************************************************)
(* The event side of a client, namespaces/events.py: the bounded queue,    *)
(* the async iterator with any number of consumers, the callback tasks,    *)
(* and close(), called by the application, by one of its callbacks, or by  *)
(* the reader when the connection is lost and auto_reconnect is off.       *)
(* (The subscriptions are in SubscriptionMemory, the transport in          *)
(* Connection.)                                                            *)
(*                                                                         *)
(* An event is the number of its arrival, which is history: "received",    *)
(* "lost", "ignored" and "taken" are not kept by the program.              *)
(***************************************************************************)
EXTENDS Naturals, FiniteSets, Sequences, SequencesExt

CONSTANTS
    Consumer,       \* tasks that iterate over the events
    Handler,        \* callbacks of the application
    QueueSize,      \* queue_size
    Closed,         \* _EVENTS_CLOSED
    Application,    \* closes the client with MacAPI.close()
    Reader,         \* the reader task of a lost connection
    None,
    MaxEvents       \* bound on the events received

ASSUME EventsAssumption ==
    /\ QueueSize \in Nat \ {0}
    /\ MaxEvents \in Nat
    /\ Closed \notin Nat

Event == 1 .. MaxEvents
Task == Handler \X Event

ASSUME TaskAssumption == 
    /\ {Application, Reader, None} \cap Task = {}
    /\ Cardinality({Application, Reader, None}) = 3

VARIABLES
    autoReconnect,  \* auto_reconnect, given to MacAPI
    connected,      \* whether a reader gets events
    over,           \* connection.close() has been called
    disconnecting,  \* a reader has lost its connection and is to call close()
    queue,          \* _queue
    dropped,        \* dropped_events
    handlers,       \* _handlers
    tasks,          \* _handler_tasks: <<handler, event>>, those not yet done
    cancelled,      \* the tasks among them that have still to see a cancellation
    iterating,      \* of each consumer: "idle", "waiting" or "ended"
    phase,          \* of close(): "open", "awaiting", "closed" or "failed"
    closer,         \* who made the call of close() that found _closed unset
    awaited,        \* the tasks that this call waits for
    raises,         \* whether it will then wait for its own task
    received,       \* how many events have come
    lost,           \* the events dropped from the queue
    ignored,        \* the events that came after close()
    taken           \* by each consumer, in order

link == <<autoReconnect, connected, over, disconnecting>>
close == <<phase, closer, awaited, raises>>
history == <<received, lost, ignored, taken>>
vars == <<link, queue, dropped, handlers, tasks, cancelled, iterating, close, history>>

-----------------------------------------------------------------------------

\* Mutants of Put: the newest makes room, or no drop is counted.
PutNewestOut(item) ==
    IF Len(queue) < QueueSize
    THEN queue' = Append(queue, item) /\ UNCHANGED <<dropped, lost>>
    ELSE /\ queue' = Append(Front(queue), item)
         /\ dropped' = dropped + 1
         /\ lost' = lost \cup {Last(queue)}
PutUncounted(item) ==
    IF Len(queue) < QueueSize
    THEN queue' = Append(queue, item) /\ UNCHANGED <<dropped, lost>>
    ELSE /\ queue' = Append(Tail(queue), item)
         /\ lost' = lost \cup {Head(queue)}
         /\ UNCHANGED dropped

\* A full queue gives up its oldest item for the new one, and counts it.
Put(item) ==
    IF Len(queue) < QueueSize
    THEN queue' = Append(queue, item) /\ UNCHANGED <<dropped, lost>>
    ELSE /\ queue' = Append(Tail(queue), item)
         /\ dropped' = dropped + 1
         /\ lost' = lost \cup {Head(queue)}

\* Mutant of IsClosed: the flag is set when the callbacks have ended.
IsClosedLate == phase \in {"closed", "failed"}

\* _closed
IsClosed == phase # "open"

\* on_event(event), called by the reader task
OnEvent ==
    /\ connected
    /\ received < MaxEvents
    /\ received' = received + 1
    /\ IF IsClosed
       THEN /\ ignored' = ignored \cup {received'}
            /\ UNCHANGED <<queue, dropped, tasks, lost>>
       ELSE /\ Put(received')
            /\ tasks' = tasks \cup (handlers \X {received'})
            /\ UNCHANGED ignored
    /\ UNCHANGED <<link, handlers, cancelled, iterating, close, taken>>

SetHandlers(new) ==
    /\ new # handlers
    /\ handlers' = new
    /\ UNCHANGED <<link, queue, dropped, tasks, cancelled, iterating, close, history>>
AddHandler(h) == SetHandlers(handlers \cup {h})
RemoveHandler(h) == SetHandlers(handlers \ {h})

\* A callback returns or raises, unless it is in close(); a cancelled one may do
\* something first.
HandlerEnds(t) ==
    /\ t \in tasks
    /\ ~(phase = "awaiting" /\ closer = t)
    /\ tasks' = tasks \ {t}
    /\ cancelled' = cancelled \ {t}
    /\ UNCHANGED <<link, queue, dropped, handlers, iterating, close, history>>

-----------------------------------------------------------------------------
\* __anext__

Ask(c) ==
    /\ iterating[c] = "idle"
    /\ iterating' = [iterating EXCEPT ![c] = "waiting"]
    /\ UNCHANGED <<link, queue, dropped, handlers, tasks, cancelled, close, history>>

\* Mutant of EndIteration: the marker is not put back.
EndIterationForAll(c) ==
    /\ iterating' = [iterating EXCEPT ![c] = "ended"]
    /\ queue' = Tail(queue)
    /\ UNCHANGED taken

\* The terminal marker goes back into the queue for the other consumers.
EndIteration(c) ==
    /\ iterating' = [iterating EXCEPT ![c] = "ended"]
    /\ queue' = Append(Tail(queue), Closed)
    /\ UNCHANGED taken

TakeEvent(c) ==
    /\ iterating' = [iterating EXCEPT ![c] = "idle"]
    /\ queue' = Tail(queue)
    /\ taken' = [taken EXCEPT ![c] = Append(@, Head(queue))]

Anext(c) ==
    /\ iterating[c] = "waiting"
    /\ queue # <<>>
    /\ IF Head(queue) = Closed THEN EndIteration(c) ELSE TakeEvent(c)
    /\ UNCHANGED <<link, dropped, handlers, tasks, cancelled, close, received, lost, ignored>>

-----------------------------------------------------------------------------
\* close().  It cancels every callback task, and then waits for one after the
\* other, in any order.  A callback that calls it cancels itself, and gets that
\* cancellation where it waits next: if that is for itself, close() takes it for
\* the end of the task and goes on; if it is for another, that one is cancelled
\* once more instead, and to wait for itself later is a RuntimeError.  (Nothing else
\* cancels close() while it waits: asyncio passes the cancellation on to the task
\* waited for, and its end is taken for that of the task.)

\* "who" is the application or the reader of a lost connection.
StartClose(who) ==
    /\ ~IsClosed
    /\ phase' = "awaiting"
    /\ closer' = who
    /\ cancelled' = tasks
    /\ awaited' = tasks
    /\ raises' = FALSE

ApplicationCloses ==
    /\ StartClose(Application)
    /\ UNCHANGED <<link, queue, dropped, handlers, tasks, iterating, history>>

\* _on_disconnected
ReaderCloses ==
    /\ disconnecting
    /\ disconnecting' = FALSE
    /\ IF IsClosed THEN UNCHANGED <<close, cancelled>> ELSE StartClose(Reader)
    /\ UNCHANGED <<autoReconnect, connected, over, queue, dropped, handlers, tasks, iterating,
                   history>>

CallbackCloses(t) ==
    /\ ~IsClosed
    /\ t \in tasks
    /\ phase' = "awaiting"
    /\ closer' = t
    /\ cancelled' = tasks \ {t}
    /\ \/ awaited' = tasks \ {t} /\ raises' = FALSE
       \/ \E first \in (SUBSET (tasks \ {t})) \ {{}} : awaited' = first /\ raises' = TRUE
    /\ UNCHANGED <<link, queue, dropped, handlers, tasks, iterating, history>>

\* Every task waited for has ended: the terminal marker is queued, and MacAPI.close
\* goes on to connection.close().
FinishClose ==
    /\ phase = "awaiting"
    /\ tasks \cap awaited = {}
    /\ ~raises
    /\ Put(Closed)
    /\ phase' = "closed"
    /\ over' = (over \/ closer # Reader)
    /\ connected' = (connected /\ closer = Reader)
    /\ UNCHANGED <<autoReconnect, disconnecting, handlers, tasks, cancelled, iterating, closer,
                   awaited, raises, received, ignored, taken>>

\* close() raises in the callback that called it; _run_handler logs that.
FailClose ==
    /\ phase = "awaiting"
    /\ tasks \cap awaited = {}
    /\ raises
    /\ phase' = "failed"
    /\ UNCHANGED <<link, queue, dropped, handlers, tasks, cancelled, iterating, closer,
                   awaited, raises, history>>

\* A later MacAPI.close(): events.close() returns at once, though the first call
\* may still be waiting.
CloseAgain ==
    /\ IsClosed
    /\ ~over
    /\ over' = TRUE
    /\ connected' = FALSE
    /\ UNCHANGED <<autoReconnect, disconnecting, queue, dropped, handlers, tasks, cancelled,
                   iterating, close, history>>

-----------------------------------------------------------------------------
\* The connection, as far as events go

\* connect(), or the reconnect loop
Connect ==
    /\ ~connected
    /\ ~over
    /\ connected' = TRUE
    /\ UNCHANGED <<autoReconnect, over, disconnecting, queue, dropped, handlers, tasks,
                   cancelled, iterating, close, history>>

\* _handle_disconnect
Lose ==
    /\ connected
    /\ connected' = FALSE
    /\ disconnecting' = (disconnecting \/ ~autoReconnect)
    /\ UNCHANGED <<autoReconnect, over, queue, dropped, handlers, tasks, cancelled, iterating,
                   close, history>>

-----------------------------------------------------------------------------

Init ==
    /\ autoReconnect \in BOOLEAN
    /\ connected = FALSE
    /\ over = FALSE
    /\ disconnecting = FALSE
    /\ queue = <<>>
    /\ dropped = 0
    /\ handlers = {}
    /\ tasks = {}
    /\ cancelled = {}
    /\ iterating = [c \in Consumer |-> "idle"]
    /\ phase = "open"
    /\ closer = None
    /\ awaited = {}
    /\ raises = FALSE
    /\ received = 0
    /\ lost = {}
    /\ ignored = {}
    /\ taken = [c \in Consumer |-> <<>>]

Next ==
    \/ OnEvent
    \/ \E h \in Handler : AddHandler(h) \/ RemoveHandler(h)
    \/ \E t \in Task : HandlerEnds(t) \/ CallbackCloses(t)
    \/ \E c \in Consumer : Ask(c) \/ Anext(c)
    \/ ApplicationCloses
    \/ ReaderCloses
    \/ FinishClose
    \/ FailClose
    \/ CloseAgain
    \/ Connect
    \/ Lose

Spec == Init /\ [][Next]_vars

\* Tasks run when they can, a cancelled callback comes to an end, and woken
\* consumers get their turn.  Nothing ends a callback that is not cancelled.
Fairness ==
    /\ \A t \in Task : WF_vars(t \in cancelled /\ HandlerEnds(t))
    /\ \A c \in Consumer : WF_vars(Anext(c))
    /\ WF_vars(ReaderCloses)
    /\ WF_vars(FinishClose)
    /\ WF_vars(FailClose)

FairSpec == Spec /\ Fairness

-----------------------------------------------------------------------------

\* The queue is bounded, and holds the terminal marker at most once and last.
TypeOK ==
    /\ {autoReconnect, connected, over, disconnecting, raises} \subseteq BOOLEAN
    /\ queue \in Seq(Event \cup {Closed}) /\ Len(queue) <= QueueSize
    /\ \A i \in 1 .. Len(queue) - 1 : queue[i] # Closed
    /\ dropped \in Nat
    /\ handlers \subseteq Handler
    /\ tasks \subseteq Task
    /\ cancelled \subseteq tasks
    /\ iterating \in [Consumer -> {"idle", "waiting", "ended"}]
    /\ phase \in {"open", "awaiting", "closed", "failed"}
    /\ closer \in {Application, Reader, None} \cup Task
    /\ awaited \subseteq Task
    /\ received \in 0 .. MaxEvents
    /\ lost \subseteq Event
    /\ ignored \subseteq Event
    /\ taken \in [Consumer -> Seq(Event)]

Queued == {queue[i] : i \in DOMAIN queue} \ {Closed}
Taken == UNION {{taken[c][i] : i \in DOMAIN taken[c]} : c \in Consumer}

AllAccounted == Queued \cup Taken \cup lost \cup ignored = 1 .. received

\* No event is in two places, or twice in one.
OnePlace ==
    /\ \A i, j \in DOMAIN queue : queue[i] = queue[j] => i = j
    /\ \A c, d \in Consumer : \A i \in DOMAIN taken[c], j \in DOMAIN taken[d] :
          taken[c][i] = taken[d][j] => c = d /\ i = j
    /\ Queued \cap (Taken \cup lost) = {}
    /\ Taken \cap lost = {}
    /\ ignored \cap (Queued \cup Taken \cup lost) = {}

\* Every event that was received is in the queue, which keeps its bound, with
\* exactly one consumer, or counted in dropped_events: none is lost in silence or
\* handed out twice.  Only what comes after close(), on a connection that was made
\* again, is ignored.
EveryEventAccounted ==
    /\ Len(queue) <= QueueSize
    /\ AllAccounted
    /\ OnePlace
    /\ dropped = Cardinality(lost)
    /\ ignored # {} => IsClosed

\* Consumers see events in the order of arrival, and what is queued is newer
\* than anything that was dropped or handed out before, and older than what is
\* ignored.
InOrder ==
    /\ \A c \in Consumer : \A i \in 1 .. Len(taken[c]) - 1 :
          taken[c][i] < taken[c][i + 1]
    /\ \A e \in Queued, d \in Taken \cup lost : d < e
    /\ \A e \in ignored, d \in Queued \cup Taken \cup lost : d < e

\* "Callback tasks are canceled during client shutdown": when the close() that does
\* the work returns, no callback runs but one that called it, and none is ever
\* started again; when it fails, those left are cancelled.
CallbacksEnd ==
    /\ phase = "closed" => tasks \subseteq {closer}
    /\ phase = "failed" => tasks \subseteq cancelled \cup {closer}

\* After close() no consumer is left waiting, whether one or several iterate and
\* whether they asked before or after: each gets an event that was still queued or
\* StopAsyncIteration.  It may fail in a callback (see ClosingWakes).
ConsumersWoken ==
    \A c \in Consumer :
        IsClosed /\ iterating[c] = "waiting" ~> iterating[c] # "waiting" \/ phase = "failed"

\* Violated (EventsClientSelf.cfg).  "MacAPI.close() wakes a blocked iterator with
\* StopAsyncIteration after canceling callback tasks": also if a callback calls it.
ClosingWakes ==
    \A c \in Consumer : IsClosed /\ iterating[c] = "waiting" ~> iterating[c] # "waiting"
=============================================================================
