----------------------------- MODULE Connection -----------------------------
(***************************************************************************)
(* SocketConnection of hammerspoon_macapi/connection.py: connect, close,   *)
(* call, the reader task of each transport, and the reconnect loop.        *)
(*                                                                         *)
(* An action is what one asyncio task does between two points where it     *)
(* waits.  The pc of a task says what it waits for.  A transport is one    *)
(* opened socket with its reader, writer and reader task; its name is also *)
(* the id of its handshake request.  The server is the environment.        *)
(***************************************************************************)
EXTENDS Naturals, FiniteSets

CONSTANTS
    Call,               \* the application's RPC calls, each made once
    Transport,          \* names of sockets, used again once they are free
    None,
    AutoReconnect,      \* auto_reconnect
    MaxConnects,        \* bound on the application's calls of connect()
    ConnectAlone,       \* it calls connect() only while no reconnect loop runs
                        \* and no transport is being dropped
    Cancels,            \* a call is cancelled "never", "waiting" or "any" time
    Flaky               \* a server that is up may still exceed a timeout, or
                        \* refuse a handshake

ASSUME TransportAssumption ==
    /\ Call \cap Transport = {}
    /\ None \notin Call \cup Transport \cup {"user", "loop"}
ASSUME SwitchAssumption ==
    /\ {AutoReconnect, ConnectAlone, Flaky} \subseteq BOOLEAN
    /\ MaxConnects \in Nat
    /\ Cancels \in {"never", "waiting", "any"}

Request == Call \cup Transport

VARIABLES
    \* the attributes of SocketConnection
    connState,      \* _state
    closing,        \* _closing
    connectedEvent, \* _connected_event
    transport,      \* _reader, _writer and _reader_task
    pending,        \* the ids in _pending
    lock,           \* which task holds _connect_lock
    \* the tasks
    user, userOn,       \* connect(), and the transport it negotiates on
    loop, loopOn,       \* _reconnect_task, likewise
    loopCancelled,      \* close() has cancelled it
    closer,             \* close()
    reader,             \* of each transport
    call, callOn,       \* each call(), and the writer it picked up
    future,             \* of each request: "none", "response" or "error"
    connects,
    \* the server
    up,             \* it accepts and answers
    peer,           \* its end of each transport
    unanswered,     \* requests written to each transport
    inbox           \* responses each transport's reader has still to read

attributes == <<connState, closing, connectedEvent, transport, pending, lock>>
server == <<up, peer, unanswered, inbox>>
connectTasks == <<user, userOn, loop, loopOn, loopCancelled, connects>>
vars == <<attributes, connectTasks, closer, reader, call, callOn, future, server>>

-----------------------------------------------------------------------------
\* Scheduling

\* A future is resolved, a reader cancelled or the writer that a call drains
\* closed, and the task has not run yet.
Handshaking(pc, on) == pc = "handshake" /\ future[on] # "none"
SomeTaskReady ==
    \/ \E t \in Transport : reader[t] = "cancelled"
    \/ \E c \in Call : call[c] = "awaiting" /\ future[c] # "none"
    \/ \E c \in Call : /\ call[c] = "drain"
                       /\ callOn[c] # transport /\ peer[callOn[c]] = "closed"
    \/ Handshaking(user, userOn)
    \/ Handshaking(loop, loopOn)

\* Waits that end with an event of the operating system (an opened or closed
\* socket, a timer) take at least one more turn of the event loop than tasks
\* that were ready before.
Turn == ~SomeTaskReady

\* Opening t and its handshake take two turns to connect and three for the
\* answer to be read, and a drop at most four (two for its reader to end, two for
\* its writer to close): the drops that began before t was opened are over.
EarlierDropsOver(t) ==
    /\ \A u \in Transport \ {t} : reader[u] \notin {"lost", "ending"}
    /\ \A c \in Call : call[c] \in {"lost", "ending"} => callOn[c] = t

NoDrop ==
    /\ \A t \in Transport : reader[t] \notin {"lost", "ending"}
    /\ \A c \in Call : call[c] \notin {"lost", "ending"}

\* A delay of the reconnect loop, 0.1 s at least, outlasts every drop.
Delay == Turn /\ NoDrop

-----------------------------------------------------------------------------
\* _drop_transport(error), up to its first await.  self is the reader that
\* drops, or None: another reader is cancelled.

\* Mutants of Drop: pending futures are left alone, or forgotten unresolved.
DropKeepsPending ==
    /\ transport' = None
    /\ connectedEvent' = FALSE
    /\ UNCHANGED <<pending, future>>
DropForgetsPending ==
    /\ transport' = None
    /\ connectedEvent' = FALSE
    /\ pending' = {}
    /\ UNCHANGED future

\* Its effect on the attributes: the transport is taken, pending futures fail.
Drop ==
    /\ transport' = None
    /\ connectedEvent' = FALSE
    /\ pending' = {}
    /\ future' = [r \in Request |-> IF r \in pending THEN "error" ELSE future[r]]

\* The writer is closed: the server sees the connection end.  The code awaits the cancelled
\* reader first, which reads nothing more of this socket.
CloseWriter ==
    peer' = [t \in Transport |-> IF t = transport THEN "closed" ELSE peer[t]]

\* Mutant of Readers: the reader task of the transport is not cancelled.
ReadersLeftRunning(self, pc) == [t \in Transport |-> IF t = self THEN pc ELSE reader[t]]

\* The readers, where task self goes on to pc.
Readers(self, pc) ==
    [t \in Transport |->
        IF t = self THEN pc
        ELSE IF t = transport /\ reader[t] = "reading" THEN "cancelled"
        ELSE reader[t]]

\* Mutant of AfterDrop: a reconnect task that has ended is taken for a running one.
AfterDropOnce ==
    /\ connState' = IF AutoReconnect THEN "reconnecting" ELSE "disconnected"
    /\ loop' = IF AutoReconnect /\ loop = "none" THEN "start" ELSE loop

\* _handle_disconnect(error) after the transport has been dropped
AfterDrop ==
    /\ connState' = IF AutoReconnect THEN "reconnecting" ELSE "disconnected"
    /\ loop' = IF AutoReconnect /\ loop \in {"none", "done"} THEN "start" ELSE loop

-----------------------------------------------------------------------------
\* _connect_once(), for the task that holds the lock

IsFree(t) ==
    /\ reader[t] \in {"none", "done"}
    /\ transport # t
    /\ t \notin {userOn, loopOn}
    /\ \A c \in Call : callOn[c] = t => call[c] = "done"

\* call() refuses to write in other states.
CanCall == connState \in {"connected", "connecting", "reconnecting"}

\* The socket is open: reader, writer and reader task are set, and the
\* capability request is written.  The request stands for both of the handshake, the second
\* of which is the replay of the subscriptions (SubscriptionMemory has the two).
OpenSocket(t) ==
    /\ up
    /\ IsFree(t)
    /\ transport' = t
    /\ reader' = [reader EXCEPT ![t] = "reading"]
    /\ peer' = [peer EXCEPT ![t] = "open"]
    /\ inbox' = [inbox EXCEPT ![t] = {}]
    /\ future' = [future EXCEPT ![t] = "none"]
    /\ pending' = pending \cup {t}
    /\ unanswered' = [unanswered EXCEPT ![t] = {t}]

\* The same in a state in which call() raises: the socket is closed at once.
OpenInVain(t) ==
    /\ up
    /\ IsFree(t)
    /\ reader' = [reader EXCEPT ![t] = "cancelled"]
    /\ peer' = [peer EXCEPT ![t] = "closed"]
    /\ inbox' = [inbox EXCEPT ![t] = {}]
    /\ unanswered' = [unanswered EXCEPT ![t] = {}]
    /\ Drop

\* A response that is not there in time, or a cancelled connect().
MayGiveUp(t) ==
    /\ future[t] = "none"
    /\ Flaky \/ ~up

-----------------------------------------------------------------------------
\* connect()

\* Entered with the lock free.
EnterConnect ==
    IF connState = "connected" \/ closing
    THEN /\ user' = "idle"
         /\ UNCHANGED <<connState, lock>>
    ELSE /\ user' = "open"
         /\ lock' = "user"
         /\ connState' = "connecting"

StartConnect ==
    /\ user = "idle"
    /\ connects < MaxConnects
    /\ ConnectAlone => loop \in {"none", "done"} /\ NoDrop
    /\ connects' = connects + 1
    /\ IF lock = None THEN EnterConnect
       ELSE user' = "lock" /\ UNCHANGED <<connState, lock>>
    /\ UNCHANGED <<closing, connectedEvent, transport, pending, userOn, loop,
                   loopOn, loopCancelled, closer, reader, call, callOn, future,
                   server>>

UserGetsLock ==
    /\ user = "lock"
    /\ lock = None
    /\ EnterConnect
    /\ UNCHANGED <<closing, connectedEvent, transport, pending, userOn, loop,
                   loopOn, loopCancelled, connects, closer, reader, call,
                   callOn, future, server>>

\* connect() raises.  (Its own _drop_transport finds nothing left to drop.)
RaiseFromConnect ==
    /\ user' = "idle"
    /\ userOn' = None
    /\ lock' = None
    /\ connState' = "disconnected"

\* Raised at once, or when the transport is closed.
AbandonConnect ==
    /\ Drop
    /\ CloseWriter
    /\ reader' = Readers(None, None)
    /\ IF transport = None
       THEN RaiseFromConnect
       ELSE user' = "drop" /\ UNCHANGED <<userOn, lock, connState>>

UserOpenFails ==
    /\ user = "open"
    /\ Turn
    /\ ~up
    /\ AbandonConnect
    /\ UNCHANGED <<closing, loop, loopOn, loopCancelled, connects, closer,
                   call, callOn, up, unanswered, inbox>>

UserOpens(t) ==
    /\ user = "open"
    /\ Turn
    /\ IF CanCall
       THEN /\ OpenSocket(t)
            /\ user' = "handshake"
            /\ UNCHANGED connectedEvent
       ELSE /\ OpenInVain(t)
            /\ user' = "drop"
    /\ userOn' = t
    /\ UNCHANGED <<connState, closing, lock, loop, loopOn, loopCancelled,
                   connects, closer, call, callOn, up>>

UserHandshakeDone ==
    /\ user = "handshake"
    /\ future[userOn] = "response"
    /\ user' = "idle"
    /\ userOn' = None
    /\ lock' = None
    /\ connState' = "connected"
    /\ connectedEvent' = TRUE
    /\ UNCHANGED <<closing, transport, pending, loop, loopOn, loopCancelled,
                   connects, closer, reader, call, callOn, future, server>>

\* The future failed, the capabilities were refused, or the wait was given up.
UserHandshakeFails ==
    /\ user = "handshake"
    /\ future[userOn] # "none" \/ MayGiveUp(userOn)
    /\ future[userOn] = "response" => Flaky
    /\ AbandonConnect
    /\ UNCHANGED <<closing, loop, loopOn, loopCancelled, connects, closer,
                   call, callOn, up, unanswered, inbox>>

UserDropped ==
    /\ user = "drop"
    /\ Turn
    /\ RaiseFromConnect
    /\ UNCHANGED <<closing, connectedEvent, transport, pending, loop, loopOn,
                   loopCancelled, connects, closer, reader, call, callOn,
                   future, server>>

-----------------------------------------------------------------------------
\* _reconnect_loop()

AtLoopTop ==
    /\ \/ loop = "start"
       \/ loop = "lock" /\ lock = None
       \/ loop = "sleep" /\ Delay
    /\ ~loopCancelled
    /\ UNCHANGED <<connState, closing, connectedEvent, transport, pending,
                   user, userOn, loopOn, loopCancelled, connects, closer,
                   reader, call, callOn, future, server>>

\* Mutant of LoopEnters: _closing is not looked at.
LoopEntersClosing ==
    /\ AtLoopTop
    /\ IF lock = None THEN loop' = "open" /\ lock' = "loop"
       ELSE loop' = "lock" /\ UNCHANGED lock

\* The top of the loop, and the re-check under the lock.
LoopEnters ==
    /\ AtLoopTop
    /\ IF closing THEN loop' = "done" /\ UNCHANGED lock
       ELSE IF lock = None THEN loop' = "open" /\ lock' = "loop"
       ELSE loop' = "lock" /\ UNCHANGED lock

LoopOpenFails ==
    /\ loop = "open"
    /\ ~loopCancelled
    /\ Turn
    /\ ~up
    /\ loop' = "sleep"
    /\ lock' = None
    /\ UNCHANGED <<connState, closing, connectedEvent, transport, pending,
                   user, userOn, loopOn, loopCancelled, connects, closer,
                   reader, call, callOn, future, server>>

LoopOpens(t) ==
    /\ loop = "open"
    /\ ~loopCancelled
    /\ Turn
    /\ IF CanCall
       THEN /\ OpenSocket(t)
            /\ loop' = "handshake"
            /\ UNCHANGED connectedEvent
       ELSE /\ OpenInVain(t)
            /\ loop' = "drop"
    /\ loopOn' = t
    /\ UNCHANGED <<connState, closing, lock, user, userOn, loopCancelled,
                   connects, closer, call, callOn, up>>

\* With the response there, wait_for lets a cancellation pass unnoticed.
LoopHandshakeDone ==
    /\ loop = "handshake"
    /\ future[loopOn] = "response"
    /\ loop' = "done"
    /\ loopOn' = None
    /\ loopCancelled' = FALSE
    /\ lock' = None
    /\ connState' = "connected"
    /\ connectedEvent' = TRUE
    /\ UNCHANGED <<closing, transport, pending, user, userOn, connects, closer,
                   reader, call, callOn, future, server>>

\* With nothing to drop the loop goes to sleep at once, or ends if cancelled.
LoopHandshakeFails ==
    /\ loop = "handshake"
    /\ loopCancelled \/ future[loopOn] # "none" \/ MayGiveUp(loopOn)
    /\ future[loopOn] = "response" => Flaky \/ loopCancelled
    /\ Drop
    /\ CloseWriter
    /\ reader' = Readers(None, None)
    /\ IF transport # None
       THEN loop' = "drop" /\ UNCHANGED <<loopOn, lock>>
       ELSE /\ loop' = IF loopCancelled THEN "done" ELSE "sleep"
            /\ loopOn' = None
            /\ lock' = None
    /\ UNCHANGED <<connState, closing, user, userOn, loopCancelled, connects,
                   closer, call, callOn, up, unanswered, inbox>>

\* _drop_transport suppresses a cancellation that reaches it while it waits.
LoopDropped ==
    /\ loop = "drop"
    /\ Turn
    /\ loop' \in IF loopCancelled THEN {"done", "sleep"} ELSE {"sleep"}
    /\ loopOn' = None
    /\ loopCancelled' = FALSE
    /\ lock' = None
    /\ UNCHANGED <<connState, closing, connectedEvent, transport, pending,
                   user, userOn, connects, closer, reader, call, callOn,
                   future, server>>

LoopIsCancelled ==
    /\ loopCancelled
    /\ loop \in {"start", "lock", "open", "sleep"}
    /\ loop' = "done"
    /\ lock' = IF loop = "open" THEN None ELSE lock
    /\ UNCHANGED <<connState, closing, connectedEvent, transport, pending,
                   user, userOn, loopOn, loopCancelled, connects, closer,
                   reader, call, callOn, future, server>>

-----------------------------------------------------------------------------
\* close()

DropForClose ==
    /\ Drop
    /\ CloseWriter
    /\ reader' = Readers(None, None)
    /\ IF transport = None
       THEN closer' = "done" /\ connState' = "disconnected"
       ELSE closer' = "drop" /\ connState' = "closing"

StartClose ==
    /\ closer = "idle"
    /\ closing' = TRUE
    /\ IF loop \in {"none", "done"}
       THEN DropForClose /\ loop' = "none" /\ UNCHANGED loopCancelled
       ELSE /\ closer' = "awaitLoop"
            /\ connState' = "closing"
            /\ connectedEvent' = FALSE
            /\ loopCancelled' = TRUE
            /\ UNCHANGED <<transport, pending, future, peer, reader, loop>>
    /\ UNCHANGED <<lock, user, userOn, loopOn, connects, call, callOn, up,
                   unanswered, inbox>>

CloserLoopEnded ==
    /\ closer = "awaitLoop"
    /\ loop = "done"
    /\ loop' = "none"
    /\ loopCancelled' = FALSE
    /\ DropForClose
    /\ UNCHANGED <<closing, lock, user, userOn, loopOn, connects, call, callOn,
                   up, unanswered, inbox>>

CloserDropped ==
    /\ closer = "drop"
    /\ Turn
    /\ closer' = "done"
    /\ connState' = "disconnected"
    /\ connectedEvent' = FALSE
    /\ UNCHANGED <<closing, transport, pending, lock, connectTasks, reader,
                   call, callOn, future, server>>

-----------------------------------------------------------------------------
\* _reader_loop()

\* A response resolves the future of its id, if that is still pending.
ReaderResponse(t, r) ==
    /\ reader[t] = "reading"
    /\ r \in inbox[t]
    /\ r = t => EarlierDropsOver(t)
    /\ inbox' = [inbox EXCEPT ![t] = @ \ {r}]
    /\ pending' = pending \ {r}
    /\ future' = [future EXCEPT ![r] = IF r \in pending THEN "response" ELSE @]
    /\ UNCHANGED <<connState, closing, connectedEvent, transport, lock,
                   connectTasks, closer, reader, call, callOn, up, peer,
                   unanswered>>

\* The end of the stream: _handle_disconnect.  Without a transport to drop it
\* does not wait.
ReaderEof(t) ==
    /\ reader[t] = "reading"
    /\ inbox[t] = {}
    /\ peer[t] = "closed"
    /\ Drop
    /\ CloseWriter
    /\ IF transport # None
       THEN /\ reader' = Readers(t, IF closing THEN "ending" ELSE "lost")
            /\ UNCHANGED <<connState, loop>>
       ELSE /\ reader' = Readers(t, "done")
            /\ IF closing THEN UNCHANGED <<connState, loop>> ELSE AfterDrop
    /\ UNCHANGED <<closing, lock, user, userOn, loopOn, loopCancelled, connects,
                   closer, call, callOn, up, unanswered, inbox>>

\* The writer is closed.  Whether the connection is closing was read before.
ReaderDropped(t) ==
    /\ reader[t] \in {"lost", "ending"}
    /\ Turn
    /\ reader' = [reader EXCEPT ![t] = "done"]
    /\ IF reader[t] = "lost" THEN AfterDrop ELSE UNCHANGED <<connState, loop>>
    /\ connectedEvent' =
          (connectedEvent /\ (reader[t] = "lost" => AutoReconnect))
    /\ UNCHANGED <<closing, transport, pending, lock, user, userOn, loopOn,
                   loopCancelled, connects, closer, call, callOn, future,
                   server>>

ReaderIsCancelled(t) ==
    /\ reader[t] = "cancelled"
    /\ reader' = [reader EXCEPT ![t] = "done"]
    /\ UNCHANGED <<attributes, connectTasks, closer, call, callOn, future,
                   server>>

-----------------------------------------------------------------------------
\* call()

\* The request is registered before it is written.  Only one call at a time
\* holds _write_lock, while it drains; drain may also return at once.
Written(c, pc) ==
    /\ pc \in {"drain", "awaiting"}
    /\ call' = [call EXCEPT ![c] = pc]
    /\ unanswered' = [unanswered EXCEPT ![transport] = @ \cup {c}]
SomeoneDrains == \E c \in Call : call[c] = "drain"

BeginCall(c, pc) ==
    /\ call[c] = "idle"
    /\ CanCall
    /\ pending' = pending \cup {c}
    /\ callOn' = [callOn EXCEPT ![c] = transport]
    /\ IF SomeoneDrains
       THEN call' = [call EXCEPT ![c] = "lock"] /\ UNCHANGED unanswered
       ELSE Written(c, pc)
    /\ UNCHANGED <<connState, closing, connectedEvent, transport, lock,
                   connectTasks, closer, reader, future, up, peer, inbox>>

StartCall(c, pc) ==
    /\ transport # None
    /\ BeginCall(c, pc)

\* The writer may have changed while the call waited for the lock.
CallGetsLock(c, pc) ==
    /\ call[c] = "lock"
    /\ ~SomeoneDrains
    /\ IF callOn[c] = transport
       THEN Written(c, pc) /\ UNCHANGED pending
       ELSE /\ pending' = pending \ {c}
            /\ call' = [call EXCEPT ![c] = "done"]
            /\ UNCHANGED unanswered
    /\ UNCHANGED <<connState, closing, connectedEvent, transport, lock,
                   connectTasks, closer, reader, callOn, future, up, peer,
                   inbox>>

\* drain() may return although the socket has been closed, on either side.
CallDrained(c) ==
    /\ call[c] = "drain"
    /\ call' = [call EXCEPT ![c] = "awaiting"]
    /\ UNCHANGED <<attributes, connectTasks, closer, reader, callOn, future,
                   server>>

\* drain() raises OSError: the call handles the disconnect, as the reader does.
CallWriteFails(c) ==
    /\ call[c] = "drain"
    /\ peer[callOn[c]] = "closed"
    /\ Drop
    /\ CloseWriter
    /\ reader' = Readers(None, None)
    /\ IF transport # None
       THEN /\ call' = [call EXCEPT ![c] = IF closing THEN "ending" ELSE "lost"]
            /\ UNCHANGED <<connState, loop>>
       ELSE /\ call' = [call EXCEPT ![c] = "done"]
            /\ IF closing THEN UNCHANGED <<connState, loop>> ELSE AfterDrop
    /\ UNCHANGED <<closing, lock, user, userOn, loopOn, loopCancelled, connects,
                   closer, callOn, up, unanswered, inbox>>

CallDropped(c) ==
    /\ call[c] \in {"lost", "ending"}
    /\ Turn
    /\ call' = [call EXCEPT ![c] = "done"]
    /\ IF call[c] = "lost" THEN AfterDrop ELSE UNCHANGED <<connState, loop>>
    /\ connectedEvent' = (connectedEvent /\ (call[c] = "lost" => AutoReconnect))
    /\ UNCHANGED <<closing, transport, pending, lock, user, userOn, loopOn,
                   loopCancelled, connects, closer, reader, callOn, future,
                   server>>

CallEnds(c, ids) ==
    /\ call' = [call EXCEPT ![c] = "done"]
    /\ pending' = ids
    /\ UNCHANGED <<connState, closing, connectedEvent, transport, lock,
                   connectTasks, closer, reader, callOn, future, server>>

CallReturns(c) ==
    /\ call[c] = "awaiting"
    /\ future[c] # "none"
    /\ CallEnds(c, pending)

\* Mutant of CallTimesOut: the entry stays registered.
CallTimesOutPending(c) ==
    /\ call[c] = "awaiting"
    /\ MayGiveUp(c)
    /\ CallEnds(c, pending)

CallTimesOut(c) ==
    /\ call[c] = "awaiting"
    /\ MayGiveUp(c)
    /\ CallEnds(c, pending \ {c})

\* A cancellation while the response is awaited, and one before: that is caught
\* by no clause of call().
CallCancelled(c) ==
    \/ /\ Cancels # "never"
       /\ call[c] = "awaiting"
       /\ CallEnds(c, pending \ {c})
    \/ /\ Cancels = "any"
       /\ call[c] \in {"lock", "drain"}
       /\ CallEnds(c, pending)

-----------------------------------------------------------------------------
\* The server

Answer(t, r) ==
    /\ up
    /\ peer[t] = "open"
    /\ r \in unanswered[t]
    /\ unanswered' = [unanswered EXCEPT ![t] = @ \ {r}]
    /\ inbox' = [inbox EXCEPT ![t] = @ \cup {r}]
    /\ UNCHANGED <<attributes, connectTasks, closer, reader, call, callOn,
                   future, up, peer>>

\* Hammerspoon stops or reloads: every connection is closed.
ServerStops ==
    /\ up
    /\ up' = FALSE
    /\ peer' = [t \in Transport |-> "closed"]
    /\ unanswered' = [t \in Transport |-> {}]
    /\ UNCHANGED <<attributes, connectTasks, closer, reader, call, callOn,
                   future, inbox>>

ServerStarts ==
    /\ ~up
    /\ up' = TRUE
    /\ UNCHANGED <<attributes, connectTasks, closer, reader, call, callOn,
                   future, peer, unanswered, inbox>>

-----------------------------------------------------------------------------

Init ==
    /\ connState = "disconnected"
    /\ closing = FALSE
    /\ connectedEvent = FALSE
    /\ transport = None
    /\ pending = {}
    /\ lock = None
    /\ user = "idle"
    /\ userOn = None
    /\ loop = "none"
    /\ loopOn = None
    /\ loopCancelled = FALSE
    /\ closer = "idle"
    /\ reader = [t \in Transport |-> "none"]
    /\ call = [c \in Call |-> "idle"]
    /\ callOn = [c \in Call |-> None]
    /\ future = [r \in Request |-> "none"]
    /\ connects = 0
    /\ up \in BOOLEAN
    /\ peer = [t \in Transport |-> "closed"]
    /\ unanswered = [t \in Transport |-> {}]
    /\ inbox = [t \in Transport |-> {}]

UserStep ==
    \/ UserGetsLock \/ UserOpenFails \/ UserHandshakeDone
    \/ UserHandshakeFails \/ UserDropped
    \/ \E t \in Transport : UserOpens(t)
LoopStep ==
    \/ LoopEnters \/ LoopOpenFails \/ LoopHandshakeDone \/ LoopHandshakeFails
    \/ LoopDropped \/ LoopIsCancelled
    \/ \E t \in Transport : LoopOpens(t)
CloserStep == CloserLoopEnded \/ CloserDropped
ReaderStep(t) ==
    \/ ReaderEof(t) \/ ReaderDropped(t) \/ ReaderIsCancelled(t)
    \/ \E r \in Request : ReaderResponse(t, r)
CallStep(c) ==
    \/ \E pc \in {"drain", "awaiting"} : CallGetsLock(c, pc)
    \/ CallDrained(c) \/ CallWriteFails(c) \/ CallDropped(c) \/ CallReturns(c)
    \/ CallTimesOut(c)

Next ==
    \/ StartConnect \/ UserStep
    \/ LoopStep
    \/ StartClose \/ CloserStep
    \/ \E t \in Transport : ReaderStep(t)
    \/ \E c \in Call :
        \/ \E pc \in {"drain", "awaiting"} : StartCall(c, pc)
        \/ CallStep(c)
        \/ CallCancelled(c)
    \/ \E t \in Transport, r \in Request : Answer(t, r)
    \/ ServerStops \/ ServerStarts

Spec == Init /\ [][Next]_vars

\* The event loop runs every task that can run, and a server that is up reads
\* and answers.
Fairness ==
    /\ WF_vars(UserStep)
    /\ WF_vars(LoopStep)
    /\ WF_vars(CloserStep)
    /\ \A t \in Transport : WF_vars(ReaderStep(t))
    /\ \A c \in Call : WF_vars(CallStep(c))
    /\ \A t \in Transport : WF_vars(\E r \in Request : Answer(t, r))

FairSpec == Spec /\ Fairness

-----------------------------------------------------------------------------
\* Properties

TypeOK ==
    /\ connState \in {"disconnected", "connecting", "connected",
                      "reconnecting", "closing"}
    /\ {closing, connectedEvent, loopCancelled, up} \subseteq BOOLEAN
    /\ {transport, userOn, loopOn} \subseteq Transport \cup {None}
    /\ pending \subseteq Request
    /\ lock \in {None, "user", "loop"}
    /\ user \in {"idle", "lock", "open", "handshake", "drop"}
    /\ loop \in {"none", "start", "lock", "open", "handshake", "drop", "sleep",
                 "done"}
    /\ closer \in {"idle", "awaitLoop", "drop", "done"}
    /\ reader \in [Transport ->
            {"none", "reading", "cancelled", "lost", "ending", "done"}]
    /\ call \in [Call -> {"idle", "lock", "drain", "awaiting", "lost",
                          "ending", "done"}]
    /\ callOn \in [Call -> Transport \cup {None}]
    /\ \A c \in Call : call[c] # "idle" => callOn[c] \in Transport
    /\ future \in [Request -> {"none", "response", "error"}]
    /\ connects \in 0 .. MaxConnects
    /\ peer \in [Transport -> {"open", "closed"}]
    /\ unanswered \in [Transport -> SUBSET Request]
    /\ inbox \in [Transport -> SUBSET Request]

\* Every id that is registered has its request on a transport that is still read:
\* only the connection it was made on resolves a call, and if that is lost its
\* reader fails the call.
PendingIsRead ==
    \A r \in pending :
        reader[IF r \in Transport THEN r ELSE callOn[r]] = "reading"

\* An entry of _pending has a call that still waits for it: "Cancellation and
\* timeout both remove the pending entry".
PendingHasWaiter ==
    \A c \in pending \cap Call : call[c] \in {"lock", "drain", "awaiting"}

\* An entry of _pending is neither beyond the reach of a reader nor without a call.
PendingIsServed == PendingIsRead /\ PendingHasWaiter

\* A call that awaits its response is registered or has its outcome: no drop,
\* timeout or reconnect leaves a call waiting for a response nobody will deliver.
AwaitingIsResolvable ==
    \A c \in Call :
        call[c] = "awaiting" => c \in pending \/ future[c] # "none"

\* "The client has one reader task": no second transport is being read.
OneReader ==
    \A t, u \in Transport : reader[t] = "reading" /\ reader[u] = "reading" => t = u

\* Violated (ConnectionStates.cfg).  wait_until_connected() returns only in state
\* connected.
EventMeansConnected == connectedEvent => connState = "connected"

\* Violated (ConnectionStates.cfg).  State reconnecting means that "background
\* retry is active".
ReconnectingIsRetrying == connState = "reconnecting" => loop \notin {"none", "done"}

\* close() ends, whatever the reader, the loop and the calls are doing, and then
\* everything comes to rest: no transport, no reader, no loop, no pending call,
\* for good.
AtRest ==
    /\ transport = None
    /\ pending = {}
    /\ loop \in {"none", "done"}
    /\ \A t \in Transport : reader[t] \in {"none", "done"}
CloseSettles == closer # "idle" ~> [](closer = "done" /\ AtRest)

\* Every call ends, and none has to wait for its timeout while the server is up:
\* a lost connection fails the calls it carries.
CallsEnd ==
    \A c \in Call : call[c] # "idle" ~> call[c] = "done"

\* With auto_reconnect a client that has once been connected is connected for
\* good from some point on, if the server stays up and the application does not
\* close it.
Usable == connState = "connected" /\ transport # None
Reconnects ==
    <>[]up /\ <>(connState = "connected") => <>[](Usable \/ closing)
=============================================================================
