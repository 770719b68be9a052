-------------------------- MODULE ConnectionProofs --------------------------
(***************************************************************************)
(* Proofs about connection.py: about the tasks of Connection, for any      *)
(* calls and transports, any number of connect() and any behaviour of the  *)
(* server; and about LineReader, through which the reader task reads.      *)
(***************************************************************************)
EXTENDS Connection, LineReader, TLAPS

-----------------------------------------------------------------------------
(***************************************************************************)
(* What TypeOK says of the data, and of the control state.                 *)
(***************************************************************************)
Readings == {"none", "reading", "cancelled", "lost", "ending", "done"}
Progress == {"idle", "lock", "drain", "awaiting", "lost", "ending", "done"}
States == {"disconnected", "connecting", "connected", "reconnecting", "closing"}
UserAt == {"idle", "lock", "open", "handshake", "drop"}
LoopAt == {"none", "start", "lock", "open", "handshake", "drop", "sleep", "done"}
CloserAt == {"idle", "awaitLoop", "drop", "done"}

DataOK ==
    /\ transport \in Transport \cup {None}
    /\ pending \subseteq Request
    /\ reader \in [Transport -> Readings]
    /\ call \in [Call -> Progress]
    /\ callOn \in [Call -> Transport \cup {None}]
    /\ \A c \in Call : call[c] # "idle" => callOn[c] \in Transport
    /\ future \in [Request -> {"none", "response", "error"}]

WireOK ==
    /\ peer \in [Transport -> {"open", "closed"}]
    /\ unanswered \in [Transport -> SUBSET Request]
    /\ inbox \in [Transport -> SUBSET Request]

TasksOK ==
    /\ connState \in States
    /\ lock \in {None, "user", "loop"}
    /\ user \in UserAt
    /\ userOn \in Transport \cup {None}
    /\ loop \in LoopAt
    /\ loopOn \in Transport \cup {None}
    /\ closer \in CloserAt
    /\ connects \in 0 .. MaxConnects

FlagsOK ==
    /\ closing \in BOOLEAN
    /\ connectedEvent \in BOOLEAN
    /\ loopCancelled \in BOOLEAN
    /\ up \in BOOLEAN

LEMMA TypeParts == TypeOK <=> DataOK /\ WireOK /\ TasksOK /\ FlagsOK
<1>1. {closing, connectedEvent, loopCancelled, up} \subseteq BOOLEAN <=> FlagsOK
  BY Zenon DEF FlagsOK
<1>2. {transport, userOn, loopOn} \subseteq Transport \cup {None}
        <=> /\ transport \in Transport \cup {None}
            /\ userOn \in Transport \cup {None}
            /\ loopOn \in Transport \cup {None}
  BY Zenon
<1> QED
  BY <1>1, <1>2, Zenon DEF TypeOK, DataOK, WireOK, TasksOK, Readings, Progress, States,
     UserAt, LoopAt, CloserAt

-----------------------------------------------------------------------------
(***************************************************************************)
(* The invariant: the transport that calls are made on is being read, a    *)
(* registered request is on a transport that is read, and a call waits     *)
(* exactly while it is registered or resolved.                             *)
(***************************************************************************)
Waiting == {"lock", "drain", "awaiting"}

CallOK(c) ==
    /\ c \in pending => call[c] \in Waiting /\ future[c] = "none"
    /\ call[c] = "idle" => future[c] = "none"
    /\ call[c] \in Waiting => c \in pending \/ future[c] # "none"

ReadInv ==
    /\ transport # None => reader[transport] = "reading"
    /\ PendingIsRead
    /\ \A c \in Call : CallOK(c)

\* A step that leaves the transport, its reader and the calls alone
LEMMA ElsewhereStep ==
  ASSUME ReadInv, DataOK, UNCHANGED <<transport, pending, reader, call, callOn, future>>
  PROVE  ReadInv' /\ DataOK'
BY DEF ReadInv, PendingIsRead, CallOK, DataOK

\* A drop fails whatever was registered; a call that was draining may go on to
\* handle the disconnect.
LEMMA DropStep ==
  ASSUME ReadInv, DataOK, Drop, callOn' = callOn,
         reader' \in [Transport -> Readings],
         call' = call \/ \E c \in Call : /\ call[c] = "drain"
                                         /\ \E pc \in {"lost", "ending", "done"} :
                                              call' = [call EXCEPT ![c] = pc]
  PROVE  ReadInv' /\ DataOK'
<1>1. /\ transport' = None /\ pending' = {}
      /\ future' = [r \in Request |-> IF r \in pending THEN "error" ELSE future[r]]
  BY DEF Drop
<1>2. call' \in [Call -> Progress] /\ \A c \in Call : call[c] = "idle" <=> call'[c] = "idle"
  BY DEF DataOK, Progress
<1>3. DataOK'
  BY <1>1, <1>2 DEF DataOK
<1>4. ASSUME NEW c \in Call PROVE CallOK(c)'
  <2>1. CallOK(c) /\ c \in Request
    BY DEF ReadInv, Request
  <2>2. future'[c] = IF c \in pending THEN "error" ELSE future[c]
    BY <1>1, <2>1
  <2>3. call'[c] \in Waiting => call[c] \in Waiting
    BY DEF DataOK, Waiting
  <2> QED
    BY <1>1, <1>2, <2>1, <2>2, <2>3 DEF CallOK, Waiting
<1>5. PendingIsRead' /\ (transport # None => reader[transport] = "reading")'
  BY <1>1 DEF PendingIsRead
<1> QED
  BY <1>3, <1>4, <1>5 DEF ReadInv

\* A new transport is read, and its handshake is registered.
LEMMA OpenStep ==
  ASSUME ReadInv, DataOK, NEW t \in Transport, OpenSocket(t), UNCHANGED <<call, callOn>>
  PROVE  ReadInv' /\ DataOK'
<1>1. /\ transport' = t /\ reader' = [reader EXCEPT ![t] = "reading"]
      /\ future' = [future EXCEPT ![t] = "none"] /\ pending' = pending \cup {t}
      /\ t \in Request
  BY DEF OpenSocket, Request
<1>2. DataOK'
  BY <1>1 DEF DataOK, Readings
<1>3. PendingIsRead'
  <2> SUFFICES ASSUME NEW r \in pending'
               PROVE  reader'[IF r \in Transport THEN r ELSE callOn[r]] = "reading"
    BY DEF PendingIsRead
  <2>1. CASE r = t
    BY <1>1, <2>1 DEF DataOK
  <2>2. CASE r # t
    <3>1. r \in pending /\ reader[IF r \in Transport THEN r ELSE callOn[r]] = "reading"
      BY <1>1, <2>2 DEF ReadInv, PendingIsRead
    <3>2. (IF r \in Transport THEN r ELSE callOn[r]) \in Transport
      BY <3>1 DEF DataOK, Request, ReadInv, CallOK, Waiting
    <3> QED
      BY <1>1, <3>1, <3>2 DEF DataOK
  <2> QED
    BY <2>1, <2>2
<1>4. ASSUME NEW c \in Call PROVE CallOK(c)'
  <2>1. c # t /\ c \in Request /\ CallOK(c)
    BY TransportAssumption DEF Request, ReadInv
  <2>2. future'[c] = future[c] /\ (c \in pending' <=> c \in pending)
    BY <1>1, <2>1 DEF DataOK
  <2> QED
    BY <2>1, <2>2 DEF CallOK
<1>5. reader'[t] = "reading"
  BY <1>1 DEF DataOK
<1> QED
  BY <1>1, <1>2, <1>3, <1>4, <1>5 DEF ReadInv

\* A reader that reads no longer ends.
LEMMA ReaderEndStep ==
  ASSUME ReadInv, DataOK, NEW t \in Transport, reader[t] # "reading",
         reader' = [reader EXCEPT ![t] = "done"],
         UNCHANGED <<transport, pending, call, callOn, future>>
  PROVE  ReadInv' /\ DataOK'
<1>1. reader' \in [Transport -> Readings]
  BY DEF DataOK, Readings
<1>2. \A u \in Transport : reader[u] = "reading" => reader'[u] = "reading"
  BY DEF DataOK
<1>3. \A r \in pending : (IF r \in Transport THEN r ELSE callOn[r]) \in Transport
  BY DEF DataOK, Request, ReadInv, CallOK, Waiting
<1>4. PendingIsRead'
  BY <1>2, <1>3 DEF ReadInv, PendingIsRead
<1> QED
  BY <1>1, <1>2, <1>4 DEF ReadInv, CallOK, DataOK

\* A response resolves the request that is registered under its id, if any.
LEMMA ResponseStep ==
  ASSUME ReadInv, DataOK, NEW r \in Request, pending' = pending \ {r},
         future' = [future EXCEPT ![r] = IF r \in pending THEN "response" ELSE @],
         UNCHANGED <<transport, reader, call, callOn>>
  PROVE  ReadInv' /\ DataOK'
<1>1. DataOK'
  BY DEF DataOK
<1>2. ASSUME NEW c \in Call PROVE CallOK(c)'
  <2>1. CallOK(c) /\ c \in Request
    BY DEF ReadInv, Request
  <2>2. future'[c] = IF c = r /\ c \in pending THEN "response" ELSE future[c]
    BY <2>1 DEF DataOK
  <2> QED
    BY <2>1, <2>2 DEF CallOK, Waiting
<1>3. PendingIsRead' /\ (transport # None => reader[transport] = "reading")'
  BY DEF ReadInv, PendingIsRead
<1> QED
  BY <1>1, <1>2, <1>3 DEF ReadInv

\* One call goes on: it is registered, or not, as its place asks for.
LEMMA CallMoves ==
  ASSUME ReadInv, DataOK, NEW c \in Call, NEW pc \in Progress,
         call' = [call EXCEPT ![c] = pc],
         pending' \in {pending, pending \ {c}},
         pc # "idle", call[c] # "idle",
         pc \in Waiting => pending' = pending /\ call[c] \in Waiting,
         pc \notin Waiting => c \notin pending',
         UNCHANGED <<transport, reader, callOn, future>>
  PROVE  ReadInv' /\ DataOK'
<1>1. DataOK'
  BY DEF DataOK
<1>2. ASSUME NEW d \in Call PROVE CallOK(d)'
  <2>1. CallOK(d)
    BY DEF ReadInv
  <2>2. call'[d] = IF d = c THEN pc ELSE call[d]
    BY DEF DataOK
  <2>3. d # c => (d \in pending' <=> d \in pending)
    OBVIOUS
  <2> QED
    BY <2>1, <2>2, <2>3 DEF CallOK
<1>3. PendingIsRead' /\ (transport # None => reader[transport] = "reading")'
  BY DEF ReadInv, PendingIsRead
<1> QED
  BY <1>1, <1>2, <1>3 DEF ReadInv

\* A call is made on the transport, which is read.
LEMMA BeginStep ==
  ASSUME ReadInv, DataOK, NEW c \in Call, NEW pc \in {"lock", "drain", "awaiting"},
         transport # None, call[c] = "idle",
         pending' = pending \cup {c},
         callOn' = [callOn EXCEPT ![c] = transport],
         call' = [call EXCEPT ![c] = pc],
         UNCHANGED <<transport, reader, future>>
  PROVE  ReadInv' /\ DataOK'
<1>1. transport \in Transport /\ reader[transport] = "reading" /\ c \in Request
  BY DEF DataOK, ReadInv, Request
<1>2. DataOK'
  BY <1>1 DEF DataOK, Progress
<1>3. ASSUME NEW d \in Call PROVE CallOK(d)'
  <2>1. CallOK(d)
    BY DEF ReadInv
  <2>2. call'[d] = IF d = c THEN pc ELSE call[d]
    BY DEF DataOK
  <2>3. d # c => (d \in pending' <=> d \in pending)
    OBVIOUS
  <2> QED
    BY <2>1, <2>2, <2>3 DEF CallOK, Waiting
<1>4. PendingIsRead'
  <2> SUFFICES ASSUME NEW r \in pending'
               PROVE  reader[IF r \in Transport THEN r ELSE callOn'[r]] = "reading"
    BY DEF PendingIsRead
  <2>1. CASE r = c
    <3>1. r \notin Transport /\ callOn'[r] = transport
      BY <2>1, TransportAssumption DEF DataOK
    <3> QED
      BY <1>1, <3>1
  <2>2. CASE r # c
    <3>1. r \in pending /\ r \in Request
      BY <2>2 DEF DataOK
    <3>2. reader[IF r \in Transport THEN r ELSE callOn[r]] = "reading"
      BY <3>1 DEF ReadInv, PendingIsRead
    <3>3. r \notin Transport => callOn'[r] = callOn[r]
      BY <2>2, <3>1 DEF DataOK, Request
    <3> QED
      BY <3>2, <3>3
  <2> QED
    BY <2>1, <2>2
<1> QED
  BY <1>1, <1>2, <1>3, <1>4 DEF ReadInv

-----------------------------------------------------------------------------
(***************************************************************************)
(* Every step is one of these, unless a call can be cancelled before its   *)
(* request is written.                                                     *)
(***************************************************************************)
LEMMA ReadersType ==
  ASSUME DataOK, NEW self \in Transport \cup {None}, NEW pc,
         self = None \/ pc \in Readings
  PROVE  Readers(self, pc) \in [Transport -> Readings]
BY TransportAssumption DEF DataOK, Readers, Readings

LEMMA InitReads == Init => ReadInv /\ DataOK
BY DEF Init, ReadInv, PendingIsRead, CallOK, DataOK, Waiting, Readings, Progress, Request

LEMMA UserReads ==
  ASSUME ReadInv, DataOK, StartConnect \/ UserStep
  PROVE  ReadInv' /\ DataOK'
<1>1. CASE StartConnect \/ UserGetsLock \/ UserHandshakeDone \/ UserDropped
  <2>1. UNCHANGED <<transport, pending, reader, call, callOn, future>>
    BY <1>1 DEF StartConnect, UserGetsLock, UserHandshakeDone, UserDropped
  <2> QED
    BY <2>1, ElsewhereStep
<1>2. CASE UserOpenFails \/ UserHandshakeFails
  <2>1. AbandonConnect /\ UNCHANGED <<call, callOn>>
    BY <1>2 DEF UserOpenFails, UserHandshakeFails
  <2>2. reader' \in [Transport -> Readings]
    BY <2>1, ReadersType DEF AbandonConnect
  <2> QED
    BY <2>1, <2>2, DropStep DEF AbandonConnect
<1>3. CASE \E t \in Transport : UserOpens(t)
  <2>1. PICK t \in Transport : UserOpens(t)
    BY <1>3
  <2>2. UNCHANGED <<call, callOn>> /\ (OpenSocket(t) \/ OpenInVain(t))
    BY <2>1 DEF UserOpens
  <2>3. CASE OpenSocket(t)
    BY <2>2, <2>3, OpenStep
  <2>4. CASE OpenInVain(t)
    <3>1. Drop /\ reader' \in [Transport -> Readings]
      BY <2>4 DEF OpenInVain, DataOK, Readings
    <3> QED
      BY <2>2, <3>1, DropStep
  <2> QED
    BY <2>2, <2>3, <2>4
<1> QED
  BY <1>1, <1>2, <1>3 DEF UserStep

LEMMA LoopReads ==
  ASSUME ReadInv, DataOK, LoopStep
  PROVE  ReadInv' /\ DataOK'
<1>1. CASE LoopEnters \/ LoopOpenFails \/ LoopHandshakeDone \/ LoopDropped
             \/ LoopIsCancelled
  <2>1. UNCHANGED <<transport, pending, reader, call, callOn, future>>
    BY <1>1 DEF LoopEnters, AtLoopTop, LoopOpenFails, LoopHandshakeDone, LoopDropped,
       LoopIsCancelled
  <2> QED
    BY <2>1, ElsewhereStep
<1>2. CASE LoopHandshakeFails
  <2>1. Drop /\ UNCHANGED <<call, callOn>> /\ reader' = Readers(None, None)
    BY <1>2 DEF LoopHandshakeFails
  <2>2. reader' \in [Transport -> Readings]
    BY <2>1, ReadersType
  <2> QED
    BY <2>1, <2>2, DropStep
<1>3. CASE \E t \in Transport : LoopOpens(t)
  <2>1. PICK t \in Transport : LoopOpens(t)
    BY <1>3
  <2>2. UNCHANGED <<call, callOn>> /\ (OpenSocket(t) \/ OpenInVain(t))
    BY <2>1 DEF LoopOpens
  <2>3. CASE OpenSocket(t)
    BY <2>2, <2>3, OpenStep
  <2>4. CASE OpenInVain(t)
    <3>1. Drop /\ reader' \in [Transport -> Readings]
      BY <2>4 DEF OpenInVain, DataOK, Readings
    <3> QED
      BY <2>2, <3>1, DropStep
  <2> QED
    BY <2>2, <2>3, <2>4
<1> QED
  BY <1>1, <1>2, <1>3 DEF LoopStep

LEMMA CloserReads ==
  ASSUME ReadInv, DataOK, StartClose \/ CloserStep
  PROVE  ReadInv' /\ DataOK'
<1>1. UNCHANGED <<call, callOn>>
  BY DEF StartClose, CloserStep, CloserLoopEnded, CloserDropped
<1>2. CASE DropForClose
  <2>1. Drop /\ reader' \in [Transport -> Readings]
    BY <1>2, ReadersType DEF DropForClose
  <2> QED
    BY <1>1, <2>1, DropStep
<1>3. CASE ~DropForClose
  <2>1. UNCHANGED <<transport, pending, reader, future>>
    BY <1>3 DEF StartClose, CloserStep, CloserLoopEnded, CloserDropped
  <2> QED
    BY <1>1, <2>1, ElsewhereStep
<1> QED
  BY <1>2, <1>3

LEMMA ReaderReads ==
  ASSUME ReadInv, DataOK, NEW t \in Transport, ReaderStep(t)
  PROVE  ReadInv' /\ DataOK'
<1>1. CASE ReaderEof(t)
  <2>1. Drop /\ UNCHANGED <<call, callOn>>
    BY <1>1 DEF ReaderEof
  <2>2. PICK pc \in {"ending", "lost", "done"} : reader' = Readers(t, pc)
    BY <1>1 DEF ReaderEof
  <2>3. reader' \in [Transport -> Readings]
    BY <2>2, ReadersType DEF Readings
  <2> QED
    BY <2>1, <2>3, DropStep
<1>2. CASE ReaderDropped(t) \/ ReaderIsCancelled(t)
  <2>1. /\ reader[t] # "reading"
        /\ reader' = [reader EXCEPT ![t] = "done"]
        /\ UNCHANGED <<transport, pending, call, callOn, future>>
    BY <1>2 DEF ReaderDropped, ReaderIsCancelled, attributes
  <2> QED
    BY <2>1, ReaderEndStep
<1>3. CASE \E r \in Request : ReaderResponse(t, r)
  BY <1>3, ResponseStep DEF ReaderResponse
<1> QED
  BY <1>1, <1>2, <1>3 DEF ReaderStep

LEMMA CallReads ==
  ASSUME ReadInv, DataOK, NEW c \in Call, Cancels # "any",
         CallStep(c) \/ CallCancelled(c) \/ \E pc \in {"drain", "awaiting"} : StartCall(c, pc)
  PROVE  ReadInv' /\ DataOK'
<1>0. CallOK(c)
  BY DEF ReadInv
<1>1. CASE \E pc \in {"drain", "awaiting"} : StartCall(c, pc)
  <2>1. PICK pc \in {"drain", "awaiting"} : StartCall(c, pc)
    BY <1>1
  <2>2. PICK at \in {"lock", "drain", "awaiting"} : call' = [call EXCEPT ![c] = at]
    BY <2>1 DEF StartCall, BeginCall, Written
  <2> QED
    BY <2>1, <2>2, BeginStep DEF StartCall, BeginCall
<1>2. CASE \E pc \in {"drain", "awaiting"} : CallGetsLock(c, pc)
  <2>1. PICK pc \in {"drain", "awaiting"} : CallGetsLock(c, pc)
    BY <1>2
  <2>2. CASE callOn[c] = transport
    BY <2>1, <2>2, CallMoves DEF CallGetsLock, Written, Progress, Waiting
  <2>3. CASE callOn[c] # transport
    BY <2>1, <2>3, CallMoves DEF CallGetsLock, Progress, Waiting
  <2> QED
    BY <2>2, <2>3
<1>3. CASE CallDrained(c)
  BY <1>3, CallMoves DEF CallDrained, attributes, Progress, Waiting
<1>4. CASE CallWriteFails(c)
  <2>1. Drop /\ callOn' = callOn /\ reader' = Readers(None, None)
    BY <1>4 DEF CallWriteFails
  <2>2. /\ call[c] = "drain"
        /\ \E pc \in {"lost", "ending", "done"} : call' = [call EXCEPT ![c] = pc]
    BY <1>4 DEF CallWriteFails
  <2>3. reader' \in [Transport -> Readings]
    BY <2>1, ReadersType
  <2> QED
    BY <2>1, <2>2, <2>3, DropStep
<1>5. CASE CallDropped(c)
  BY <1>0, <1>5, CallMoves DEF CallDropped, CallOK, Progress, Waiting
<1>6. CASE CallReturns(c)
  BY <1>0, <1>6, CallMoves DEF CallReturns, CallEnds, CallOK, Progress, Waiting
<1>7. CASE CallTimesOut(c) \/ CallCancelled(c)
  <2>1. call[c] = "awaiting" /\ CallEnds(c, pending \ {c})
    BY <1>7 DEF CallTimesOut, CallCancelled
  <2> QED
    BY <2>1, CallMoves DEF CallEnds, Progress, Waiting
<1> QED
  BY <1>1, <1>2, <1>3, <1>4, <1>5, <1>6, <1>7 DEF CallStep

LEMMA StepReads ==
  ASSUME ReadInv, DataOK, [Next]_vars, Cancels # "any"
  PROVE  ReadInv' /\ DataOK'
<1>1. CASE UNCHANGED vars
  BY <1>1, ElsewhereStep DEF vars, attributes
<1>2. CASE \/ \E t \in Transport, r \in Request : Answer(t, r)
           \/ ServerStops \/ ServerStarts
  <2>1. UNCHANGED <<transport, pending, reader, call, callOn, future>>
    BY <1>2 DEF Answer, ServerStops, ServerStarts, attributes
  <2> QED
    BY <2>1, ElsewhereStep
<1> QED
  BY <1>1, <1>2, UserReads, LoopReads, CloserReads, ReaderReads, CallReads DEF Next

\* Of any number of calls and connections, no response finds an entry of _pending
\* that its reader cannot reach, or whose call has gone (connection.py call(),
\* _drop_transport()), as long as no call is cancelled before its request is written.
THEOREM PendingStaysServed ==
  ASSUME Cancels # "any"
  PROVE  Spec => []PendingIsServed
<1>1. ReadInv /\ DataOK /\ [Next]_vars => (ReadInv /\ DataOK)'
  BY StepReads
<1>2. ReadInv => PendingIsServed
  <2>1. ReadInv => PendingHasWaiter
    BY DEF ReadInv, CallOK, PendingHasWaiter, Waiting
  <2> QED
    BY <2>1 DEF ReadInv, PendingIsServed
<1> QED
  BY <1>1, <1>2, InitReads, PTL DEF Spec

\* A call that awaits its response is registered or already has its outcome:
\* no drop, reconnect or timeout of connection.py leaves it waiting for nobody.
THEOREM AwaitingStaysResolvable ==
  ASSUME Cancels # "any"
  PROVE  Spec => []AwaitingIsResolvable
<1>1. ReadInv /\ DataOK /\ [Next]_vars => (ReadInv /\ DataOK)'
  BY StepReads
<1>2. ReadInv => AwaitingIsResolvable
  BY DEF ReadInv, CallOK, AwaitingIsResolvable, Waiting
<1> QED
  BY <1>1, <1>2, InitReads, PTL DEF Spec

-----------------------------------------------------------------------------
(***************************************************************************)
(* Type correctness, whatever is cancelled.                                *)
(***************************************************************************)
LEMMA StepData ==
  ASSUME DataOK, [Next]_vars
  PROVE  DataOK'
<1> USE DEF attributes, connectTasks, server
<1>1. ASSUME UNCHANGED <<transport, pending, reader, call, callOn, future>>
      PROVE  DataOK'
  BY <1>1 DEF DataOK
<1>2. ASSUME Drop, UNCHANGED <<call, callOn>>, reader' \in [Transport -> Readings]
      PROVE  DataOK'
  BY <1>2 DEF DataOK, Drop
<1>3. ASSUME NEW t \in Transport, OpenSocket(t) \/ OpenInVain(t), UNCHANGED <<call, callOn>>
      PROVE  DataOK'
  BY <1>3 DEF DataOK, OpenSocket, OpenInVain, Drop, Request, Readings
<1>4. CASE StartConnect \/ UserGetsLock \/ UserHandshakeDone \/ UserDropped
             \/ LoopEnters \/ LoopOpenFails \/ LoopHandshakeDone \/ LoopDropped
             \/ LoopIsCancelled \/ CloserDropped
  BY <1>1, <1>4 DEF StartConnect, UserGetsLock, UserHandshakeDone, UserDropped,
     LoopEnters, AtLoopTop, LoopOpenFails, LoopHandshakeDone, LoopDropped,
     LoopIsCancelled, CloserDropped
<1>5. CASE UserOpenFails \/ UserHandshakeFails \/ LoopHandshakeFails
             \/ CloserLoopEnded \/ StartClose
  BY <1>1, <1>2, <1>5, ReadersType DEF UserOpenFails, UserHandshakeFails,
     AbandonConnect, LoopHandshakeFails, CloserLoopEnded, StartClose, DropForClose
<1>6. ASSUME NEW t \in Transport, UserOpens(t) \/ LoopOpens(t) PROVE DataOK'
  BY <1>3, <1>6 DEF UserOpens, LoopOpens
<1>7. ASSUME NEW t \in Transport, ReaderStep(t) PROVE DataOK'
  <2>1. CASE ReaderEof(t)
    BY <1>2, <2>1, ReadersType DEF ReaderEof, Readings
  <2>2. CASE ReaderDropped(t) \/ ReaderIsCancelled(t)
    BY <2>2 DEF ReaderDropped, ReaderIsCancelled, DataOK, Readings
  <2>3. CASE \E r \in Request : ReaderResponse(t, r)
    BY <2>3 DEF ReaderResponse, DataOK
  <2> QED
    BY <1>7, <2>1, <2>2, <2>3 DEF ReaderStep
<1>8. ASSUME NEW c \in Call,
             CallStep(c) \/ CallCancelled(c) \/ \E pc \in {"drain", "awaiting"} : StartCall(c, pc)
      PROVE  DataOK'
  <2>1. CASE \E pc \in {"drain", "awaiting"} : StartCall(c, pc)
    BY <2>1 DEF StartCall, BeginCall, Written, DataOK, Progress, Request
  <2>2. CASE \E pc \in {"drain", "awaiting"} : CallGetsLock(c, pc)
    BY <2>2 DEF CallGetsLock, Written, DataOK, Progress
  <2>3. CASE CallWriteFails(c)
    BY <2>3, ReadersType DEF CallWriteFails, Drop, DataOK, Progress
  <2>4. CASE CallDrained(c) \/ CallDropped(c)
    BY <2>4 DEF CallDrained, CallDropped, DataOK, Progress
  <2>5. CASE CallReturns(c) \/ CallTimesOut(c) \/ CallCancelled(c)
    BY <2>5 DEF CallReturns, CallTimesOut, CallCancelled, CallEnds, DataOK, Progress
  <2> QED
    BY <1>8, <2>1, <2>2, <2>3, <2>4, <2>5 DEF CallStep
<1>9. CASE \/ \E t \in Transport, r \in Request : Answer(t, r)
           \/ ServerStops \/ ServerStarts
  BY <1>1, <1>9 DEF Answer, ServerStops, ServerStarts
<1>10. CASE UNCHANGED vars
  BY <1>1, <1>10 DEF vars
<1> QED
  BY <1>4, <1>5, <1>6, <1>7, <1>8, <1>9, <1>10 DEF Next, UserStep, LoopStep, CloserStep

LEMMA StepWire ==
  ASSUME WireOK, DataOK, [Next]_vars
  PROVE  WireOK'
<1> USE DEF attributes, connectTasks, server
<1>1. ASSUME UNCHANGED <<peer, unanswered, inbox>> PROVE WireOK'
  BY <1>1 DEF WireOK
<1>2. ASSUME CloseWriter, UNCHANGED <<unanswered, inbox>> PROVE WireOK'
  BY <1>2 DEF WireOK, CloseWriter
<1>3. CASE StartConnect \/ UserGetsLock \/ UserHandshakeDone \/ UserDropped
             \/ LoopEnters \/ LoopOpenFails \/ LoopHandshakeDone \/ LoopDropped
             \/ LoopIsCancelled \/ CloserDropped
  BY <1>1, <1>3 DEF StartConnect, UserGetsLock, UserHandshakeDone, UserDropped,
     LoopEnters, AtLoopTop, LoopOpenFails, LoopHandshakeDone, LoopDropped,
     LoopIsCancelled, CloserDropped
<1>4. CASE UserOpenFails \/ UserHandshakeFails \/ LoopHandshakeFails
             \/ CloserLoopEnded \/ StartClose
  BY <1>1, <1>2, <1>4 DEF UserOpenFails, UserHandshakeFails,
     AbandonConnect, LoopHandshakeFails, CloserLoopEnded, StartClose, DropForClose
<1>5. ASSUME NEW t \in Transport, UserOpens(t) \/ LoopOpens(t) PROVE WireOK'
  BY <1>5 DEF UserOpens, LoopOpens, OpenSocket, OpenInVain, WireOK, Request
<1>6. ASSUME NEW t \in Transport, ReaderStep(t) PROVE WireOK'
  <2>1. CASE ReaderEof(t)
    BY <1>2, <2>1 DEF ReaderEof
  <2>2. CASE ReaderDropped(t) \/ ReaderIsCancelled(t)
    BY <1>1, <2>2 DEF ReaderDropped, ReaderIsCancelled
  <2>3. CASE \E r \in Request : ReaderResponse(t, r)
    BY <2>3 DEF ReaderResponse, WireOK
  <2> QED
    BY <1>6, <2>1, <2>2, <2>3 DEF ReaderStep
<1>7. ASSUME NEW c \in Call,
             CallStep(c) \/ CallCancelled(c) \/ \E pc \in {"drain", "awaiting"} : StartCall(c, pc)
      PROVE  WireOK'
  <2>1. CASE \E pc \in {"drain", "awaiting"} : StartCall(c, pc) \/ CallGetsLock(c, pc)
    BY <2>1 DEF StartCall, BeginCall, CallGetsLock, Written, WireOK, Request
  <2>2. CASE CallWriteFails(c)
    BY <1>2, <2>2 DEF CallWriteFails
  <2>3. CASE CallDrained(c) \/ CallDropped(c) \/ CallReturns(c) \/ CallTimesOut(c)
               \/ CallCancelled(c)
    BY <1>1, <2>3 DEF CallDrained, CallDropped, CallReturns, CallTimesOut, CallCancelled,
       CallEnds
  <2> QED
    BY <1>7, <2>1, <2>2, <2>3 DEF CallStep
<1>8. CASE \/ \E t \in Transport, r \in Request : Answer(t, r)
           \/ ServerStops \/ ServerStarts
  BY <1>8 DEF Answer, ServerStops, ServerStarts, WireOK
<1>9. CASE UNCHANGED vars
  BY <1>1, <1>9 DEF vars
<1> QED
  BY <1>3, <1>4, <1>5, <1>6, <1>7, <1>8, <1>9 DEF Next, UserStep, LoopStep, CloserStep

LEMMA StepTasks ==
  ASSUME TasksOK, [Next]_vars
  PROVE  TasksOK'
<1> USE DEF attributes, connectTasks, TasksOK, States, UserAt, LoopAt, CloserAt
<1>1. CASE StartConnect
  BY <1>1, SwitchAssumption DEF StartConnect, EnterConnect
<1>2. CASE UserStep
  BY <1>2 DEF UserStep, UserGetsLock, EnterConnect, UserOpenFails, UserHandshakeDone,
     UserHandshakeFails, UserDropped, UserOpens, AbandonConnect, RaiseFromConnect
<1>3. CASE LoopStep
  BY <1>3 DEF LoopStep, LoopEnters, AtLoopTop, LoopOpenFails, LoopHandshakeDone,
     LoopHandshakeFails, LoopDropped, LoopIsCancelled, LoopOpens
<1>4. CASE StartClose \/ CloserStep
  BY <1>4 DEF StartClose, CloserStep, CloserLoopEnded, CloserDropped, DropForClose
<1>5. ASSUME NEW t \in Transport, ReaderStep(t) PROVE TasksOK'
  BY <1>5 DEF ReaderStep, ReaderEof, ReaderDropped, ReaderIsCancelled, ReaderResponse,
     AfterDrop
<1>6. ASSUME NEW c \in Call,
             CallStep(c) \/ CallCancelled(c) \/ \E pc \in {"drain", "awaiting"} : StartCall(c, pc)
      PROVE  TasksOK'
  BY <1>6 DEF CallStep, StartCall, BeginCall, CallGetsLock, CallDrained, CallWriteFails,
     CallDropped, CallReturns, CallTimesOut, CallCancelled, CallEnds, AfterDrop
<1>7. CASE \/ \E t \in Transport, r \in Request : Answer(t, r)
           \/ ServerStops \/ ServerStarts
  BY <1>7 DEF Answer, ServerStops, ServerStarts
<1>8. CASE UNCHANGED vars
  BY <1>8 DEF vars
<1> QED
  BY <1>1, <1>2, <1>3, <1>4, <1>5, <1>6, <1>7, <1>8 DEF Next

LEMMA StepFlags ==
  ASSUME FlagsOK, [Next]_vars
  PROVE  FlagsOK'
<1> USE DEF attributes, connectTasks, server, FlagsOK, Drop
<1>1. CASE StartConnect \/ UserStep
  BY <1>1 DEF StartConnect, UserStep, UserGetsLock, UserOpenFails, UserHandshakeDone,
     UserHandshakeFails, UserDropped, UserOpens, AbandonConnect, OpenInVain
<1>2. CASE LoopStep
  BY <1>2 DEF LoopStep, LoopEnters, AtLoopTop, LoopOpenFails, LoopHandshakeDone,
     LoopHandshakeFails, LoopDropped, LoopIsCancelled, LoopOpens, OpenInVain
<1>3. CASE StartClose \/ CloserStep
  BY <1>3 DEF StartClose, CloserStep, CloserLoopEnded, CloserDropped, DropForClose
<1>4. ASSUME NEW t \in Transport, ReaderStep(t) PROVE FlagsOK'
  BY <1>4 DEF ReaderStep, ReaderEof, ReaderDropped, ReaderIsCancelled, ReaderResponse
<1>5. ASSUME NEW c \in Call,
             CallStep(c) \/ CallCancelled(c) \/ \E pc \in {"drain", "awaiting"} : StartCall(c, pc)
      PROVE  FlagsOK'
  BY <1>5 DEF CallStep, StartCall, BeginCall, CallGetsLock, CallDrained, CallWriteFails,
     CallDropped, CallReturns, CallTimesOut, CallCancelled, CallEnds
<1>6. CASE \/ \E t \in Transport, r \in Request : Answer(t, r)
           \/ ServerStops \/ ServerStarts
  BY <1>6 DEF Answer, ServerStops, ServerStarts
<1>7. CASE UNCHANGED vars
  BY <1>7 DEF vars
<1> QED
  BY <1>1, <1>2, <1>3, <1>4, <1>5, <1>6, <1>7 DEF Next

\* The attributes and tasks of SocketConnection (connection.py) keep to their types,
\* and a call that has begun has a transport it was made on, whatever the server,
\* the application and cancellations do.
THEOREM ConnTyped == Spec => []TypeOK
<1>1. Init => TypeOK
  <2>1. Init => DataOK
    BY InitReads
  <2>2. Init => WireOK
    BY DEF Init, WireOK
  <2>3. Init => TasksOK
    BY SwitchAssumption DEF Init, TasksOK, States, UserAt, LoopAt, CloserAt
  <2>4. Init => FlagsOK
    BY DEF Init, FlagsOK
  <2> QED
    BY <2>1, <2>2, <2>3, <2>4, TypeParts
<1>2. TypeOK /\ [Next]_vars => TypeOK'
  <2> SUFFICES ASSUME DataOK /\ WireOK /\ TasksOK /\ FlagsOK, [Next]_vars
               PROVE  (DataOK /\ WireOK /\ TasksOK /\ FlagsOK)'
    BY TypeParts, PTL
  <2> QED
    BY StepData, StepWire, StepTasks, StepFlags
<1> QED
  BY <1>1, <1>2, PTL DEF Spec

-----------------------------------------------------------------------------
(***************************************************************************)
(* One reader.  A drop that is under way ("lost") will set the state and   *)
(* may start the reconnect loop when it is over, so it must not last into  *)
(* a connection that is in use; and a call that drains into a closed       *)
(* writer may begin one at any time.  The invariant says where neither can *)
(* be, and holds whatever is cancelled.                                    *)
(***************************************************************************)
Lost == (\E t \in Transport : reader[t] = "lost") \/ \E c \in Call : call[c] = "lost"
StaleDrain == \E c \in Call : call[c] = "drain" /\ callOn[c] # transport
LoopRuns == loop \notin {"none", "done"}

\* Only the transport is open, read and registered; no other handshake travels on it.
TransportOwned ==
    /\ pending \cap Transport \subseteq {transport}
    /\ \A t \in Transport :
        /\ peer[t] = "open" => transport = t
        /\ reader[t] = "reading" => transport = t
        /\ unanswered[t] \cap Transport \subseteq {t}
        /\ inbox[t] \cap Transport \subseteq {t}
    /\ transport # None => \A c \in Call : call[c] = "lost" => callOn[c] # transport

\* Whoever opens a socket holds the lock, and finds no transport.
LockHeld ==
    /\ user # "lock"
    /\ lock = "user" <=> user \in {"open", "handshake", "drop"}
    /\ lock = "loop" <=> loop \in {"open", "handshake", "drop"}
    /\ user \in {"open", "drop"} \/ loop \in {"open", "drop"} => transport = None

\* A handshake whose transport is gone has its outcome, and the drop is not over.
Negotiates(pc, on) ==
    pc = "handshake" =>
        /\ on \in Transport
        /\ transport \in {None, on}
        /\ on \in pending \/ future[on] # "none"
        /\ transport = None /\ ~closing => Lost
        /\ transport # None => ~StaleDrain

UserConnects == user = "open" \/ (user = "handshake" /\ transport # None)
LoopConnected == loop = "handshake" /\ transport # None /\ future[loopOn] = "response"

\* While connect() is on its way nothing is lost and the loop does not start; nor
\* does it between two calls of connect(), unless it runs or a drop is under way.
NothingComes ==
    /\ UserConnects \/ LoopConnected => ~Lost
    /\ AutoReconnect /\ ~closing /\ UserConnects => ~LoopRuns /\ ~StaleDrain
    /\ AutoReconnect /\ ~closing /\ lock = None /\ ~LoopRuns /\ NoDrop => ~StaleDrain
    /\ ~AutoReconnect => loop = "none"

\* A transport in use is in state connected, and nobody is about to connect again.
InUse ==
    transport # None /\ lock = None /\ ~closing
        => connState = "connected" /\ ~LoopRuns /\ ~Lost

ClosingSeen ==
    /\ \A t \in Transport : reader[t] = "ending" => closing
    /\ \A c \in Call : call[c] = "ending" => closing
    /\ closer # "idle" \/ loopCancelled => closing

OneReaderInv ==
    /\ TransportOwned /\ LockHeld
    /\ Negotiates(user, userOn) /\ Negotiates(loop, loopOn)
    /\ NothingComes /\ InUse /\ ClosingSeen

\* All that a step is judged by
OneInv == OneReaderInv /\ DataOK /\ WireOK /\ TasksOK /\ FlagsOK

LEMMA InitOne == Init => OneReaderInv
BY TransportAssumption
DEF Init, OneReaderInv, TransportOwned, LockHeld, Negotiates, NothingComes, UserConnects,
    LoopConnected, InUse, ClosingSeen, Lost, StaleDrain, LoopRuns

LEMMA UserOne ==
  ASSUME OneInv, ConnectAlone, StartConnect \/ UserStep
  PROVE  OneReaderInv'
<1> USE TransportAssumption
    DEF OneInv, OneReaderInv, TransportOwned, LockHeld, Negotiates, NothingComes,
        UserConnects, LoopConnected, InUse, ClosingSeen, Lost, StaleDrain, LoopRuns, NoDrop,
        DataOK, WireOK, TasksOK, FlagsOK, LoopAt, UserAt, server, Request
<1>1. CASE StartConnect
  BY <1>1 DEF StartConnect, EnterConnect
<1>2. CASE UserGetsLock
  BY <1>2 DEF UserGetsLock
<1>3. CASE UserOpenFails
  BY <1>3 DEF UserOpenFails, AbandonConnect, RaiseFromConnect, Drop, CloseWriter, Readers
<1>4. ASSUME NEW t \in Transport, UserOpens(t) PROVE OneReaderInv'
  BY <1>4 DEF UserOpens, OpenSocket, OpenInVain, Drop, Turn, SomeTaskReady, IsFree
<1>5. CASE UserHandshakeDone
  BY <1>5 DEF UserHandshakeDone
<1>6. CASE UserHandshakeFails
  BY <1>6 DEF UserHandshakeFails, AbandonConnect, RaiseFromConnect, Drop, CloseWriter,
     Readers
<1>7. CASE UserDropped
  BY <1>7 DEF UserDropped, RaiseFromConnect, Turn, SomeTaskReady
<1> QED
  BY <1>1, <1>2, <1>3, <1>4, <1>5, <1>6, <1>7 DEF UserStep

LEMMA LoopOne ==
  ASSUME OneInv, LoopStep
  PROVE  OneReaderInv'
<1> USE TransportAssumption
    DEF OneInv, OneReaderInv, TransportOwned, LockHeld, Negotiates, NothingComes,
        UserConnects, LoopConnected, InUse, ClosingSeen, Lost, StaleDrain, LoopRuns, NoDrop,
        DataOK, WireOK, TasksOK, FlagsOK, LoopAt, UserAt, server, Request
<1>1. CASE LoopEnters
  BY <1>1 DEF LoopEnters, AtLoopTop
<1>2. CASE LoopOpenFails
  BY <1>2 DEF LoopOpenFails
<1>3. ASSUME NEW t \in Transport, LoopOpens(t) PROVE OneReaderInv'
  BY <1>3 DEF LoopOpens, OpenSocket, OpenInVain, Drop, Turn, SomeTaskReady, IsFree
<1>4. CASE LoopHandshakeDone
  BY <1>4 DEF LoopHandshakeDone
<1>5. CASE LoopHandshakeFails
  BY <1>5 DEF LoopHandshakeFails, Drop, CloseWriter, Readers
<1>6. CASE LoopDropped
  BY <1>6 DEF LoopDropped
<1>7. CASE LoopIsCancelled
  BY <1>7 DEF LoopIsCancelled
<1> QED
  BY <1>1, <1>2, <1>3, <1>4, <1>5, <1>6, <1>7 DEF LoopStep

LEMMA CloserOne ==
  ASSUME OneInv, StartClose \/ CloserStep
  PROVE  OneReaderInv'
<1> USE TransportAssumption
    DEF OneInv, OneReaderInv, TransportOwned, LockHeld, Negotiates, NothingComes,
        UserConnects, LoopConnected, InUse, ClosingSeen, Lost, StaleDrain, LoopRuns, NoDrop,
        DataOK, WireOK, TasksOK, FlagsOK, LoopAt, UserAt, server, connectTasks, Request
<1>1. CASE StartClose
  BY <1>1 DEF StartClose, DropForClose, Drop, CloseWriter, Readers
<1>2. CASE CloserLoopEnded
  BY <1>2 DEF CloserLoopEnded, DropForClose, Drop, CloseWriter, Readers
<1>3. CASE CloserDropped
  BY <1>3 DEF CloserDropped
<1> QED
  BY <1>1, <1>2, <1>3 DEF CloserStep

LEMMA ReaderOne ==
  ASSUME OneInv, NEW t \in Transport, ReaderStep(t)
  PROVE  OneReaderInv'
<1> USE TransportAssumption
    DEF OneInv, OneReaderInv, TransportOwned, LockHeld, Negotiates, NothingComes,
        UserConnects, LoopConnected, InUse, ClosingSeen, Lost, StaleDrain, LoopRuns, NoDrop,
        DataOK, WireOK, TasksOK, FlagsOK, LoopAt, UserAt, attributes, server, connectTasks,
        Request
<1>1. CASE ReaderEof(t)
  BY <1>1 DEF ReaderEof, Drop, CloseWriter, Readers, AfterDrop
<1>2. CASE ReaderDropped(t)
  BY <1>2 DEF ReaderDropped, AfterDrop, Turn, SomeTaskReady, Handshaking
<1>3. CASE ReaderIsCancelled(t)
  BY <1>3 DEF ReaderIsCancelled
<1>4. ASSUME NEW r \in Request, ReaderResponse(t, r) PROVE OneReaderInv'
  BY <1>4 DEF ReaderResponse, EarlierDropsOver
<1> QED
  BY <1>1, <1>2, <1>3, <1>4 DEF ReaderStep

LEMMA CallOne ==
  ASSUME OneInv, NEW c \in Call,
         CallStep(c) \/ CallCancelled(c) \/ \E pc \in {"drain", "awaiting"} : StartCall(c, pc)
  PROVE  OneReaderInv'
<1> USE TransportAssumption
    DEF OneInv, OneReaderInv, TransportOwned, LockHeld, Negotiates, NothingComes,
        UserConnects, LoopConnected, InUse, ClosingSeen, Lost, StaleDrain, LoopRuns, NoDrop,
        DataOK, WireOK, TasksOK, FlagsOK, LoopAt, UserAt, attributes, server, connectTasks,
        Request
<1>1. ASSUME NEW pc \in {"drain", "awaiting"}, StartCall(c, pc) PROVE OneReaderInv'
  BY <1>1 DEF StartCall, BeginCall, Written
<1>2. ASSUME NEW pc \in {"drain", "awaiting"}, CallGetsLock(c, pc) PROVE OneReaderInv'
  BY <1>2 DEF CallGetsLock, Written
<1>3. CASE CallDrained(c)
  BY <1>3 DEF CallDrained
<1>4. CASE CallWriteFails(c)
  BY <1>4 DEF CallWriteFails, Drop, CloseWriter, Readers, AfterDrop
<1>5. CASE CallDropped(c)
  BY <1>5 DEF CallDropped, AfterDrop, Turn, SomeTaskReady, Handshaking
<1>6. CASE CallReturns(c) \/ CallTimesOut(c) \/ CallCancelled(c)
  BY <1>6 DEF CallReturns, CallTimesOut, CallCancelled, CallEnds
<1> QED
  BY <1>1, <1>2, <1>3, <1>4, <1>5, <1>6 DEF CallStep

LEMMA ServerOne ==
  ASSUME OneInv, \/ \E t \in Transport, r \in Request : Answer(t, r)
                 \/ ServerStops \/ ServerStarts \/ UNCHANGED vars
  PROVE  OneReaderInv'
<1> USE TransportAssumption
    DEF OneInv, OneReaderInv, TransportOwned, LockHeld, Negotiates, NothingComes,
        UserConnects, LoopConnected, InUse, ClosingSeen, Lost, StaleDrain, LoopRuns, NoDrop,
        WireOK, attributes, server, connectTasks
<1>1. ASSUME NEW t \in Transport, NEW r \in Request, Answer(t, r) PROVE OneReaderInv'
  BY <1>1 DEF Answer
<1>2. CASE ServerStops
  BY <1>2 DEF ServerStops
<1>3. CASE ServerStarts \/ UNCHANGED vars
  BY <1>3 DEF ServerStarts, vars
<1> QED
  BY <1>1, <1>2, <1>3

\* "The client has one reader task": for any calls, cancellations and sockets, and
\* any number of connect(), no second transport is read, as long as connect() is
\* called only while no reconnect loop runs and no transport is being dropped; the
\* loop and connect() each open a socket only when there is none.
THEOREM OneReaderTask ==
  ASSUME ConnectAlone
  PROVE  Spec => []OneReader
<1>1. TypeOK <=> DataOK /\ WireOK /\ TasksOK /\ FlagsOK
  BY TypeParts
<1>2. TypeOK /\ OneReaderInv /\ [Next]_vars => OneReaderInv'
  <2> SUFFICES ASSUME OneInv, [Next]_vars PROVE OneReaderInv'
    BY <1>1 DEF OneInv
  <2> QED
    BY UserOne, LoopOne, CloserOne, ReaderOne, CallOne, ServerOne, Zenon DEF Next
<1>3. OneReaderInv => OneReader
  BY DEF OneReaderInv, TransportOwned, OneReader
<1> QED
  BY <1>2, <1>3, InitOne, ConnTyped, PTL DEF Spec

-----------------------------------------------------------------------------
(***************************************************************************)
(* _iter_lines.  For any stream, bound and chunks it yields exactly what   *)
(* RecordStream promises, and holds nothing back.                          *)
(***************************************************************************)

Count == Len(Ends)

\* The first i newlines have been cut off, and no other.
CutTo(i) ==
    /\ i \in 0 .. Count
    /\ EndOf(i) <= start
    /\ i < Count => start < EndOf(i + 1)

\* What is being skipped is the beginning of a record that is too long.
DropsTooLong(i) ==
    IF dropping THEN start - EndOf(i) > MaxLine ELSE start = EndOf(i)

\* Of the first i records exactly those within the bound have been yielded.
Yielded(i) ==
    /\ Abstract!LastAccepted \in 0 .. i
    /\ \A j \in Abstract!LastAccepted + 1 .. i : Lengths[j] > MaxLine
    /\ \A j \in 1 .. i : Lengths[j] <= MaxLine
            => \E k \in DOMAIN lines : RecordAt(lines[k]) = j

LinesOf(i) ==
    /\ CutTo(i)
    /\ DropsTooLong(i)
    /\ Yielded(i)
    /\ reading /\ i < Count => end < EndOf(i + 1)

LineInv == LinesTypeOK /\ \E i \in 0 .. Count : LinesOf(i)

-----------------------------------------------------------------------------

LEMMA EndsGrow ==
  /\ Count \in Nat /\ DOMAIN Ends = 1 .. Count
  /\ \A i \in 0 .. Count : EndOf(i) \in 0 .. Streamed
  /\ \A i, j \in 0 .. Count : i < j => EndOf(i) < EndOf(j)
<1>1. Ends \in Seq(1 .. Streamed) /\ Streamed \in Nat
  BY LineAssumption
<1>2. Count \in Nat /\ DOMAIN Ends = 1 .. Count
  BY <1>1 DEF Count
<1>3. \A i \in 0 .. Count : i # 0 => i \in 1 .. Count /\ EndOf(i) = Ends[i] /\ Ends[i] \in 1 .. Streamed
  BY <1>1, <1>2 DEF EndOf
<1>4. EndOf(0) = 0
  BY DEF EndOf
<1>5. \A i \in 0 .. Count : EndOf(i) \in 0 .. Streamed
  BY <1>1, <1>3, <1>4
<1>6. \A i, j \in 0 .. Count : i < j => EndOf(i) < EndOf(j)
  <2> SUFFICES ASSUME NEW i \in 0 .. Count, NEW j \in 0 .. Count, i < j
               PROVE  EndOf(i) < EndOf(j)
    OBVIOUS
  <2>1. j # 0
    BY <1>2
  <2>2. CASE i = 0
    BY <1>1, <1>3, <1>4, <2>1, <2>2
  <2>3. CASE i # 0
    BY <1>2, <1>3, <2>1, <2>3, LineAssumption
  <2> QED
    BY <2>2, <2>3
<1> QED
  BY <1>2, <1>5, <1>6

LEMMA LengthAt ==
  ASSUME NEW i \in 0 .. Count, i < Count
  PROVE  /\ i + 1 \in DOMAIN Ends /\ i + 1 \in DOMAIN Lengths
         /\ Lengths[i + 1] = EndOf(i + 1) - EndOf(i)
BY EndsGrow DEF Lengths

\* A line that ends at the newline of a record and begins behind the one before is that
\* record, and no other.
LEMMA RecordOfLine ==
  ASSUME NEW i \in 0 .. Count, i < Count
  PROVE  RecordAt(<<EndOf(i) + 1, EndOf(i + 1)>>) = i + 1
<1> DEFINE line == <<EndOf(i) + 1, EndOf(i + 1)>>
           same == {j \in DOMAIN Lengths : line = <<EndOf(j - 1) + 1, EndOf(j)>>}
<1>1. DOMAIN Lengths = 1 .. Count /\ Count \in Nat
  BY EndsGrow DEF Lengths
<1>2. i + 1 \in same
  BY <1>1
<1>3. ASSUME NEW j \in same PROVE j = i + 1
  <2>1. j \in 0 .. Count /\ i + 1 \in 0 .. Count /\ EndOf(j) = EndOf(i + 1)
    BY <1>1, <1>3
  <2>2. EndOf(j) \in Nat /\ EndOf(i + 1) \in Nat
    BY <2>1, EndsGrow
  <2>3. ~(j < i + 1) /\ ~(i + 1 < j)
    BY <2>1, <2>2, EndsGrow
  <2> QED
    BY <1>1, <2>1, <2>3
<1>4. same = {i + 1}
  BY <1>2, <1>3
<1>5. RecordAt(line) = IF same = {} THEN 0 ELSE CHOOSE j \in same : TRUE
  BY DEF RecordAt
<1> HIDE DEF same, line
<1>6. RecordAt(line) = i + 1
  BY <1>4, <1>5
<1> QED
  BY <1>6 DEF line

\* The first newline in the buffer, if there is one, is that of the record begun.
LEMMA FirstBuffered ==
  ASSUME LinesTypeOK, NEW i \in 0 .. Count, CutTo(i)
  PROVE  /\ Buffered # {} => i < Count /\ EndOf(i + 1) <= end /\ Min(Buffered) = EndOf(i + 1)
         /\ Buffered = {} => (i < Count => end < EndOf(i + 1))
<1>1. start \in Nat /\ end \in Nat /\ Count \in Nat
  BY EndsGrow, LineAssumption DEF LinesTypeOK
<1>2. \A j \in 0 .. Count : EndOf(j) \in Nat
  BY EndsGrow, LineAssumption
<1>3. ASSUME NEW p \in Buffered
      PROVE  i < Count /\ EndOf(i + 1) <= p /\ p <= end
  <2>1. PICK j \in DOMAIN Ends : p = Ends[j]
    BY DEF Buffered, Newlines
  <2>2. j \in 0 .. Count /\ j # 0 /\ p = EndOf(j)
    BY <2>1, EndsGrow DEF EndOf
  <2>3. start < p /\ p <= end
    BY DEF Buffered
  <2>4. ~(j <= i)
    <3>1. j <= i => EndOf(j) <= EndOf(i)
      BY <1>1, <1>2, <2>2, EndsGrow
    <3> QED
      BY <1>1, <1>2, <2>2, <2>3, <3>1 DEF CutTo
  <2>5. i < Count /\ i + 1 \in 0 .. Count /\ i + 1 <= j
    BY <1>1, <2>2, <2>4
  <2>6. EndOf(i + 1) <= EndOf(j)
    BY <1>1, <1>2, <2>2, <2>5, EndsGrow
  <2> QED
    BY <2>2, <2>3, <2>5, <2>6
<1>4. i < Count /\ EndOf(i + 1) <= end => EndOf(i + 1) \in Buffered
  <2> SUFFICES ASSUME i < Count, EndOf(i + 1) <= end PROVE EndOf(i + 1) \in Buffered
    OBVIOUS
  <2>1. i + 1 \in DOMAIN Ends /\ EndOf(i + 1) = Ends[i + 1]
    BY <1>1, LengthAt DEF EndOf
  <2>2. start < EndOf(i + 1)
    BY DEF CutTo
  <2> QED
    BY <2>1, <2>2 DEF Buffered, Newlines
<1>5. ASSUME Buffered # {}
      PROVE  i < Count /\ EndOf(i + 1) <= end /\ Min(Buffered) = EndOf(i + 1)
  <2>1. PICK p \in Buffered : TRUE
    BY <1>5
  <2>2. i < Count /\ EndOf(i + 1) <= p /\ p <= end
    BY <1>3
  <2>3. p \in Nat /\ EndOf(i + 1) \in Nat
    <3>1. p \in Newlines
      BY DEF Buffered
    <3> QED
      BY <1>1, <1>2, <2>2, <3>1, LineAssumption DEF Newlines
  <2>4. EndOf(i + 1) <= end
    BY <1>1, <2>2, <2>3
  <2>5. EndOf(i + 1) \in Buffered
    BY <1>4, <2>2, <2>4
  <2>6. \A q \in Buffered : EndOf(i + 1) <= q
    BY <1>3
  <2>7. Buffered \subseteq Nat
    <3>1. Newlines \subseteq Nat
      BY LineAssumption DEF Newlines
    <3> QED
      BY <3>1 DEF Buffered
  <2> DEFINE e == EndOf(i + 1)
             B == Buffered
  <2>8. e \in B /\ B \subseteq Nat /\ \A q \in B : e <= q
    BY <2>5, <2>6, <2>7
  <2>9. Min(B) = e
    <3> HIDE DEF e, B
    <3>1. \A x \in B : (\A q \in B : x <= q) => x = e
      BY <2>8
    <3> QED
      BY <2>8, <3>1 DEF Min
  <2> QED
    BY <2>2, <2>4, <2>9
<1>6. Buffered = {} => (i < Count => end < EndOf(i + 1))
  <2> SUFFICES ASSUME Buffered = {}, i < Count PROVE end < EndOf(i + 1)
    OBVIOUS
  <2>1. EndOf(i + 1) \in Nat
    BY <1>1, <1>2
  <2> QED
    BY <1>1, <1>4, <2>1
<1> QED
  BY <1>5, <1>6

-----------------------------------------------------------------------------
\* The steps

\* The records yielded so far
Accepted == [k \in DOMAIN lines |-> RecordAt(lines[k])]

\* Held(j): record j has been yielded.
Held(j) == \E k \in DOMAIN lines : RecordAt(lines[k]) = j

LEMMA AppendMapped ==
  ASSUME NEW S, NEW T, NEW s \in Seq(S), NEW e \in S, NEW f \in [S -> T]
  PROVE  [k \in DOMAIN Append(s, e) |-> f[Append(s, e)[k]]]
            = Append([k \in DOMAIN s |-> f[s[k]]], f[e])
OBVIOUS

LEMMA LineAppended ==
  ASSUME NEW s \in Seq(Nat \X Nat), NEW e \in Nat \X Nat
  PROVE  /\ Append(s, e) \in Seq(Nat \X Nat)
         /\ Len(Append(s, e)) = Len(s) + 1
         /\ Len(s) + 1 \in DOMAIN Append(s, e) /\ Append(s, e)[Len(s) + 1] = e
         /\ \A k \in DOMAIN s : k \in DOMAIN Append(s, e) /\ Append(s, e)[k] = s[k]
         /\ \A k \in DOMAIN Append(s, e) :
                (k \in DOMAIN s /\ Append(s, e)[k] = s[k]) \/ Append(s, e)[k] = e
OBVIOUS

LEMMA LastAppended ==
  ASSUME NEW S, NEW s \in Seq(S), NEW e \in S
  PROVE  Append(s, e) # <<>> /\ Append(s, e)[Len(Append(s, e))] = e
OBVIOUS

LEMMA FlagsTyped ==
  LinesTypeOK /\ [NextLines]_lineVars => dropping' \in BOOLEAN /\ reading' \in BOOLEAN
BY Zenon DEF LinesTypeOK, NextLines, CutLine, NeedMore, Receive, lineVars

LEMMA YieldsNext ==
  ASSUME lines \in Seq(Nat \X Nat), NEW l \in Nat \X Nat, lines' = Append(lines, l),
         NEW n, RecordAt(l) = n
  PROVE  /\ Accepted' = Append(Accepted, n)
         /\ Abstract!LastAccepted' = n
         /\ Held(n)'
         /\ \A j : Held(j) => Held(j)'
<1>1. /\ Len(lines) + 1 \in DOMAIN lines' /\ lines'[Len(lines) + 1] = l
      /\ \A k \in DOMAIN lines : k \in DOMAIN lines' /\ lines'[k] = lines[k]
  BY LineAppended
<1>2. Held(n)' /\ \A j : Held(j) => Held(j)'
  BY <1>1 DEF Held
<1> DEFINE S == Nat \X Nat
           T == {RecordAt(x) : x \in S}
           f == [x \in S |-> RecordAt(x)]
           h == lines
<1>3. Accepted' = Append(Accepted, n)
  <2>1. h \in Seq(S) /\ l \in S
    OBVIOUS
  <2>2. f \in [S -> T] /\ f[l] = n
    OBVIOUS
  <2>3. Accepted = [k \in DOMAIN h |-> f[h[k]]]
    <3>1. \A k \in DOMAIN h : h[k] \in S
      BY <2>1
    <3> QED
      BY <3>1 DEF Accepted
  <2>4. Accepted' = [k \in DOMAIN Append(h, l) |-> f[Append(h, l)[k]]]
    <3>1. \A k \in DOMAIN Append(h, l) : Append(h, l)[k] \in S
      <4> HIDE DEF S
      <4> QED  BY <2>1
    <3>2. \A k \in DOMAIN Append(h, l) : f[Append(h, l)[k]] = RecordAt(Append(h, l)[k])
      BY <3>1
    <3>3. Accepted' = [k \in DOMAIN lines' |-> RecordAt(lines'[k])]
      BY DEF Accepted
    <3> HIDE DEF f, S
    <3> QED
      BY <3>2, <3>3
  <2> HIDE DEF S, T, f, h
  <2>5. [k \in DOMAIN Append(h, l) |-> f[Append(h, l)[k]]]
            = Append([k \in DOMAIN h |-> f[h[k]]], f[l])
    BY <2>1, <2>2, AppendMapped
  <2> QED
    BY <2>2, <2>3, <2>4, <2>5
<1>4. Abstract!LastAccepted' = n
  <2> DEFINE a == Accepted
             A == {a[k] : k \in DOMAIN a} \cup {n}
             z == Append(a, n)
  <2>1. a \in Seq(A) /\ n \in A
    <3>1. a = [k \in 1 .. Len(lines) |-> RecordAt(lines[k])] /\ Len(lines) \in Nat
      BY DEF Accepted
    <3> QED
      BY <3>1
  <2>2. Accepted' = z
    BY <1>3
  <2> HIDE DEF a, A
  <2>3. z # <<>> /\ z[Len(z)] = n
    BY <2>1, LastAppended, Zenon
  <2> HIDE DEF z
  <2> QED
    BY <2>2, <2>3 DEF Abstract!LastAccepted, Accepted
<1> QED
  BY <1>2, <1>3, <1>4

LEMMA CutLineStep ==
  ASSUME LinesTypeOK, NEW i \in 0 .. Count, LinesOf(i), CutLine
  PROVE  /\ LinesTypeOK' /\ i + 1 \in 0 .. Count /\ LinesOf(i + 1)'
         /\ Accepted' # Accepted => Abstract!Accept
<1>1. /\ start \in Nat /\ end \in Nat /\ Count \in Nat /\ MaxLine \in Nat
      /\ lines \in Seq(Nat \X Nat)
  BY EndsGrow, LineAssumption DEF LinesTypeOK
<1>0. dropping' \in BOOLEAN /\ reading' \in BOOLEAN
  BY FlagsTyped DEF NextLines
<1> DEFINE b == EndOf(i)
           e == EndOf(i + 1)
<1>2. i < Count /\ e <= end /\ start' = e /\ start < e /\ b <= start
  BY FirstBuffered DEF CutLine, LinesOf, CutTo
<1>3. i + 1 \in 0 .. Count /\ b \in Nat /\ e \in Nat
  BY <1>1, <1>2, EndsGrow
<1>4. i + 1 \in DOMAIN Lengths /\ Lengths[i + 1] = e - b
  BY <1>2, LengthAt
<1>5. CutTo(i + 1)'
  <2>1. i + 1 < Count => EndOf(i + 1) < EndOf((i + 1) + 1)
    <3> SUFFICES ASSUME i + 1 < Count PROVE EndOf(i + 1) < EndOf((i + 1) + 1)
      OBVIOUS
    <3> DEFINE h == i + 1
               k == h + 1
    <3>1. h \in 0 .. Count /\ k \in 0 .. Count /\ h < k
      BY <1>1, <1>3
    <3> HIDE DEF h, k
    <3>2. EndOf(h) < EndOf(k)
      BY <3>1, EndsGrow
    <3> QED
      BY <3>2 DEF h, k
  <2> QED
    BY <1>2, <1>3, <2>1 DEF CutTo, EndOf
<1>6. DropsTooLong(i + 1)' /\ ~reading' /\ UNCHANGED <<end, reading>> /\ ~dropping'
  BY <1>2 DEF CutLine, DropsTooLong, EndOf
<1>7. /\ Abstract!LastAccepted \in 0 .. i
      /\ \A j \in Abstract!LastAccepted + 1 .. i : Lengths[j] > MaxLine
      /\ \A j \in 1 .. i : Lengths[j] <= MaxLine => Held(j)
  BY DEF LinesOf, Yielded, Held
<1>8. CASE dropping \/ start' - start > MaxLine
  <2>1. lines' = lines
    BY <1>8 DEF CutLine
  <2>2. Lengths[i + 1] > MaxLine
    <3>1. dropping => start - b > MaxLine
      BY DEF LinesOf, DropsTooLong
    <3> QED
      BY <1>1, <1>2, <1>3, <1>4, <1>8, <3>1
  <2>3. Yielded(i + 1)'
    <3>1. Abstract!LastAccepted' = Abstract!LastAccepted
      BY <2>1 DEF Abstract!LastAccepted
    <3>2. \A j : Held(j) => Held(j)'
      BY <2>1 DEF Held
    <3>3. \A j \in 1 .. i + 1 : j \in 1 .. i \/ j = i + 1
      BY <1>3
    <3>4. Abstract!LastAccepted' \in 0 .. i + 1
      BY <1>7, <3>1
    <3>5. \A j \in Abstract!LastAccepted' + 1 .. i + 1 : Lengths[j] > MaxLine
      BY <1>7, <2>2, <3>1
    <3>6. \A j \in 1 .. i + 1 : Lengths[j] <= MaxLine => Held(j)'
      <4> SUFFICES ASSUME NEW j \in 1 .. i + 1, Lengths[j] <= MaxLine PROVE Held(j)'
        OBVIOUS
      <4>1. j # i + 1
        BY <1>1, <1>3, <1>4, <2>2
      <4> QED
        BY <1>7, <3>2, <3>3, <4>1
    <3> QED
      BY <3>4, <3>5, <3>6 DEF Yielded, Held
  <2>4. LinesTypeOK'
    <3>1. \A k \in DOMAIN lines : lines[k][2] \in Nat /\ lines[k][2] <= start
      BY <1>1 DEF LinesTypeOK
    <3>2. \A k \in DOMAIN lines : lines[k][2] <= e
      BY <1>1, <1>2, <1>3, <3>1
    <3> QED
      BY <1>0, <1>1, <1>2, <1>3, <1>6, <2>1, <3>2 DEF LinesTypeOK
  <2> QED
    BY <1>3, <1>5, <1>6, <2>1, <2>3, <2>4 DEF LinesOf, Accepted
<1>9. CASE ~(dropping \/ start' - start > MaxLine)
  <2> DEFINE l == <<start + 1, start'>>
  <2>1. lines' = Append(lines, l)
    BY <1>9 DEF CutLine
  <2>2. start = b
    BY <1>9 DEF LinesOf, DropsTooLong
  <2>3. RecordAt(l) = i + 1
    BY <1>2, <2>2, RecordOfLine
  <2>4. Lengths[i + 1] <= MaxLine
    BY <1>1, <1>2, <1>3, <1>4, <1>9, <2>2
  <2>5. l \in Nat \X Nat
    BY <1>1, <1>2, <1>3
  <2>6. /\ Accepted' = Append(Accepted, i + 1)
        /\ Abstract!LastAccepted' = i + 1
        /\ Held(i + 1)'
        /\ \A j : Held(j) => Held(j)'
    <3> HIDE DEF l
    <3> QED
      BY <1>1, <2>1, <2>3, <2>5, YieldsNext
  <2>7. Yielded(i + 1)'
    <3>1. \A j \in 1 .. i + 1 : j \in 1 .. i \/ j = i + 1
      BY <1>3
    <3>2. \A j \in 1 .. i + 1 : Lengths[j] <= MaxLine => Held(j)'
      BY <1>7, <2>6, <3>1
    <3>3. i + 1 \in 0 .. i + 1 /\ \A j \in (i + 1) + 1 .. i + 1 : FALSE
      BY <1>3
    <3> QED
      BY <2>6, <3>2, <3>3 DEF Yielded, Held
  <2>8. LinesTypeOK'
    <3>1. /\ lines' \in Seq(Nat \X Nat)
          /\ \A k \in DOMAIN lines' :
                (k \in DOMAIN lines /\ lines'[k] = lines[k]) \/ lines'[k] = l
      <4> HIDE DEF l
      <4> QED  BY <1>1, <2>1, <2>5, LineAppended
    <3>2. \A k \in DOMAIN lines : lines[k][2] \in Nat /\ lines[k][2] <= start
      BY <1>1 DEF LinesTypeOK
    <3>3. \A k \in DOMAIN lines' : lines'[k][2] <= start'
      <4>1. l[2] = start' /\ start' \in Nat /\ start < start'
        BY <1>1, <1>2, <1>3
      <4> HIDE DEF l
      <4> TAKE k \in DOMAIN lines'
      <4>2. CASE k \in DOMAIN lines /\ lines'[k] = lines[k]
        BY <1>1, <3>2, <4>1, <4>2
      <4>3. CASE lines'[k] = l
        BY <4>1, <4>3
      <4> QED
        BY <3>1, <4>2, <4>3
    <3> QED
      BY <1>0, <1>1, <1>2, <1>3, <1>6, <3>1, <3>3 DEF LinesTypeOK
  <2>9. Abstract!Accept
    <3>1. Abstract!IsNextWithinLimit(i + 1)
      BY <1>1, <1>3, <1>7, <2>4 DEF Abstract!IsNextWithinLimit
    <3> QED
      BY <1>4, <2>6, <3>1 DEF Abstract!Accept, Accepted
  <2> QED
    BY <1>3, <1>5, <1>6, <2>7, <2>8, <2>9 DEF LinesOf
<1> QED
  BY <1>8, <1>9

\* The other steps cut nothing off.
LEMMA KeepsLines ==
  ASSUME LinesTypeOK, NEW i \in 0 .. Count, LinesOf(i),
         NeedMore \/ (\E n \in 1 .. Chunk : Receive(n)) \/ UNCHANGED lineVars
  PROVE  LinesTypeOK' /\ LinesOf(i)' /\ UNCHANGED lines
<1>1. /\ start \in Nat /\ end \in Nat /\ Count \in Nat /\ MaxLine \in Nat
      /\ Chunk \in Nat /\ EndOf(i) \in Nat /\ start <= end
      /\ EndOf(i) <= start /\ (i < Count => start < EndOf(i + 1))
  BY EndsGrow, LineAssumption DEF LinesTypeOK, LinesOf, CutTo
<1>0. dropping' \in BOOLEAN /\ reading' \in BOOLEAN
  BY FlagsTyped DEF NextLines
<1>2. UNCHANGED lines
  BY DEF NeedMore, Receive, lineVars
<1>3. Yielded(i)'
  <2>1. Yielded(i)
    BY DEF LinesOf
  <2> QED
    BY <1>2, <2>1 DEF Yielded, Abstract!LastAccepted
<1>4. CASE UNCHANGED lineVars
  BY <1>3, <1>4 DEF lineVars, LinesTypeOK, LinesOf, CutTo, DropsTooLong, EndOf
<1>5. ASSUME NEW n \in 1 .. Chunk, Receive(n)
      PROVE  LinesTypeOK' /\ LinesOf(i)'
  <2>1. /\ end' = end + n /\ end + n <= Streamed /\ ~reading'
        /\ UNCHANGED <<start, dropping, lines>>
    BY <1>5 DEF Receive
  <2>2. LinesTypeOK'
    BY <1>0, <1>1, <1>5, <2>1 DEF LinesTypeOK
  <2>3. CutTo(i)' /\ DropsTooLong(i)'
    BY <2>1 DEF LinesOf, CutTo, DropsTooLong
  <2> QED
    BY <1>3, <2>1, <2>2, <2>3 DEF LinesOf
<1>6. CASE NeedMore
  <2>1. i < Count => end < EndOf(i + 1)
    BY <1>6, FirstBuffered DEF NeedMore, LinesOf
  <2>2. CASE ~dropping /\ Size > MaxLine
    <3>1. start' = end /\ dropping' /\ reading' /\ UNCHANGED <<end, lines>>
      BY <1>6, <2>2 DEF NeedMore
    <3>2. end - EndOf(i) > MaxLine
      BY <1>1, <2>2 DEF LinesOf, DropsTooLong, Size
    <3>3. LinesTypeOK'
      <4>1. \A k \in DOMAIN lines : lines[k][2] \in Nat /\ lines[k][2] <= start
        BY DEF LinesTypeOK
      <4>2. \A k \in DOMAIN lines : lines[k][2] <= end
        BY <1>1, <4>1
      <4> QED
        BY <1>0, <1>1, <3>1, <4>2 DEF LinesTypeOK
    <3>4. CutTo(i)' /\ DropsTooLong(i)'
      BY <1>1, <2>1, <3>1, <3>2 DEF CutTo, DropsTooLong
    <3> QED
      BY <1>3, <2>1, <3>1, <3>3, <3>4 DEF LinesOf
  <2>3. CASE ~(~dropping /\ Size > MaxLine)
    <3>1. reading' /\ UNCHANGED <<start, dropping, end, lines>>
      BY <1>6, <2>3 DEF NeedMore
    <3>2. LinesTypeOK'
      BY <1>0, <3>1 DEF LinesTypeOK
    <3>3. CutTo(i)' /\ DropsTooLong(i)'
      BY <3>1 DEF LinesOf, CutTo, DropsTooLong
    <3> QED
      BY <1>3, <2>1, <3>1, <3>2, <3>3 DEF LinesOf
  <2> QED
    BY <2>2, <2>3
<1> QED
  BY <1>2, <1>4, <1>5, <1>6

LEMMA LineInit == InitLines => LineInv
<1> SUFFICES ASSUME InitLines PROVE LineInv
  OBVIOUS
<1>1. 0 \in 0 .. Count /\ (0 < Count => 0 < EndOf(1)) /\ EndOf(0) = 0
  <2>1. Count \in Nat /\ \A i, j \in 0 .. Count : i < j => EndOf(i) < EndOf(j)
    BY EndsGrow
  <2>2. EndOf(0) = 0
    BY DEF EndOf
  <2>3. 0 < Count => 0 \in 0 .. Count /\ 1 \in 0 .. Count
    BY <2>1
  <2> QED
    BY <2>1, <2>2, <2>3
<1>2. LinesTypeOK
  <2>1. dropping \in BOOLEAN /\ reading \in BOOLEAN
    BY Zenon DEF InitLines
  <2> QED
    BY <2>1, LineAssumption DEF InitLines, LinesTypeOK
<1>3. Abstract!LastAccepted = 0
  BY DEF InitLines, Abstract!LastAccepted
<1>4. LinesOf(0)
  BY <1>1, <1>3 DEF InitLines, LinesOf, CutTo, DropsTooLong, Yielded
<1> QED
  BY <1>1, <1>2, <1>4 DEF LineInv

LEMMA LineStep ==
  LineInv /\ [NextLines]_lineVars => LineInv' /\ [Abstract!Accept]_Accepted
<1> SUFFICES ASSUME LineInv, [NextLines]_lineVars
             PROVE  LineInv' /\ [Abstract!Accept]_Accepted
  OBVIOUS
<1>1. PICK i \in 0 .. Count : LinesOf(i)
  BY DEF LineInv
<1>2. CASE CutLine
  <2>1. /\ LinesTypeOK' /\ i + 1 \in 0 .. Count /\ LinesOf(i + 1)'
        /\ Accepted' # Accepted => Abstract!Accept
    BY <1>1, <1>2, CutLineStep DEF LineInv
  <2> QED
    BY <2>1 DEF LineInv, Count
<1>3. CASE ~CutLine
  <2>1. LinesTypeOK' /\ LinesOf(i)' /\ UNCHANGED lines
    BY <1>1, <1>3, KeepsLines DEF NextLines, LineInv
  <2> QED
    BY <2>1 DEF LineInv, Count, Accepted
<1> QED
  BY <1>2, <1>3

\* While more is awaited, every record received whole and within the bound is out.
LEMMA LinesNotHeldBack == LineInv => NothingHeldBack
<1> SUFFICES ASSUME LineInv, reading, NEW j \in DOMAIN Lengths, EndOf(j) <= end,
                    Lengths[j] <= MaxLine
             PROVE  Held(j)
  BY DEF NothingHeldBack, Held
<1>1. PICK i \in 0 .. Count : LinesOf(i)
  BY DEF LineInv
<1>2. j \in 1 .. Count /\ Count \in Nat /\ end \in Nat
  BY EndsGrow DEF Lengths, LineInv, LinesTypeOK
<1>3. j <= i
  <2> SUFFICES ASSUME i < j PROVE FALSE
    BY <1>2
  <2>1. i + 1 \in 0 .. Count /\ j \in 0 .. Count /\ i + 1 <= j /\ i < Count
    BY <1>2
  <2>2. EndOf(i + 1) \in Nat /\ EndOf(j) \in Nat /\ EndOf(i + 1) <= EndOf(j)
    BY <1>2, <2>1, EndsGrow
  <2>3. end < EndOf(i + 1)
    BY <1>1, <2>1 DEF LinesOf
  <2> QED
    BY <1>2, <2>2, <2>3
<1> QED
  BY <1>1, <1>2, <1>3 DEF LinesOf, Yielded, Held

\* The types of what _iter_lines keeps, for any stream, bound and chunks: no line ends
\* beyond what has been cut from the buffer.
THEOREM LinesTyped == SpecLines => []LinesTypeOK
<1>1. LineInv /\ [NextLines]_lineVars => LineInv'
  BY LineStep
<1> QED
  BY <1>1, LineInit, PTL DEF SpecLines, LineInv

\* _iter_lines implements RecordStream, for any stream of bytes, any bound and any chunks:
\* what it yields is every record within the bound, whole, once and in order, and it asks
\* for more only when it has yielded all that it has received.
THEOREM LinesRefineStream == SpecLines => StreamRefined
<1>1. InitLines => Abstract!Init
  BY DEF InitLines, Abstract!Init
<1>2. LineInv /\ [NextLines]_lineVars => LineInv' /\ [Abstract!Accept]_Accepted
  BY LineStep
<1>3. LineInv /\ [NextLines]_lineVars => [NothingHeldBack']_lineVars
  <2>1. LineInv' => NothingHeldBack'
    BY LinesNotHeldBack, PTL
  <2> QED
    BY <1>2, <2>1
<1> QED
  BY <1>1, <1>2, <1>3, LineInit, PTL DEF SpecLines, StreamRefined, Abstract!Spec, Accepted
=============================================================================
