------------------------- MODULE EventsClientProofs -------------------------
(***************************************************************************)
(* Proofs about EventsClient, for any consumers, callbacks and queue size. *)
(***************************************************************************)
EXTENDS EventsClient, FiniteSetTheorems, SequenceTheorems, TLAPS

-----------------------------------------------------------------------------
\* The invariant

Item == Event \cup {Closed}
Items(q) == {q[i] : i \in DOMAIN q}

\* Events in the order of arrival, and nothing behind the terminal marker.
Sorted(q) ==
    \A i, j \in DOMAIN q : i < j => q[i] # Closed /\ (q[j] # Closed => q[i] < q[j])

QueueInv ==
    /\ Sorted(queue)
    /\ Closed \in Items(queue) => phase = "closed"

\* What close() knows of the callbacks that still run.
ClosingInv ==
    /\ IsClosed => tasks \subseteq cancelled \cup {closer}
    /\ phase \in {"awaiting", "closed"} /\ ~raises => tasks \subseteq awaited \cup {closer}
    /\ phase = "closed" => ~raises /\ tasks \cap awaited = {}

EventsInv ==
    /\ TypeOK
    /\ QueueInv
    /\ AllAccounted
    /\ InOrder
    /\ ignored # {} => IsClosed
    /\ ClosingInv

-----------------------------------------------------------------------------
\* Sequences

LEMMA TailItems ==
  ASSUME NEW S, NEW q \in Seq(S), q # <<>>
  PROVE  /\ Tail(q) \in Seq(S) /\ Len(q) = Len(Tail(q)) + 1
         /\ Head(q) \in S
         /\ Items(q) = Items(Tail(q)) \cup {Head(q)}
<1>1. /\ Tail(q) \in Seq(S) /\ Len(q) = Len(Tail(q)) + 1 /\ Len(q) \in Nat \ {0}
      /\ \A i \in DOMAIN Tail(q) : i + 1 \in DOMAIN q /\ Tail(q)[i] = q[i + 1]
      /\ \A i \in DOMAIN q : i = 1 \/ (i - 1 \in DOMAIN Tail(q) /\ Tail(q)[i - 1] = q[i])
      /\ 1 \in DOMAIN q /\ Head(q) = q[1] /\ q[1] \in S
  OBVIOUS
<1> DEFINE t == Tail(q)
<1>2. ASSUME NEW i \in DOMAIN q
      PROVE  q[i] = Head(q) \/ \E j \in DOMAIN t : q[i] = t[j]
  <2>1. i = 1 \/ (i - 1 \in DOMAIN t /\ t[i - 1] = q[i])
    BY <1>1
  <2> QED
    BY <1>1, <2>1
<1> HIDE DEF t
<1>4. Items(q) \subseteq Items(t) \cup {Head(q)}
  BY <1>2, Zenon DEF Items
<1>3. Items(Tail(q)) \subseteq Items(q) /\ Head(q) \in Items(q)
  BY <1>1 DEF Items
<1> QED
  BY <1>1, <1>3, <1>4 DEF t

LEMMA AppendItems ==
  ASSUME NEW S, NEW q \in Seq(S), NEW x \in S
  PROVE  /\ Append(q, x) \in Seq(S) /\ Len(Append(q, x)) = Len(q) + 1
         /\ Items(Append(q, x)) = Items(q) \cup {x}
<1>1. /\ Append(q, x) \in Seq(S) /\ Len(Append(q, x)) = Len(q) + 1
      /\ \A i \in DOMAIN q : i \in DOMAIN Append(q, x) /\ Append(q, x)[i] = q[i]
      /\ \A i \in DOMAIN Append(q, x) :
            i = Len(q) + 1 \/ (i \in DOMAIN q /\ Append(q, x)[i] = q[i])
      /\ Len(q) + 1 \in DOMAIN Append(q, x) /\ Append(q, x)[Len(q) + 1] = x
  OBVIOUS
<1> QED
  BY <1>1 DEF Items

LEMMA SingleItem ==
  ASSUME NEW S, NEW q \in Seq(S), q # <<>>, Len(Tail(q)) = 0
  PROVE  Append(Tail(q), Head(q)) = q
<1>1. Len(q) = 1
  OBVIOUS
<1>2. Head(q) = q[1] /\ q[1] \in S /\ Tail(q) \in Seq(S)
  OBVIOUS
<1> DEFINE t == Tail(q)  s == Append(t, q[1])
<1>3. t \in Seq(S) /\ Len(t) = 0
  BY <1>2
<1> HIDE DEF t
<1>4. s \in Seq(S) /\ Len(s) = 1 /\ s[1] = q[1]
  BY <1>2, <1>3
<1> HIDE DEF s
<1>5. Len(q) = Len(s) /\ \A i \in 1 .. Len(q) : q[i] = s[i]
  BY <1>1, <1>4
<1>6. q = s
  BY <1>4, <1>5, SeqEqual, Zenon
<1> QED
  BY <1>2, <1>6 DEF s, t

LEMMA SortedTail ==
  ASSUME NEW q \in Seq(Item), q # <<>>, Sorted(q)
  PROVE  /\ Sorted(Tail(q))
         /\ \A e \in Items(Tail(q)) : Head(q) # Closed /\ (e # Closed => Head(q) < e)
<1>1. /\ \A i \in DOMAIN Tail(q) :
            i \in Nat \ {0} /\ i + 1 \in DOMAIN q /\ Tail(q)[i] = q[i + 1]
      /\ 1 \in DOMAIN q /\ Head(q) = q[1]
  OBVIOUS
<1>2. Sorted(Tail(q))
  <2> SUFFICES ASSUME NEW i \in DOMAIN Tail(q), NEW j \in DOMAIN Tail(q), i < j
               PROVE  /\ Tail(q)[i] # Closed
                      /\ Tail(q)[j] # Closed => Tail(q)[i] < Tail(q)[j]
    BY DEF Sorted
  <2>1. /\ i + 1 \in DOMAIN q /\ j + 1 \in DOMAIN q /\ i + 1 < j + 1
        /\ Tail(q)[i] = q[i + 1] /\ Tail(q)[j] = q[j + 1]
    BY <1>1
  <2> QED
    BY <2>1, Zenon DEF Sorted
<1>3. ASSUME NEW i \in DOMAIN Tail(q)
      PROVE  Head(q) # Closed /\ (Tail(q)[i] # Closed => Head(q) < Tail(q)[i])
  <2>1. /\ 1 \in DOMAIN q /\ i + 1 \in DOMAIN q /\ 1 < i + 1
        /\ Head(q) = q[1] /\ Tail(q)[i] = q[i + 1]
    BY <1>1
  <2> QED
    BY <2>1, Zenon DEF Sorted
<1> QED
  BY <1>2, <1>3 DEF Items

LEMMA SortedAppend ==
  ASSUME NEW q \in Seq(Item), Sorted(q), NEW x \in Item, Closed \notin Items(q),
         x # Closed => \A e \in Items(q) : e < x
  PROVE  Sorted(Append(q, x))
<1> DEFINE a == Append(q, x)
<1>1. /\ \A i \in DOMAIN a : /\ i \in 1 .. Len(q) + 1
                             /\ i = Len(q) + 1 => a[i] = x
                             /\ i # Len(q) + 1 => i \in DOMAIN q /\ a[i] = q[i]
      /\ Len(q) \in Nat
  OBVIOUS
<1> HIDE DEF a
<1> SUFFICES ASSUME NEW i \in DOMAIN a, NEW j \in DOMAIN a, i < j
             PROVE  a[i] # Closed /\ (a[j] # Closed => a[i] < a[j])
  BY DEF Sorted, a
<1>2. i \in DOMAIN q /\ a[i] = q[i]
  BY <1>1
<1>3. q[i] \in Items(q)
  BY <1>2 DEF Items
<1>4. CASE j = Len(q) + 1
  <2>1. a[j] = x
    BY <1>1, <1>4
  <2> QED
    BY <1>2, <1>3, <2>1
<1>5. CASE j # Len(q) + 1
  <2>1. j \in DOMAIN q /\ a[j] = q[j]
    BY <1>1, <1>5
  <2> QED
    BY <1>2, <2>1 DEF Sorted
<1> QED
  BY <1>4, <1>5

-----------------------------------------------------------------------------
\* on_event, _wake_iterator and __anext__

LEMMA EventsAreNat == Event \subseteq Nat /\ Closed \notin Event /\ QueueSize \in Nat \ {0}
BY EventsAssumption DEF Event

\* An item newer than all that is accounted for is put into an open queue.
LEMMA PutKeeps ==
  ASSUME queue \in Seq(Item), Len(queue) <= QueueSize, Sorted(queue),
         Closed \notin Items(queue), dropped \in Nat, lost \subseteq Event,
         NEW x \in Item, x # Closed => \A e \in Items(queue) : e < x, Put(x)
  PROVE  /\ queue' \in Seq(Item) /\ Len(queue') <= QueueSize /\ Sorted(queue')
         /\ dropped' \in Nat /\ lost' \subseteq Event /\ lost \subseteq lost'
         /\ x \in Items(queue') /\ Items(queue') \subseteq Items(queue) \cup {x}
         /\ Items(queue') \cup lost' = Items(queue) \cup lost \cup {x}
         /\ \A e \in Items(queue'), d \in lost' \ lost : e # Closed => d < e
<1>1. CASE Len(queue) < QueueSize
  <2>1. queue' = Append(queue, x) /\ dropped' = dropped /\ lost' = lost
    BY <1>1 DEF Put
  <2>2. /\ Append(queue, x) \in Seq(Item) /\ Len(Append(queue, x)) = Len(queue) + 1
        /\ Items(Append(queue, x)) = Items(queue) \cup {x}
        /\ Sorted(Append(queue, x))
    BY AppendItems, SortedAppend
  <2> QED
    BY <1>1, <2>1, <2>2, EventsAreNat
<1>2. CASE ~(Len(queue) < QueueSize)
  <2>1. /\ queue' = Append(Tail(queue), x) /\ dropped' = dropped + 1
        /\ lost' = lost \cup {Head(queue)}
    BY <1>2 DEF Put
  <2>2. queue # <<>>
    BY <1>2, EventsAreNat
  <2> DEFINE t == Tail(queue)
  <2>3. /\ t \in Seq(Item) /\ Len(queue) = Len(t) + 1
        /\ Head(queue) \in Item
        /\ Items(queue) = Items(t) \cup {Head(queue)}
    BY <2>2, TailItems
  <2>4. /\ Sorted(t)
        /\ \A e \in Items(t) : e # Closed => Head(queue) < e
    BY <2>2, SortedTail
  <2>5. queue' = Append(t, x)
    BY <2>1
  <2> HIDE DEF t
  <2>6. Closed \notin Items(t) /\ Head(queue) \in Event
    BY <2>3 DEF Item
  <2>7. /\ Append(t, x) \in Seq(Item) /\ Len(Append(t, x)) = Len(t) + 1
        /\ Items(Append(t, x)) = Items(t) \cup {x}
    BY <2>3, AppendItems
  <2>8. Sorted(Append(t, x))
    BY <2>3, <2>4, <2>6, SortedAppend
  <2>9. Len(queue') <= QueueSize
    BY <2>3, <2>5, <2>7
  <2>10. ASSUME NEW e \in Items(queue'), NEW d \in lost' \ lost, e # Closed
         PROVE  d < e
    <3>1. d = Head(queue) /\ d \in Items(queue)
      BY <2>1, <2>3
    <3>2. e \in Items(t) \/ e = x
      BY <2>5, <2>7
    <3> QED
      BY <2>4, <2>10, <3>1, <3>2
  <2>11. /\ Items(queue') = Items(t) \cup {x}
         /\ lost' = lost \cup {Head(queue)}
         /\ Items(queue) = Items(t) \cup {Head(queue)}
    BY <2>1, <2>3, <2>5, <2>7
  <2>12. Items(queue') \cup lost' = Items(queue) \cup lost \cup {x}
    BY <2>11, Zenon
  <2>13. dropped' \in Nat
    BY <2>1
  <2>14. queue' \in Seq(Item) /\ Sorted(queue')
    BY <2>5, <2>7, <2>8
  <2> QED
    BY <2>6, <2>9, <2>10, <2>11, <2>12, <2>13, <2>14
<1> QED
  BY <1>1, <1>2

\* The terminal marker is alone in the queue when it is found, and stays there.
LEMMA EndKeeps ==
  ASSUME queue \in Seq(Item), queue # <<>>, Sorted(queue), Head(queue) = Closed
  PROVE  Append(Tail(queue), Closed) = queue
<1>1. Items(Tail(queue)) = {}
  BY SortedTail
<1>2. DOMAIN Tail(queue) = {}
  BY <1>1 DEF Items
<1>3. Tail(queue) \in Seq(Item)
  BY TailItems
<1> DEFINE t == Tail(queue)
<1> HIDE DEF t
<1>4. t \in Seq(Item) /\ DOMAIN t = {}
  BY <1>2, <1>3 DEF t
<1>5. Len(t) \in Nat /\ DOMAIN t = 1 .. Len(t)
  BY <1>4
<1>6. ~(1 \in 1 .. Len(t))
  BY <1>4, <1>5
<1>7. Len(t) = 0
  BY <1>5, <1>6
<1> QED
  BY <1>7, SingleItem DEF t

\* An event that is taken is newer than all that were taken before.
LEMMA TakenAppend ==
  ASSUME NEW s \in Seq(Event), NEW x \in Event,
         \A i \in 1 .. Len(s) - 1 : s[i] < s[i + 1],
         \A i \in DOMAIN s : s[i] < x
  PROVE  /\ Append(s, x) \in Seq(Event)
         /\ \A i \in 1 .. Len(Append(s, x)) - 1 : Append(s, x)[i] < Append(s, x)[i + 1]
<1>1. Append(s, x) \in Seq(Event) /\ Len(Append(s, x)) = Len(s) + 1 /\ Len(s) \in Nat
  OBVIOUS
<1>2. ASSUME NEW i \in 1 .. Len(s)
      PROVE  Append(s, x)[i] < Append(s, x)[i + 1]
  <2>1. i \in DOMAIN s /\ Append(s, x)[i] = s[i]
    OBVIOUS
  <2>2. CASE i = Len(s)
    BY <2>1, <2>2
  <2>3. CASE i # Len(s)
    BY <2>1, <2>3
  <2> QED
    BY <2>2, <2>3
<1> QED
  BY <1>1, <1>2

-----------------------------------------------------------------------------
\* The parts of the type invariant

DataTypeOK ==
    /\ queue \in Seq(Item) /\ Len(queue) <= QueueSize
    /\ dropped \in Nat
    /\ received \in 0 .. MaxEvents
    /\ lost \subseteq Event
    /\ ignored \subseteq Event
    /\ taken \in [Consumer -> Seq(Event)]

RestTypeOK ==
    /\ {autoReconnect, connected, over, disconnecting, raises} \subseteq BOOLEAN
    /\ handlers \subseteq Handler
    /\ tasks \subseteq Task
    /\ cancelled \subseteq tasks
    /\ iterating \in [Consumer -> {"idle", "waiting", "ended"}]
    /\ phase \in {"open", "awaiting", "closed", "failed"}
    /\ closer \in {Application, Reader, None} \cup Task
    /\ awaited \subseteq Task

LEMMA TypeParts == TypeOK => DataTypeOK /\ RestTypeOK
BY Zenon DEF TypeOK, DataTypeOK, RestTypeOK, Item

LEMMA TypeFromParts ==
  ASSUME DataTypeOK, RestTypeOK, Sorted(queue)
  PROVE  TypeOK
<1>1. ASSUME NEW i \in 1 .. Len(queue) - 1 PROVE queue[i] # Closed
  <2>1. queue \in Seq(Item)
    BY DEF DataTypeOK
  <2>2. i \in DOMAIN queue /\ i + 1 \in DOMAIN queue /\ i < i + 1
    BY <2>1
  <2> QED
    BY <2>2, Zenon DEF Sorted
<1> QED
  BY <1>1, Zenon DEF TypeOK, DataTypeOK, RestTypeOK, Item

\* The same for the next state.
LEMMA TypeFromPartsNext ==
  ASSUME DataTypeOK', RestTypeOK', Sorted(queue)'
  PROVE  TypeOK'
<1>1. ASSUME NEW i \in 1 .. Len(queue') - 1 PROVE queue'[i] # Closed
  <2>1. queue' \in Seq(Item)
    BY DEF DataTypeOK
  <2>2. i \in DOMAIN queue' /\ i + 1 \in DOMAIN queue' /\ i < i + 1
    BY <2>1
  <2> QED
    BY <2>2, Zenon DEF Sorted
<1> QED
  BY <1>1, Zenon DEF TypeOK, DataTypeOK, RestTypeOK, Item

LEMMA QueuedItems == Queued = Items(queue) \ {Closed}
BY DEF Queued, Items

LEMMA TakenOf == \A e : e \in Taken <=> \E c \in Consumer : \E i \in DOMAIN taken[c] : e = taken[c][i]
BY DEF Taken

-----------------------------------------------------------------------------

\* A step that leaves the queue and its history alone.
LEMMA QuietKeeps ==
  ASSUME EventsInv, UNCHANGED <<queue, dropped, received, lost, ignored, taken>>,
         RestTypeOK', ClosingInv',
         phase = "closed" => phase' = "closed", IsClosed => IsClosed'
  PROVE  EventsInv'
<1>1. DataTypeOK /\ Sorted(queue)
  BY TypeParts DEF EventsInv, QueueInv
<1>2. TypeOK'
  BY <1>1, TypeFromPartsNext DEF DataTypeOK
<1>3. QueueInv'
  BY DEF EventsInv, QueueInv
<1>4. Queued' = Queued /\ Taken' = Taken
  BY DEF Queued, Taken
<1>5. AllAccounted'
  BY <1>4 DEF EventsInv, AllAccounted
<1>6. InOrder'
  BY <1>4 DEF EventsInv, InOrder
<1> QED
  BY <1>2, <1>3, <1>5, <1>6 DEF EventsInv

LEMMA OnEventKeeps == ASSUME EventsInv, OnEvent PROVE EventsInv'
<1>1. DataTypeOK /\ RestTypeOK
  BY TypeParts DEF EventsInv
<1>2. /\ received < MaxEvents /\ received' = received + 1
      /\ UNCHANGED <<autoReconnect, connected, over, disconnecting, handlers, cancelled,
                     iterating, phase, closer, awaited, raises, taken>>
  BY DEF OnEvent, link, close
<1>3. /\ received \in Nat /\ received' \in Nat /\ received' \in 0 .. MaxEvents
      /\ received' \in Event /\ 1 .. received' = (1 .. received) \cup {received'}
      /\ MaxEvents \in Nat
  BY <1>1, <1>2, EventsAssumption DEF DataTypeOK, Event
<1>4. Queued \cup Taken \cup lost \cup ignored = 1 .. received
  BY DEF EventsInv, AllAccounted
<1>5. \A e \in Queued \cup Taken \cup lost \cup ignored : e < received'
  BY <1>2, <1>3, <1>4
<1>6. Taken' = Taken
  BY <1>2 DEF Taken
<1>7. CASE IsClosed
  <2>1. ignored' = ignored \cup {received'} /\ UNCHANGED <<queue, dropped, tasks, lost>>
    BY <1>7 DEF OnEvent
  <2>2. Queued' = Queued
    BY <2>1 DEF Queued
  <2>3. RestTypeOK'
    BY <1>1, <1>2, <2>1 DEF RestTypeOK
  <2>4. DataTypeOK'
    BY <1>1, <1>2, <1>3, <2>1 DEF DataTypeOK
  <2>5. QueueInv'
    BY <1>2, <2>1 DEF EventsInv, QueueInv
  <2>6. TypeOK'
    BY <2>3, <2>4, <2>5, TypeFromPartsNext DEF QueueInv
  <2>7. AllAccounted'
    BY <1>3, <1>4, <1>6, <2>1, <2>2 DEF AllAccounted
  <2>8. InOrder'
    BY <1>2, <1>5, <1>6, <2>1, <2>2 DEF EventsInv, InOrder
  <2>9. ClosingInv' /\ IsClosed'
    BY <1>2, <1>7, <2>1 DEF EventsInv, ClosingInv, IsClosed
  <2> QED
    BY <2>5, <2>6, <2>7, <2>8, <2>9 DEF EventsInv
<1>8. CASE ~IsClosed
  <2>1. /\ Put(received') /\ tasks' = tasks \cup (handlers \X {received'})
        /\ ignored' = ignored
    BY <1>8 DEF OnEvent
  <2>2. Closed \notin Items(queue) /\ ignored = {} /\ Sorted(queue)
    BY <1>8 DEF EventsInv, QueueInv, IsClosed
  <2>3. Queued = Items(queue)
    BY <2>2, QueuedItems
  <2>4. received' \in Item /\ \A e \in Items(queue) : e < received'
    BY <1>3, <1>5, <2>3 DEF Item
  <2>5. /\ queue \in Seq(Item) /\ Len(queue) <= QueueSize
        /\ dropped \in Nat /\ lost \subseteq Event
    BY <1>1 DEF DataTypeOK
  <2>6. /\ queue' \in Seq(Item) /\ Len(queue') <= QueueSize /\ Sorted(queue')
        /\ dropped' \in Nat /\ lost' \subseteq Event /\ lost \subseteq lost'
        /\ received' \in Items(queue')
        /\ Items(queue') \subseteq Items(queue) \cup {received'}
        /\ Items(queue') \cup lost' = Items(queue) \cup lost \cup {received'}
        /\ \A e \in Items(queue'), d \in lost' \ lost : e # Closed => d < e
    BY <2>1, <2>2, <2>4, <2>5, PutKeeps
  <2>7. Closed \notin Items(queue')
    BY <1>3, <2>2, <2>6, EventsAreNat
  <2>8. Queued' = Items(queue')
    BY <2>7 DEF Queued, Items
  <2>9. RestTypeOK'
    <3>1. tasks' \subseteq Task /\ cancelled' \subseteq tasks'
      BY <1>1, <1>2, <1>3, <2>1 DEF RestTypeOK, Task
    <3> QED
      BY <1>1, <1>2, <3>1 DEF RestTypeOK
  <2>10. DataTypeOK'
    BY <1>1, <1>2, <1>3, <2>1, <2>6 DEF DataTypeOK
  <2>11. QueueInv'
    BY <2>6, <2>7 DEF QueueInv
  <2>12. TypeOK'
    BY <2>6, <2>9, <2>10, TypeFromPartsNext
  <2>13. AllAccounted'
    BY <1>3, <1>4, <1>6, <2>1, <2>3, <2>6, <2>8 DEF AllAccounted
  <2>14. InOrder'
    <3>1. ASSUME NEW e \in Queued', NEW d \in Taken' \cup lost'
          PROVE  d < e
      <4>1. CASE d \in lost' \ lost
        BY <2>6, <2>7, <2>8, <4>1
      <4>2. CASE d \in Taken \cup lost
        <5>1. CASE e = received'
          BY <1>5, <4>2, <5>1
        <5>2. CASE e # received'
          <6>1. e \in Queued
            BY <2>3, <2>6, <2>8, <5>2
          <6> QED
            BY <4>2, <6>1 DEF EventsInv, InOrder
        <5> QED
          BY <5>1, <5>2
      <4> QED
        BY <1>6, <4>1, <4>2
    <3> QED
      BY <1>2, <2>1, <2>2, <3>1 DEF EventsInv, InOrder
  <2>15. ClosingInv' /\ ignored' = {}
    BY <1>2, <1>8, <2>1, <2>2 DEF ClosingInv, IsClosed
  <2> QED
    BY <2>11, <2>12, <2>13, <2>14, <2>15 DEF EventsInv
<1> QED
  BY <1>7, <1>8

LEMMA FinishKeeps == ASSUME EventsInv, FinishClose PROVE EventsInv'
<1>1. DataTypeOK /\ RestTypeOK
  BY TypeParts DEF EventsInv
<1>2. /\ phase = "awaiting" /\ tasks \cap awaited = {} /\ ~raises
      /\ Put(Closed) /\ phase' = "closed"
      /\ over' = (over \/ closer # Reader)
      /\ connected' = (connected /\ closer = Reader)
      /\ UNCHANGED <<autoReconnect, disconnecting, handlers, tasks, cancelled, iterating,
                     closer, awaited, raises, received, ignored, taken>>
  BY DEF FinishClose
<1>3. Closed \notin Items(queue) /\ Sorted(queue)
  BY <1>2 DEF EventsInv, QueueInv
<1>4. Queued = Items(queue)
  BY <1>3, QueuedItems
<1>5. /\ queue \in Seq(Item) /\ Len(queue) <= QueueSize /\ Closed \in Item
      /\ dropped \in Nat /\ lost \subseteq Event
  BY <1>1 DEF DataTypeOK, Item
<1>6. /\ queue' \in Seq(Item) /\ Len(queue') <= QueueSize /\ Sorted(queue')
      /\ dropped' \in Nat /\ lost' \subseteq Event /\ lost \subseteq lost'
      /\ Items(queue') \subseteq Items(queue) \cup {Closed}
      /\ Items(queue') \cup lost' = Items(queue) \cup lost \cup {Closed}
      /\ \A e \in Items(queue'), d \in lost' \ lost : e # Closed => d < e
  BY <1>2, <1>3, <1>5, PutKeeps
<1>7. Queued' = Items(queue') \ {Closed}
  BY DEF Queued, Items
<1>8. Closed \notin lost' /\ Closed \notin lost
  BY <1>5, <1>6, EventsAreNat
<1>9. Queued' \cup lost' = Queued \cup lost /\ Queued' \subseteq Queued
  BY <1>3, <1>4, <1>6, <1>7, <1>8
<1>10. Taken' = Taken
  BY <1>2 DEF Taken
<1>11. RestTypeOK'
  <2>1. over' \in BOOLEAN /\ connected' \in BOOLEAN
    BY <1>2, Zenon
  <2> QED
    BY <1>1, <1>2, <2>1 DEF RestTypeOK
<1>12. DataTypeOK'
  BY <1>1, <1>2, <1>6 DEF DataTypeOK
<1>13. QueueInv' /\ TypeOK'
  BY <1>2, <1>6, <1>11, <1>12, TypeFromPartsNext DEF QueueInv
<1>14. AllAccounted'
  BY <1>2, <1>9, <1>10 DEF EventsInv, AllAccounted
<1>15. InOrder'
  <2>1. ASSUME NEW e \in Queued', NEW d \in Taken' \cup lost'
        PROVE  d < e
    <3>1. CASE d \in lost' \ lost
      BY <1>6, <1>7, <3>1
    <3>2. CASE d \in Taken \cup lost
      BY <1>9, <3>2 DEF EventsInv, InOrder
    <3> QED
      BY <1>10, <3>1, <3>2
  <2>2. ASSUME NEW e \in ignored', NEW d \in Queued' \cup Taken' \cup lost'
        PROVE  d < e
    BY <1>2, <1>9, <1>10 DEF EventsInv, InOrder
  <2> QED
    BY <1>2, <2>1, <2>2 DEF EventsInv, InOrder
<1>16. ClosingInv' /\ IsClosed'
  BY <1>2 DEF EventsInv, ClosingInv, IsClosed
<1> QED
  BY <1>13, <1>14, <1>15, <1>16 DEF EventsInv

LEMMA AnextKeeps == ASSUME EventsInv, NEW c \in Consumer, Anext(c) PROVE EventsInv'
<1>1. DataTypeOK /\ RestTypeOK /\ Sorted(queue)
  BY TypeParts DEF EventsInv, QueueInv
<1>2. /\ queue # <<>>
      /\ UNCHANGED <<autoReconnect, connected, over, disconnecting, dropped, handlers, tasks,
                     cancelled, phase, closer, awaited, raises, received, lost, ignored>>
  BY DEF Anext, link, close
<1>3. queue \in Seq(Item)
  BY <1>1 DEF DataTypeOK
<1>4. CASE Head(queue) = Closed
  <2>1. /\ iterating' = [iterating EXCEPT ![c] = "ended"]
        /\ queue' = Append(Tail(queue), Closed) /\ taken' = taken
    BY <1>4 DEF Anext, EndIteration
  <2>2. queue' = queue
    BY <1>1, <1>2, <1>3, <1>4, <2>1, EndKeeps
  <2>3. RestTypeOK'
    BY <1>1, <1>2, <2>1 DEF RestTypeOK
  <2>4. ClosingInv'
    BY <1>2 DEF EventsInv, ClosingInv, IsClosed
  <2> QED
    BY <1>2, <2>1, <2>2, <2>3, <2>4, QuietKeeps DEF IsClosed
<1>5. CASE Head(queue) # Closed
  <2>1. /\ iterating' = [iterating EXCEPT ![c] = "idle"]
        /\ queue' = Tail(queue)
        /\ taken' = [taken EXCEPT ![c] = Append(@, Head(queue))]
    BY <1>5 DEF Anext, TakeEvent
  <2> DEFINE x == Head(queue)
  <2>2. /\ queue' \in Seq(Item) /\ Len(queue) = Len(queue') + 1 /\ x \in Item
        /\ Items(queue) = Items(queue') \cup {x}
    BY <1>2, <1>3, <2>1, TailItems
  <2>3. /\ Sorted(queue')
        /\ \A e \in Items(queue') : e # Closed => x < e
    BY <1>1, <1>2, <1>3, <2>1, SortedTail
  <2>4. x \in Event /\ x # Closed
    BY <1>5, <2>2 DEF Item
  <2>5. taken' = [taken EXCEPT ![c] = Append(@, x)]
    BY <2>1
  <2> HIDE DEF x
  <2>6. Queued = Queued' \cup {x} /\ \A e \in Queued' : x < e
    <3>1. Queued' = Items(queue') \ {Closed}
      BY DEF Queued, Items
    <3> QED
      BY <2>2, <2>3, <2>4, <3>1, QueuedItems
  <2>7. taken[c] \in Seq(Event) /\ taken \in [Consumer -> Seq(Event)]
    BY <1>1 DEF DataTypeOK
  <2>8. \A i \in DOMAIN taken[c] : taken[c][i] < x
    <3> SUFFICES ASSUME NEW i \in DOMAIN taken[c] PROVE taken[c][i] < x
      OBVIOUS
    <3>1. taken[c][i] \in Taken /\ x \in Queued
      BY <2>6, TakenOf
    <3> QED
      BY <3>1 DEF EventsInv, InOrder
  <2>9. /\ Append(taken[c], x) \in Seq(Event)
        /\ \A i \in 1 .. Len(Append(taken[c], x)) - 1 :
              Append(taken[c], x)[i] < Append(taken[c], x)[i + 1]
    <3>1. \A i \in 1 .. Len(taken[c]) - 1 : taken[c][i] < taken[c][i + 1]
      BY DEF EventsInv, InOrder
    <3> QED
      BY <2>4, <2>7, <2>8, <3>1, TakenAppend
  <2>10. /\ taken' \in [Consumer -> Seq(Event)]
         /\ taken'[c] = Append(taken[c], x)
         /\ \A d \in Consumer : d # c => taken'[d] = taken[d]
    BY <2>5, <2>7, <2>9
  <2>11. Taken' = Taken \cup {x}
    <3>1. Items(taken'[c]) = Items(taken[c]) \cup {x}
      BY <2>4, <2>7, <2>10, AppendItems
    <3>2. Taken = UNION {Items(taken[d]) : d \in Consumer}
      BY DEF Taken, Items
    <3>3. Taken' = UNION {Items(taken'[d]) : d \in Consumer}
      BY DEF Taken, Items
    <3> QED
      BY <2>10, <3>1, <3>2, <3>3
  <2>12. RestTypeOK'
    BY <1>1, <1>2, <2>1 DEF RestTypeOK
  <2>13. DataTypeOK'
    <3>1. Len(queue') <= QueueSize
      BY <1>1, <2>2, EventsAreNat DEF DataTypeOK
    <3> QED
      BY <1>1, <1>2, <2>2, <2>10, <3>1 DEF DataTypeOK
  <2>14. QueueInv' /\ TypeOK'
    BY <1>2, <2>2, <2>3, <2>12, <2>13, TypeFromPartsNext DEF EventsInv, QueueInv
  <2>15. AllAccounted'
    BY <1>2, <2>6, <2>11 DEF EventsInv, AllAccounted
  <2>16. InOrder'
    <3>1. ASSUME NEW d \in Consumer, NEW i \in 1 .. Len(taken'[d]) - 1
          PROVE  taken'[d][i] < taken'[d][i + 1]
      <4>1. CASE d = c
        BY <2>9, <2>10, <4>1
      <4>2. CASE d # c
        BY <2>10, <4>2 DEF EventsInv, InOrder
      <4> QED
        BY <4>1, <4>2
    <3>2. ASSUME NEW e \in Queued', NEW d \in Taken' \cup lost'
          PROVE  d < e
      BY <1>2, <2>6, <2>11 DEF EventsInv, InOrder
    <3>3. ASSUME NEW e \in ignored', NEW d \in Queued' \cup Taken' \cup lost'
          PROVE  d < e
      BY <1>2, <2>6, <2>11 DEF EventsInv, InOrder
    <3> QED
      BY <3>1, <3>2, <3>3 DEF InOrder
  <2>17. ClosingInv' /\ (ignored' # {} => IsClosed')
    BY <1>2 DEF EventsInv, ClosingInv, IsClosed
  <2> QED
    BY <2>14, <2>15, <2>16, <2>17 DEF EventsInv
<1> QED
  BY <1>4, <1>5

-----------------------------------------------------------------------------

LEMMA EventsInit == Init => EventsInv
<1> SUFFICES ASSUME Init PROVE EventsInv
  OBVIOUS
<1> USE EventsAssumption DEF Init
<1>1. DataTypeOK
  <2>1. queue \in Seq(Item) /\ Len(queue) = 0 /\ QueueSize \in Nat
    OBVIOUS
  <2>2. /\ taken \in [Consumer -> Seq(Event)] /\ dropped \in Nat
        /\ received \in 0 .. MaxEvents /\ lost \subseteq Event /\ ignored \subseteq Event
    OBVIOUS
  <2> QED
    BY <2>1, <2>2 DEF DataTypeOK
<1>2. RestTypeOK
  <2>1. {autoReconnect, connected, over, disconnecting, raises} \subseteq BOOLEAN
    BY Zenon
  <2> QED
    BY <2>1 DEF RestTypeOK
<1>3. queue = <<>> /\ Items(queue) = {} /\ Sorted(queue)
  BY DEF Items, Sorted
<1>4. Queued = {} /\ Taken = {}
  BY DEF Queued, Taken
<1>5. AllAccounted
  BY <1>4 DEF AllAccounted
<1>6. InOrder
  BY <1>4 DEF InOrder
<1>7. QueueInv /\ ClosingInv /\ ignored = {}
  BY <1>3 DEF QueueInv, ClosingInv, IsClosed
<1> HIDE DEF Init
<1>8. TypeOK
  BY <1>1, <1>2, <1>3, TypeFromParts
<1> QED
  BY <1>5, <1>6, <1>7, <1>8 DEF EventsInv

LEMMA EventsStep == EventsInv /\ [Next]_vars => EventsInv'
<1> SUFFICES ASSUME EventsInv, [Next]_vars PROVE EventsInv'
  OBVIOUS
<1>1. RestTypeOK /\ ClosingInv
  BY TypeParts DEF EventsInv
<1> DEFINE Quiet == UNCHANGED <<queue, dropped, received, lost, ignored, taken>>
<1>2. CASE OnEvent
  BY <1>2, OnEventKeeps
<1>3. ASSUME NEW h \in Handler, AddHandler(h) \/ RemoveHandler(h)
      PROVE  EventsInv'
  <2>1. /\ Quiet /\ handlers' \subseteq Handler
        /\ UNCHANGED <<autoReconnect, connected, over, disconnecting, tasks, cancelled,
                       iterating, phase, closer, awaited, raises>>
    BY <1>1, <1>3 DEF AddHandler, RemoveHandler, SetHandlers, RestTypeOK, link, close, history
  <2>2. RestTypeOK' /\ ClosingInv' /\ IsClosed' = IsClosed
    BY <1>1, <2>1 DEF RestTypeOK, ClosingInv, IsClosed
  <2> QED
    BY <2>1, <2>2, QuietKeeps
<1>4. ASSUME NEW t \in Task, HandlerEnds(t)
      PROVE  EventsInv'
  <2>1. /\ Quiet /\ tasks' = tasks \ {t} /\ cancelled' = cancelled \ {t}
        /\ UNCHANGED <<autoReconnect, connected, over, disconnecting, handlers,
                       iterating, phase, closer, awaited, raises>>
    BY <1>4 DEF HandlerEnds, link, close, history
  <2>2. RestTypeOK' /\ ClosingInv' /\ IsClosed' = IsClosed
    BY <1>1, <2>1 DEF RestTypeOK, ClosingInv, IsClosed
  <2> QED
    BY <2>1, <2>2, QuietKeeps
<1>5. ASSUME NEW t \in Task, CallbackCloses(t)
      PROVE  EventsInv'
  <2>1. /\ Quiet /\ ~IsClosed /\ phase' = "awaiting" /\ closer' = t
        /\ cancelled' = tasks \ {t}
        /\ \/ awaited' = tasks \ {t} /\ raises' = FALSE
           \/ awaited' \subseteq tasks \ {t} /\ raises' = TRUE
        /\ UNCHANGED <<autoReconnect, connected, over, disconnecting, handlers, tasks,
                       iterating>>
    BY <1>5 DEF CallbackCloses, link, history
  <2>2. ClosingInv' /\ IsClosed' /\ phase # "closed"
    BY <1>1, <2>1 DEF ClosingInv, IsClosed
  <2>3. {autoReconnect', connected', over', disconnecting', raises'} \subseteq BOOLEAN
    BY <1>1, <2>1 DEF RestTypeOK
  <2>4. RestTypeOK'
    BY <1>1, <2>1, <2>3 DEF RestTypeOK
  <2> QED
    BY <2>1, <2>2, <2>4, QuietKeeps
<1>6. ASSUME NEW who \in {Application, Reader}, StartClose(who), Quiet,
             disconnecting' \in BOOLEAN,
             UNCHANGED <<autoReconnect, connected, over, handlers, tasks, iterating>>
      PROVE  EventsInv'
  <2>1. /\ ~IsClosed /\ phase' = "awaiting" /\ closer' = who
        /\ cancelled' = tasks /\ awaited' = tasks /\ raises' = FALSE
    BY <1>6 DEF StartClose
  <2>2. ClosingInv' /\ IsClosed' /\ phase # "closed"
    BY <1>6, <2>1 DEF ClosingInv, IsClosed
  <2>3. RestTypeOK'
    BY <1>1, <1>6, <2>1 DEF RestTypeOK
  <2> QED
    BY <1>6, <2>1, <2>2, <2>3, QuietKeeps
<1>7. CASE ApplicationCloses
  <2>1. disconnecting' \in BOOLEAN
    BY <1>1, <1>7 DEF ApplicationCloses, link, RestTypeOK
  <2> QED
    BY <1>6, <1>7, <2>1 DEF ApplicationCloses, link, history
<1>8. CASE ReaderCloses
  <2>1. /\ disconnecting' = FALSE /\ Quiet
        /\ UNCHANGED <<autoReconnect, connected, over, handlers, tasks, iterating>>
        /\ IF IsClosed THEN UNCHANGED <<close, cancelled>> ELSE StartClose(Reader)
    BY <1>8 DEF ReaderCloses, history
  <2>2. CASE IsClosed
    <3>1. UNCHANGED <<phase, closer, awaited, raises, cancelled>>
      BY <2>1, <2>2 DEF close
    <3>2. RestTypeOK' /\ ClosingInv' /\ IsClosed' = IsClosed
      BY <1>1, <2>1, <3>1 DEF RestTypeOK, ClosingInv, IsClosed
    <3> QED
      BY <2>1, <3>1, <3>2, QuietKeeps
  <2>3. CASE ~IsClosed
    BY <1>6, <2>1, <2>3
  <2> QED
    BY <2>2, <2>3
<1>9. ASSUME NEW c \in Consumer, Ask(c)
      PROVE  EventsInv'
  <2>1. /\ Quiet /\ iterating' = [iterating EXCEPT ![c] = "waiting"]
        /\ UNCHANGED <<autoReconnect, connected, over, disconnecting, handlers, tasks,
                       cancelled, phase, closer, awaited, raises>>
    BY <1>9 DEF Ask, link, close, history
  <2>2. RestTypeOK' /\ ClosingInv' /\ IsClosed' = IsClosed
    BY <1>1, <2>1 DEF RestTypeOK, ClosingInv, IsClosed
  <2> QED
    BY <2>1, <2>2, QuietKeeps
<1>10. ASSUME NEW c \in Consumer, Anext(c)
       PROVE  EventsInv'
  BY <1>10, AnextKeeps
<1>11. CASE FinishClose
  BY <1>11, FinishKeeps
<1>12. CASE FailClose
  <2>1. /\ Quiet /\ phase = "awaiting" /\ phase' = "failed"
        /\ UNCHANGED <<autoReconnect, connected, over, disconnecting, handlers, tasks,
                       cancelled, iterating, closer, awaited, raises>>
    BY <1>12 DEF FailClose, link, history
  <2>2. RestTypeOK' /\ ClosingInv' /\ IsClosed'
    BY <1>1, <2>1 DEF RestTypeOK, ClosingInv, IsClosed
  <2> QED
    BY <2>1, <2>2, QuietKeeps
<1>13. CASE CloseAgain \/ Connect \/ Lose \/ UNCHANGED vars
  <2>1. /\ Quiet
        /\ UNCHANGED <<autoReconnect, handlers, tasks, cancelled, iterating, phase, closer,
                       awaited, raises>>
    BY <1>13 DEF CloseAgain, Connect, Lose, vars, link, close, history
  <2>2. {connected', over', disconnecting'} \subseteq BOOLEAN
    <3>1. {connected, over, disconnecting, autoReconnect} \subseteq BOOLEAN
      BY <1>1 DEF RestTypeOK
    <3> QED
      BY <1>13, <3>1, Zenon DEF CloseAgain, Connect, Lose, vars, link
  <2>3. RestTypeOK' /\ ClosingInv' /\ IsClosed' = IsClosed
    BY <1>1, <2>1, <2>2 DEF RestTypeOK, ClosingInv, IsClosed
  <2> QED
    BY <2>1, <2>3, QuietKeeps
<1> QED
  BY <1>2, <1>3, <1>4, <1>5, <1>7, <1>8, <1>9, <1>10, <1>11, <1>12, <1>13 DEF Next

LEMMA EventsInvariant == Spec => []EventsInv
BY EventsInit, EventsStep, PTL DEF Spec

-----------------------------------------------------------------------------

\* The attributes of EventsClient keep their types, _queue its bound, and the terminal
\* marker is in the queue at most once and last.
THEOREM EventsTyped == Spec => []TypeOK
<1>1. EventsInv => TypeOK
  BY DEF EventsInv
<1> QED
  BY <1>1, EventsInvariant, PTL

\* However many consumers iterate, and whatever the queue drops, each sees the events
\* in the order of arrival, and what close() leaves out came last.
THEOREM EventsStayInOrder == Spec => []InOrder
<1>1. EventsInv => InOrder
  BY DEF EventsInv
<1> QED
  BY <1>1, EventsInvariant, PTL

\* No event is lost in silence: each is queued, was handed to a consumer, was dropped
\* from the full queue (on_event, _wake_iterator), or came after close().
THEOREM EventsAreAccounted == Spec => []AllAccounted
<1>1. EventsInv => AllAccounted
  BY DEF EventsInv
<1> QED
  BY <1>1, EventsInvariant, PTL

\* When close() has returned no callback runs but one that called it, and when it has
\* failed in a callback those that still run are cancelled: none is started meanwhile.
THEOREM CallbacksAreEnded == Spec => []CallbacksEnd
<1>1. ASSUME EventsInv PROVE CallbacksEnd
  <2>1. phase = "failed" => tasks \subseteq cancelled \cup {closer}
    BY <1>1 DEF EventsInv, ClosingInv, IsClosed
  <2>2. phase = "closed" => tasks \subseteq {closer}
    BY <1>1 DEF EventsInv, ClosingInv, IsClosed
  <2> QED
    BY <2>1, <2>2 DEF CallbacksEnd
<1> QED
  BY <1>1, EventsInvariant, PTL

-----------------------------------------------------------------------------
\* Where the events are, one by one

Handed ==
    \A c, d \in Consumer : \A i \in DOMAIN taken[c], j \in DOMAIN taken[d] :
        taken[c][i] = taken[d][j] => c = d /\ i = j

PlacesInv ==
    /\ Handed
    /\ Taken \cap lost = {}
    /\ dropped = Cardinality(lost)

\* What is queued is newer than what was taken or dropped, hence not among it.
LEMMA QueuedApart ==
  ASSUME EventsInv
  PROVE  /\ Queued \subseteq Event
         /\ \A e \in Queued : e \notin Taken \cup lost
         /\ \A e \in ignored : e \notin Queued \cup Taken \cup lost
<1>1. queue \in Seq(Item) /\ ignored \subseteq Event
  BY TypeParts DEF EventsInv, DataTypeOK
<1>2. \A i \in DOMAIN queue : queue[i] \in Item
  BY <1>1
<1>3. Queued \subseteq Event
  BY <1>2 DEF Queued, Item
<1>4. \A e \in Event : ~(e < e)
  BY DEF Event
<1> QED
  BY <1>1, <1>3, <1>4 DEF EventsInv, InOrder

LEMMA HeadQueued ==
  ASSUME EventsInv, queue # <<>>, Head(queue) # Closed
  PROVE  Head(queue) \in Queued /\ Head(queue) \notin Taken \cup lost
<1>1. queue \in Seq(Item)
  BY TypeParts DEF EventsInv, DataTypeOK
<1>2. Head(queue) \in Queued
  BY <1>1, TailItems, QueuedItems
<1> QED
  BY <1>2, QueuedApart

\* What is dropped was queued, and counted.
LEMMA PutCounts ==
  ASSUME EventsInv, PlacesInv, Closed \notin Items(queue), NEW x \in Item, Put(x),
         taken' = taken
  PROVE  PlacesInv'
<1>1. Handed' /\ Taken' = Taken
  BY DEF PlacesInv, Handed, Taken
<1>2. CASE Len(queue) < QueueSize
  BY <1>1, <1>2 DEF Put, PlacesInv
<1>3. CASE ~(Len(queue) < QueueSize)
  <2>1. dropped' = dropped + 1 /\ lost' = lost \cup {Head(queue)}
    BY <1>3 DEF Put
  <2>2. queue \in Seq(Item) /\ lost \subseteq Event /\ queue # <<>>
    BY <1>3, TypeParts, EventsAreNat DEF EventsInv, DataTypeOK
  <2>3. Head(queue) # Closed
    BY <2>2, TailItems
  <2>4. Head(queue) \notin Taken \cup lost
    BY <2>2, <2>3, HeadQueued
  <2>5. IsFiniteSet(lost)
    <3>1. IsFiniteSet(Event)
      BY EventsAssumption, FS_Interval DEF Event
    <3> QED
      BY <2>2, <3>1, FS_Subset
  <2>6. Cardinality(lost') = Cardinality(lost) + 1
    BY <2>1, <2>4, <2>5, FS_AddElement
  <2> QED
    BY <1>1, <2>1, <2>4, <2>6 DEF PlacesInv
<1> QED
  BY <1>2, <1>3

LEMMA AnextPlaces ==
  ASSUME EventsInv, PlacesInv, NEW c \in Consumer, Anext(c)
  PROVE  PlacesInv'
<1>1. /\ taken \in [Consumer -> Seq(Event)]
      /\ queue # <<>> /\ UNCHANGED <<dropped, lost>>
  BY TypeParts DEF EventsInv, DataTypeOK, Anext
<1>2. CASE Head(queue) = Closed
  BY <1>1, <1>2 DEF Anext, EndIteration, PlacesInv, Handed, Taken
<1>3. CASE Head(queue) # Closed
  <2>1. PICK x \in Event :
          /\ x \notin Taken \cup lost
          /\ taken' = [taken EXCEPT ![c] = Append(@, x)]
    <3>1. Head(queue) \in Event
      <4>1. queue \in Seq(Item)
        BY TypeParts DEF EventsInv, DataTypeOK
      <4> QED
        BY <1>1, <1>3, <4>1, TailItems DEF Item
    <3> QED
      BY <1>1, <1>3, <3>1, HeadQueued DEF Anext, TakeEvent
  <2>2. \A d \in Consumer : \A i \in DOMAIN taken'[d] :
          \/ i \in DOMAIN taken[d] /\ taken'[d][i] = taken[d][i]
          \/ d = c /\ i = Len(taken[c]) + 1 /\ taken'[d][i] = x
    <3>1. \A d \in Consumer \ {c} : taken'[d] = taken[d]
      BY <1>1, <2>1
    <3>2. taken'[c] = Append(taken[c], x) /\ taken[c] \in Seq(Event)
      BY <1>1, <2>1
    <3>3. \A i \in DOMAIN taken'[c] :
            \/ i \in DOMAIN taken[c] /\ taken'[c][i] = taken[c][i]
            \/ i = Len(taken[c]) + 1 /\ taken'[c][i] = x
      BY <3>2
    <3> QED
      BY <3>1, <3>3
  <2>3. \A d \in Consumer : \A i \in DOMAIN taken[d] : taken[d][i] # x
    BY <2>1 DEF Taken
  <2>4. Handed'
    BY <2>2, <2>3 DEF PlacesInv, Handed
  <2>5. Taken' \subseteq Taken \cup {x}
    <3>1. \A d \in Consumer : \A i \in DOMAIN taken'[d] :
             taken'[d][i] \in Taken \cup {x}
      BY <2>2 DEF Taken
    <3> QED
      BY <3>1 DEF Taken
  <2> QED
    BY <1>1, <2>1, <2>4, <2>5 DEF PlacesInv
<1> QED
  BY <1>2, <1>3

LEMMA PlacesStep == EventsInv /\ PlacesInv /\ [Next]_vars => PlacesInv'
<1> SUFFICES ASSUME EventsInv, PlacesInv, [Next]_vars PROVE PlacesInv'
  OBVIOUS
<1>1. UNCHANGED <<dropped, lost, taken>> => PlacesInv'
  BY DEF PlacesInv, Handed, Taken
<1>2. CASE OnEvent
  <2>1. taken' = taken /\ received' \in Item
    <3>1. received' = received + 1 /\ received < MaxEvents /\ received \in Nat
      BY <1>2, TypeParts DEF OnEvent, EventsInv, DataTypeOK
    <3> QED
      BY <1>2, <3>1, EventsAssumption DEF OnEvent, Item, Event
  <2>2. CASE IsClosed
    BY <1>1, <1>2, <2>2, <2>1 DEF OnEvent, Put
  <2>3. CASE ~IsClosed
    <3>1. Put(received')
      BY <1>2, <2>3 DEF OnEvent
    <3>2. Closed \notin Items(queue)
      BY <2>3 DEF EventsInv, QueueInv, IsClosed
    <3> QED
      BY <2>1, <3>1, <3>2, PutCounts
  <2> QED
    BY <2>2, <2>3
<1>3. CASE FinishClose
  <2>1. Put(Closed) /\ taken' = taken /\ Closed \notin Items(queue) /\ Closed \in Item
    BY <1>3 DEF FinishClose, EventsInv, QueueInv, Item
  <2> QED
    BY <2>1, PutCounts
<1>4. ASSUME NEW c \in Consumer, Anext(c) PROVE PlacesInv'
  BY <1>4, AnextPlaces
<1>5. ASSUME NEW h \in Handler, AddHandler(h) \/ RemoveHandler(h) PROVE PlacesInv'
  BY <1>1, <1>5 DEF AddHandler, RemoveHandler, SetHandlers, history
<1>6. ASSUME NEW t \in Task, HandlerEnds(t) \/ CallbackCloses(t) PROVE PlacesInv'
  BY <1>1, <1>6 DEF HandlerEnds, CallbackCloses, history
<1>7. ASSUME NEW c \in Consumer, Ask(c) PROVE PlacesInv'
  BY <1>1, <1>7 DEF Ask, history
<1>8. CASE \/ ApplicationCloses \/ ReaderCloses \/ FailClose \/ CloseAgain
           \/ Connect \/ Lose \/ UNCHANGED vars
  BY <1>1, <1>8 DEF ApplicationCloses, ReaderCloses, FailClose, CloseAgain, Connect, Lose,
                    vars, history
<1> QED
  BY <1>2, <1>3, <1>4, <1>5, <1>6, <1>7, <1>8 DEF Next

LEMMA PlacesAccount == EventsInv /\ PlacesInv => EveryEventAccounted
<1> SUFFICES ASSUME EventsInv, PlacesInv PROVE EveryEventAccounted
  OBVIOUS
<1>1. queue \in Seq(Item) /\ Len(queue) <= QueueSize /\ Sorted(queue)
  BY TypeParts DEF EventsInv, DataTypeOK, QueueInv
<1>2. ASSUME NEW i \in DOMAIN queue, NEW j \in DOMAIN queue, queue[i] = queue[j]
      PROVE  i = j
  <2>1. ASSUME NEW k \in DOMAIN queue, NEW l \in DOMAIN queue, k < l
        PROVE  queue[k] # queue[l]
    <3>1. queue[k] # Closed /\ (queue[l] # Closed => queue[k] < queue[l])
      BY <1>1, <2>1 DEF Sorted
    <3>2. queue[k] \in Item
      BY <1>1
    <3>3. queue[k] \in Nat
      BY <3>1, <3>2, EventsAreNat DEF Item
    <3> QED
      BY <3>1, <3>3
  <2>2. i \in Nat /\ j \in Nat
    BY <1>1
  <2>3. CASE i < j
    BY <1>2, <2>1, <2>3
  <2>4. CASE j < i
    BY <1>2, <2>1, <2>4
  <2> QED
    BY <2>2, <2>3, <2>4
<1>3. /\ Queued \cap (Taken \cup lost) = {}
      /\ ignored \cap (Queued \cup Taken \cup lost) = {}
  BY QueuedApart
<1>4. OnePlace
  BY <1>2, <1>3 DEF OnePlace, PlacesInv, Handed
<1> QED
  BY <1>1, <1>4 DEF EveryEventAccounted, EventsInv, PlacesInv

\* Each event that arrived is in exactly one place: queued, with one consumer, dropped
\* and then counted in dropped_events, or ignored after close(), for any number of
\* consumers and callbacks, and any size of the queue.
THEOREM EachEventOnce == Spec => []EveryEventAccounted
<1>1. Init => EventsInv /\ PlacesInv
  <2>1. Init => PlacesInv
    BY FS_EmptySet DEF Init, PlacesInv, Handed
  <2> QED
    BY <2>1, EventsInit
<1>2. (EventsInv /\ PlacesInv) /\ [Next]_vars => (EventsInv /\ PlacesInv)'
  BY EventsStep, PlacesStep
<1> QED
  BY <1>1, <1>2, PlacesAccount, PTL DEF Spec
=============================================================================
