--------------------------- MODULE EventBusProofs ---------------------------
(***************************************************************************)
(* Proofs about EventBus, for any events, patterns, payloads and bounds.   *)
(***************************************************************************)
EXTENDS EventBus, TLAPS, WellFoundedInduction, NaturalsInduction

-----------------------------------------------------------------------------
\* The parts of the invariant, for a queue q, the messages w written, the last
\* number s and the client c.

Newest(q, s) == \A k \in DOMAIN q : q[k].seq + Len(q) = s + k

Ordered(w) == \A j, k \in DOMAIN w : j < k => w[j].seq < w[k].seq
Before(w, q, s) == \A j \in DOMAIN w : w[j].seq + Len(q) <= s

Own(q, c) == \A k \in DOMAIN q : q[k].payload.for = c

QueueOK(q, s, c) ==
    /\ q \in Seq(Message)
    /\ Len(q) <= MaxQueueSize
    /\ Newest(q, s)
    /\ Own(q, c)

WireOK(w, q, s) ==
    /\ w \in Seq(Message)
    /\ Ordered(w)
    /\ Before(w, q, s)

PendingOK(p, key, a, c) ==
    \A name \in Event :
        /\ p[name] # Nil <=> key[name]
        /\ a[name] = IF key[name] THEN 1 ELSE 0
        /\ p[name] # Nil => p[name].for = c

BusInv ==
    /\ TypeOK
    /\ QueueOK(queue, sequence, client)
    /\ WireOK(wire, queue, sequence)
    /\ PendingOK(pending, timerKey, armed, client)
    /\ WaitsOnlyBehindUnencodable

-----------------------------------------------------------------------------
\* Sequences

LEMMA SplitAt ==
  ASSUME NEW S, NEW s \in Seq(S), NEW n \in 0 .. Len(s)
  PROVE  /\ SubSeq(s, 1, n) \in Seq(S)
         /\ Len(SubSeq(s, 1, n)) = n
         /\ \A i \in DOMAIN SubSeq(s, 1, n) :
              i \in 1 .. n /\ i \in DOMAIN s /\ SubSeq(s, 1, n)[i] = s[i]
         /\ SubSeq(s, n + 1, Len(s)) \in Seq(S)
         /\ Len(SubSeq(s, n + 1, Len(s))) = Len(s) - n
         /\ \A i \in DOMAIN SubSeq(s, n + 1, Len(s)) :
              /\ i \in 1 .. Len(s) - n
              /\ n + i \in DOMAIN s
              /\ SubSeq(s, n + 1, Len(s))[i] = s[n + i]
OBVIOUS

LEMMA ConcatFrom ==
  ASSUME NEW S, NEW s \in Seq(S), NEW t \in Seq(S)
  PROVE  /\ s \o t \in Seq(S)
         /\ \A i \in DOMAIN (s \o t) :
              \/ i \in DOMAIN s /\ (s \o t)[i] = s[i]
              \/ i \in Nat /\ i - Len(s) \in DOMAIN t /\ i > Len(s) /\ (s \o t)[i] = t[i - Len(s)]
OBVIOUS

LEMMA TailFrom ==
  ASSUME NEW S, NEW s \in Seq(S), s # <<>>
  PROVE  /\ Tail(s) \in Seq(S)
         /\ Len(s) = Len(Tail(s)) + 1
         /\ \A i \in DOMAIN Tail(s) :
              i \in Nat \ {0} /\ i + 1 \in DOMAIN s /\ Tail(s)[i] = s[i + 1]
OBVIOUS

LEMMA AppendFrom ==
  ASSUME NEW S, NEW s \in Seq(S), NEW e \in S
  PROVE  /\ Append(s, e) \in Seq(S)
         /\ Len(Append(s, e)) = Len(s) + 1
         /\ \A i \in DOMAIN Append(s, e) :
              \/ i \in DOMAIN s /\ Append(s, e)[i] = s[i]
              \/ i = Len(s) + 1 /\ Append(s, e)[i] = e
OBVIOUS

-----------------------------------------------------------------------------
\* enqueue

\* r is q without its first d messages.
NewestOf(r, q, d) ==
    /\ r \in Seq(Message)
    /\ Len(q) = Len(r) + d
    /\ \A k \in DOMAIN r : k \in Nat /\ k + d \in DOMAIN q /\ r[k] = q[k + d]

\* A suffix of the newest messages is newest, too.
LEMMA SuffixIsNewest ==
  ASSUME NEW q, NEW s \in Nat, NEW r, NEW d \in Nat, Newest(q, s), NewestOf(r, q, d)
  PROVE  \A k \in DOMAIN r : r[k].seq \in Nat /\ r[k].seq + Len(r) = s + k
<1>0. /\ r \in Seq(Message)
      /\ Len(q) = Len(r) + d
      /\ \A k \in DOMAIN r : k \in Nat /\ k + d \in DOMAIN q /\ r[k] = q[k + d]
  BY DEF NewestOf
<1> SUFFICES ASSUME NEW k \in 1 .. Len(r)
             PROVE  r[k].seq \in Nat /\ r[k].seq + Len(r) = s + k
  BY <1>0
<1>1. r[k] \in Message /\ k \in Nat /\ Len(r) \in Nat
  BY <1>0
<1>2. r[k].seq \in Nat
  BY <1>1 DEF Message
<1>3. r[k].seq + (Len(r) + d) = s + (k + d)
  BY <1>0 DEF Newest
<1> DEFINE x == r[k].seq  lr == Len(r)
<1>4. x \in Nat /\ lr \in Nat /\ k \in Nat /\ x + (lr + d) = s + (k + d)
  BY <1>1, <1>2, <1>3
<1> HIDE DEF x, lr
<1>5. x + lr = s + k
  BY <1>4
<1> QED
  BY <1>2, <1>5 DEF x, lr

\* A message with the next number is enqueued as the newest.
LEMMA EnqueueKeeps ==
  ASSUME SizeAssumption,
         NEW q, NEW s \in Nat, NEW c \in Nat, NEW w, NEW m \in Message,
         QueueOK(q, s, c), WireOK(w, q, s),
         m.seq = s + 1, m.payload.for = c
  PROVE  /\ QueueOK(Enqueue(q, m), s + 1, c)
         /\ WireOK(w, Enqueue(q, m), s + 1)
<1> DEFINE r == IF Len(q) >= MaxQueueSize THEN Tail(q) ELSE q
<1>1. q \in Seq(Message) /\ Len(q) <= MaxQueueSize /\ MaxQueueSize \in Nat \ {0}
  BY DEF QueueOK, SizeAssumption
<1>2. \E d \in Nat :
        /\ r \in Seq(Message)
        /\ Len(r) < MaxQueueSize
        /\ Len(q) = Len(r) + d
        /\ \A k \in DOMAIN r : k \in Nat /\ k + d \in DOMAIN q /\ r[k] = q[k + d]
  <2>1. CASE Len(q) >= MaxQueueSize
    <3>1. q # <<>> /\ r = Tail(q)
      BY <1>1, <2>1
    <3> HIDE DEF r
    <3> WITNESS 1 \in Nat
    <3> QED
      BY <1>1, <3>1, TailFrom
  <2>2. CASE ~(Len(q) >= MaxQueueSize)
    <3>1. r = q
      BY <2>2
    <3> HIDE DEF r
    <3> WITNESS 0 \in Nat
    <3> QED
      BY <1>1, <2>2, <3>1
  <2> QED
    BY <2>1, <2>2
<1> DEFINE e == Append(r, m)
<1>3. Enqueue(q, m) = e
  BY DEF Enqueue
<1> HIDE DEF r
<1>4. PICK d \in Nat :
        /\ r \in Seq(Message)
        /\ Len(r) < MaxQueueSize
        /\ Len(q) = Len(r) + d
        /\ \A k \in DOMAIN r : k \in Nat /\ k + d \in DOMAIN q /\ r[k] = q[k + d]
  BY <1>2
<1>5. /\ e \in Seq(Message) /\ Len(e) = Len(r) + 1
      /\ \A k \in DOMAIN e : \/ k \in DOMAIN r /\ e[k] = r[k]
                             \/ k = Len(r) + 1 /\ e[k] = m
  BY <1>4, AppendFrom
<1> HIDE DEF e
<1>6. Newest(e, s + 1)
  <2> SUFFICES ASSUME NEW k \in 1 .. Len(e) PROVE e[k].seq + Len(e) = s + 1 + k
    BY <1>5 DEF Newest
  <2>1. Newest(q, s)
    BY DEF QueueOK
  <2>2. \A i \in DOMAIN r : r[i].seq \in Nat /\ r[i].seq + Len(r) = s + i
    <3>1. NewestOf(r, q, d)
      BY <1>4 DEF NewestOf
    <3> HIDE DEF Newest
    <3> QED
      BY <2>1, <3>1, SuffixIsNewest
  <2>3. CASE k \in DOMAIN r /\ e[k] = r[k]
    <3>1. r[k].seq \in Nat /\ r[k].seq + Len(r) = s + k
      BY <2>3, <2>2
    <3> DEFINE x == r[k].seq  lr == Len(r)
    <3>2. x \in Nat /\ lr \in Nat /\ k \in Nat /\ x + lr = s + k
      BY <1>4, <2>3, <3>1
    <3> HIDE DEF x, lr
    <3>3. x + (lr + 1) = s + 1 + k
      BY <3>2
    <3> QED
      BY <1>5, <2>3, <3>3 DEF x, lr
  <2>4. CASE k = Len(r) + 1 /\ e[k] = m
    BY <1>4, <1>5, <2>4
  <2> QED
    BY <1>5, <2>3, <2>4
<1>7. Own(e, c)
  <2> SUFFICES ASSUME NEW k \in DOMAIN e PROVE e[k].payload.for = c
    BY DEF Own
  <2>1. e[k] = m \/ \E j \in DOMAIN q : e[k] = q[j]
    BY <1>4, <1>5
  <2> QED
    BY <2>1 DEF QueueOK, Own
<1>8. WireOK(w, e, s + 1)
  <2>1. w \in Seq(Message) /\ Ordered(w)
    BY DEF WireOK
  <2>2. ASSUME NEW j \in DOMAIN w PROVE w[j].seq + Len(e) <= s + 1
    <3>1. w[j].seq + Len(q) <= s
      BY DEF WireOK, Before
    <3>2. w[j] \in Message
      BY <2>1
    <3>3. w[j].seq \in Nat
      BY <3>2 DEF Message
    <3>4. Len(r) \in Nat /\ Len(q) = Len(r) + d /\ Len(e) = Len(r) + 1
      BY <1>4, <1>5
    <3> QED
      BY <3>1, <3>3, <3>4
  <2> QED
    BY <2>1, <2>2 DEF WireOK, Before
<1> QED
  BY <1>3, <1>5, <1>6, <1>7, <1>8, <1>4 DEF QueueOK

-----------------------------------------------------------------------------
\* flush

\* Wherever it ends, a flush moves a prefix of the queue to the wire.
LEMMA FlushKeeps ==
  ASSUME NEW q, NEW s \in Nat, NEW c \in Nat,
         QueueOK(q, s, c), WireOK(wire, q, s), MaxQueueSize \in Nat, Flush(q)
  PROVE  /\ QueueOK(queue', s, c)
         /\ WireOK(wire', queue', s)
         /\ calm' \in BOOLEAN
         /\ calm' /\ queue' # <<>> => ~Encodable(Head(queue'))
<1>1. q \in Seq(Message) /\ wire \in Seq(Message)
  BY DEF QueueOK, WireOK
<1>2. PICK n \in 0 .. Len(q), raised \in BOOLEAN :
        /\ MaySend(q, n) /\ StopsAfter(q, n, raised)
        /\ wire' = wire \o SubSeq(q, 1, n)
        /\ queue' = SubSeq(q, n + 1, Len(q))
        /\ calm' = (sender /\ link /\ ~raised)
  BY DEF Flush
<1> DEFINE sent == SubSeq(q, 1, n)
<1>3. /\ sent \in Seq(Message) /\ Len(sent) = n
      /\ \A i \in DOMAIN sent : i \in 1 .. n /\ i \in DOMAIN q /\ sent[i] = q[i]
      /\ queue' \in Seq(Message) /\ Len(queue') = Len(q) - n
      /\ \A i \in DOMAIN queue' : /\ i \in 1 .. Len(q) - n
                                  /\ n + i \in DOMAIN q
                                  /\ queue'[i] = q[n + i]
  BY <1>1, <1>2, SplitAt
<1>4. wire' = wire \o sent
  BY <1>2
<1> HIDE DEF sent
<1>5. /\ wire' \in Seq(Message)
      /\ \A i \in DOMAIN wire' :
            \/ i \in DOMAIN wire /\ wire'[i] = wire[i]
            \/ /\ i \in Nat /\ i - Len(wire) \in DOMAIN sent /\ i > Len(wire)
               /\ wire'[i] = sent[i - Len(wire)]
  BY <1>1, <1>3, <1>4, ConcatFrom
<1>6. ASSUME NEW i \in DOMAIN q
      PROVE  q[i].seq \in Nat /\ q[i].seq + Len(q) = s + i
  <2>1. q[i] \in Message
    BY <1>1
  <2> QED
    BY <2>1 DEF Message, QueueOK, Newest
<1>7. ASSUME NEW i \in DOMAIN wire
      PROVE  wire[i].seq \in Nat /\ wire[i].seq + Len(q) <= s
  <2>1. wire[i] \in Message
    BY <1>1
  <2> QED
    BY <2>1 DEF Message, WireOK, Before
<1>8. QueueOK(queue', s, c)
  <2>1. Len(queue') <= MaxQueueSize
    BY <1>1, <1>2, <1>3 DEF QueueOK
  <2>2. ASSUME NEW i \in DOMAIN queue'
        PROVE  queue'[i].seq + Len(queue') = s + i
    <3>1. queue'[i] = q[n + i] /\ n + i \in DOMAIN q /\ i \in Nat /\ n \in Nat
      BY <1>2, <1>3
    <3>2. q[n + i].seq \in Nat /\ q[n + i].seq + Len(q) = s + (n + i)
      BY <1>6, <3>1
    <3> DEFINE x == q[n + i].seq  lq == Len(q)  lr == Len(queue')
    <3>3. /\ x \in Nat /\ lq \in Nat /\ i \in Nat /\ n \in Nat
          /\ lr = lq - n /\ x + lq = s + (n + i)
      BY <1>1, <1>3, <3>1, <3>2
    <3> HIDE DEF x, lq, lr
    <3>4. x + lr = s + i
      BY <3>3
    <3> QED
      BY <3>1, <3>4 DEF x, lr
  <2>3. Own(queue', c)
    BY <1>3 DEF QueueOK, Own
  <2> QED
    BY <1>3, <2>1, <2>2, <2>3 DEF QueueOK, Newest
<1>9. WireOK(wire', queue', s)
  <2>1. Ordered(wire')
    <3> SUFFICES ASSUME NEW j \in DOMAIN wire', NEW k \in DOMAIN wire', j < k
                 PROVE  wire'[j].seq < wire'[k].seq
      BY DEF Ordered
    <3>1. CASE j \in DOMAIN wire /\ k \in DOMAIN wire
      BY <1>1, <1>5, <3>1 DEF WireOK, Ordered
    <3>2. CASE j \in DOMAIN wire /\ k \notin DOMAIN wire
      <4>1. /\ wire'[j] = wire[j]
            /\ wire'[k] = q[k - Len(wire)] /\ k - Len(wire) \in DOMAIN q
            /\ k - Len(wire) \in 1 .. Len(q)
        BY <1>1, <1>3, <1>5, <3>2
      <4>2. wire[j].seq \in Nat /\ wire[j].seq + Len(q) <= s
        BY <1>7, <3>2
      <4>3. /\ q[k - Len(wire)].seq \in Nat
            /\ q[k - Len(wire)].seq + Len(q) = s + (k - Len(wire))
        BY <1>6, <4>1
      <4> QED
        BY <1>1, <4>1, <4>2, <4>3
    <3>3. CASE j \notin DOMAIN wire
      <4>1. k \notin DOMAIN wire
        BY <1>1, <1>5, <3>3
      <4>2. /\ wire'[j] = q[j - Len(wire)] /\ j - Len(wire) \in DOMAIN q
            /\ wire'[k] = q[k - Len(wire)] /\ k - Len(wire) \in DOMAIN q
            /\ j \in Nat /\ k \in Nat
        BY <1>3, <1>5, <3>3, <4>1
      <4>3. /\ q[j - Len(wire)].seq \in Nat
            /\ q[j - Len(wire)].seq + Len(q) = s + (j - Len(wire))
            /\ q[k - Len(wire)].seq \in Nat
            /\ q[k - Len(wire)].seq + Len(q) = s + (k - Len(wire))
        BY <1>6, <4>2
      <4> QED
        BY <1>1, <4>2, <4>3
    <3> QED
      BY <3>1, <3>2, <3>3
  <2>2. ASSUME NEW i \in DOMAIN wire'
        PROVE  wire'[i].seq + Len(queue') <= s
    <3>1. CASE i \in DOMAIN wire /\ wire'[i] = wire[i]
      <4>1. wire[i].seq \in Nat /\ wire[i].seq + Len(q) <= s
        BY <1>7, <3>1
      <4> QED
        BY <1>1, <1>2, <1>3, <3>1, <4>1
    <3>2. CASE /\ i \in Nat /\ i - Len(wire) \in DOMAIN sent /\ i > Len(wire)
               /\ wire'[i] = sent[i - Len(wire)]
      <4>1. /\ i - Len(wire) \in 1 .. n /\ i - Len(wire) \in DOMAIN q
            /\ wire'[i] = q[i - Len(wire)]
        BY <1>3, <3>2
      <4>2. /\ q[i - Len(wire)].seq \in Nat
            /\ q[i - Len(wire)].seq + Len(q) = s + (i - Len(wire))
        BY <1>6, <4>1
      <4>3. i - Len(wire) \in 1 .. n /\ n \in Nat /\ Len(q) \in Nat
        BY <1>1, <1>2, <4>1
      <4>4. q[i - Len(wire)].seq + (Len(q) - n) <= s
        BY <4>2, <4>3
      <4> QED
        BY <1>3, <4>1, <4>4
    <3> QED
      BY <1>5, <3>1, <3>2
  <2> QED
    BY <1>5, <2>1, <2>2 DEF WireOK, Before
<1>10. calm' \in BOOLEAN
  BY <1>2, Zenon
<1>11. ASSUME calm', queue' # <<>>
       PROVE  ~Encodable(Head(queue'))
  <2>1. n < Len(q) /\ Head(queue') = q[n + 1] /\ n \in Nat
    BY <1>1, <1>2, <1>3, <1>11
  <2>2. sender /\ link /\ ~raised
    BY <1>2, <1>11, Zenon
  <2>3. MaySend(q, n) /\ ~MaySend(q, n + 1)
    BY <1>2, <2>1, <2>2 DEF StopsAfter
  <2>4. \A k \in 1 .. n : Encodable(q[k])
    BY <2>1, <2>3 DEF MaySend
  <2>5. ~(\A k \in 1 .. n + 1 : Encodable(q[k]))
    BY <2>2, <2>3 DEF MaySend
  <2>6. \A k \in 1 .. n + 1 : k \in 1 .. n \/ k = n + 1
    BY <2>1
  <2> HIDE DEF Encodable
  <2>7. ~Encodable(q[n + 1])
    BY <2>4, <2>5, <2>6
  <2> QED
    BY <2>1, <2>7
<1> QED
  BY <1>8, <1>9, <1>10, <1>11

\* No message is lost between the queue and the wire.
LEMMA FlushLosesNone ==
  ASSUME NEW q \in Seq(Message), wire \in Seq(Message), Flush(q), NEW k \in DOMAIN q
  PROVE  q[k] \in ToSet(queue') \/ q[k] \in ToSet(wire')
<1>1. PICK n \in 0 .. Len(q) :
        wire' = wire \o SubSeq(q, 1, n) /\ queue' = SubSeq(q, n + 1, Len(q))
  BY DEF Flush
<1>2. CASE k <= n
  <2> DEFINE sent == SubSeq(q, 1, n)
  <2>1. sent \in Seq(Message) /\ k \in DOMAIN sent /\ sent[k] = q[k]
    BY <1>1, <1>2
  <2>2. wire' = wire \o sent
    BY <1>1
  <2> HIDE DEF sent
  <2>3. Len(wire) + k \in DOMAIN wire' /\ wire'[Len(wire) + k] = sent[k]
    BY <2>1, <2>2
  <2> QED
    BY <2>1, <2>3 DEF ToSet
<1>3. CASE k > n
  <2>1. k - n \in DOMAIN queue' /\ queue'[k - n] = q[k]
    BY <1>1, <1>3
  <2> QED
    BY <2>1 DEF ToSet
<1> QED
  BY <1>1, <1>2, <1>3

-----------------------------------------------------------------------------
\* The other variables

RestTypeOK ==
    /\ sequence \in Nat
    /\ client \in Nat
    /\ pending \in [Event -> Payload \cup {Nil}]
    /\ timerKey \in [Event -> BOOLEAN]
    /\ armed \in [Event -> Nat]
    /\ subscriptions \in [Pattern -> {"none", "data", "nodata"}]
    /\ sender \in BOOLEAN
    /\ link \in BOOLEAN
    /\ log \in Seq(Entry)

LEMMA RestOfType == BusInv => RestTypeOK
BY DEF BusInv, TypeOK, RestTypeOK

\* The parts together, from a flush that ends with calm'.
LEMMA Assemble ==
  ASSUME RestTypeOK', QueueOK(queue', sequence', client'),
         WireOK(wire', queue', sequence'),
         PendingOK(pending', timerKey', armed', client'),
         calm' \in BOOLEAN,
         calm' /\ queue' # <<>> => ~Encodable(Head(queue'))
  PROVE  BusInv'
<1>1. queue' \in Seq(Message) /\ wire' \in Seq(Message)
  BY DEF QueueOK, WireOK
<1>2. TypeOK'
  BY <1>1, Zenon DEF TypeOK, RestTypeOK
<1>3. WaitsOnlyBehindUnencodable'
  BY DEF WaitsOnlyBehindUnencodable, Encodable
<1> QED
  BY <1>2, <1>3 DEF BusInv

\* Every timer in the table is stopped, and those are all that are armed.
LEMMA ClearPendingKeeps ==
  ASSUME RestTypeOK, PendingOK(pending, timerKey, armed, client), ClearPending, NEW c
  PROVE  /\ pending' \in [Event -> Payload \cup {Nil}]
         /\ timerKey' \in [Event -> BOOLEAN]
         /\ armed' \in [Event -> Nat]
         /\ PendingOK(pending', timerKey', armed', c)
<1>1. /\ pending' \in [Event -> Payload \cup {Nil}]
      /\ \A name \in Event : pending'[name] = Nil
  BY DEF ClearPending
<1>2. /\ timerKey' \in [Event -> BOOLEAN]
      /\ \A name \in Event : timerKey'[name] = FALSE
  BY Zenon DEF ClearPending
<1>3. \A name \in Event :
        (IF timerKey[name] THEN armed[name] - 1 ELSE armed[name]) = 0
  BY DEF PendingOK, RestTypeOK
<1>4. /\ armed' \in [Event -> Nat]
      /\ \A name \in Event : armed'[name] = 0
  BY <1>3 DEF ClearPending
<1> QED
  BY <1>1, <1>2, <1>4 DEF PendingOK

LEMMA ItemsType ==
  ASSUME RestTypeOK, NEW batch \in Batches
  PROVE  /\ SubscribeItems(batch) \in [Pattern -> {"none", "data", "nodata"}]
         /\ UnsubscribeItems(batch) \in [Pattern -> {"none", "data", "nodata"}]
         /\ NoSubscriptions \in [Pattern -> {"none", "data", "nodata"}]
BY DEF RestTypeOK, SubscribeItems, UnsubscribeItems, NoSubscriptions, Policy

LEMMA LogsType ==
  ASSUME RestTypeOK, NEW kind \in {"subscribe", "unsubscribe", "unsubscribeAll"},
         NEW batch \in Batches \cup {<<>>}, Logs(kind, batch)
  PROVE  log' \in Seq(Entry)
<1>1. [kind |-> kind, batch |-> batch] \in Entry
  BY DEF Entry
<1> QED
  BY <1>1 DEF RestTypeOK, Logs

-----------------------------------------------------------------------------

LEMMA BusInvInit == Init => BusInv
<1> SUFFICES ASSUME Init PROVE BusInv
  OBVIOUS
<1> USE SizeAssumption DEF Init
<1>1. sender \in BOOLEAN /\ link \in BOOLEAN /\ calm \in BOOLEAN /\ ~calm
  BY Zenon
<1>2. queue \in Seq(Message) /\ wire \in Seq(Message) /\ queue = <<>> /\ wire = <<>>
  OBVIOUS
<1>3. /\ sequence \in Nat /\ client \in Nat
      /\ pending \in [Event -> Payload \cup {Nil}]
      /\ armed \in [Event -> Nat]
  OBVIOUS
<1>4. subscriptions \in [Pattern -> {"none", "data", "nodata"}]
  BY DEF NoSubscriptions
<1>5. timerKey \in [Event -> BOOLEAN]
  BY Zenon
<1>6. PendingOK(pending, timerKey, armed, client) /\ log \in Seq(Entry)
  BY DEF PendingOK
<1>7. QueueOK(queue, sequence, client) /\ WireOK(wire, queue, sequence)
  BY <1>2, <1>3
  DEF QueueOK, WireOK, Newest, Own, Ordered, Before
<1> HIDE DEF Init
<1>8. TypeOK
  BY <1>1, <1>2, <1>3, <1>4, <1>5, <1>6, Zenon DEF TypeOK
<1> QED
  BY <1>1, <1>6, <1>7, <1>8 DEF BusInv, WaitsOnlyBehindUnencodable

\* A message numbered with the payload is enqueued, and the queue is calm.
LEMMA NumberedKeeps ==
  ASSUME BusInv, NEW name \in Event, NEW payload \in Payload,
         payload.for = client,
         Flush(Enqueue(queue, Number(name, payload)))
  PROVE  /\ QueueOK(queue', sequence + 1, client)
         /\ WireOK(wire', queue', sequence + 1)
         /\ calm' \in BOOLEAN
         /\ calm' /\ queue' # <<>> => ~Encodable(Head(queue'))
<1>1. sequence \in Nat /\ client \in Nat /\ MaxQueueSize \in Nat
  BY SizeAssumption DEF BusInv, TypeOK
<1> DEFINE m == Number(name, payload)
<1>2. /\ m \in Message /\ m.seq = sequence + 1 /\ m.payload = payload
  BY <1>1 DEF Number, Message
<1> HIDE DEF m
<1>3. QueueOK(queue, sequence, client) /\ WireOK(wire, queue, sequence)
  BY DEF BusInv
<1>4. /\ QueueOK(Enqueue(queue, m), sequence + 1, client)
      /\ WireOK(wire, Enqueue(queue, m), sequence + 1)
  BY <1>1, <1>2, <1>3, EnqueueKeeps, SizeAssumption
<1>5. Flush(Enqueue(queue, m))
  BY DEF m
<1>6. sequence + 1 \in Nat
  BY <1>1
<1> QED
  BY <1>1, <1>4, <1>5, <1>6, FlushKeeps

LEMMA EmitKeeps ==
  ASSUME BusInv, NEW name \in Event, NEW data \in Data \cup {Empty},
         NEW include \in BOOLEAN, Emit(name, data, include)
  PROVE  BusInv'
<1> DEFINE p == NewPayload(name, data, include)
<1>1. RestTypeOK
  BY RestOfType
<1>2. /\ UNCHANGED <<sender, subscriptions, link, client, log>>
      /\ EmitCoalesced(name, data, include) \/ EmitAtOnce(name, data, include)
  BY DEF Emit
<1>3. p \in Payload /\ p.for = client
  BY <1>1 DEF NewPayload, Payload, RestTypeOK
<1>4. p # Nil
  BY <1>3, NilAssumption
<1>5. CASE EmitCoalesced(name, data, include)
  <2>1. /\ pending' = [pending EXCEPT ![name] = p]
        /\ timerKey' = [timerKey EXCEPT ![name] = TRUE]
        /\ armed' = [armed EXCEPT ![name] = IF timerKey[name] THEN @ ELSE @ + 1]
        /\ UNCHANGED <<queue, sequence, wire, calm>>
    BY <1>5 DEF EmitCoalesced
  <2> HIDE DEF p
  <2>2. pending' \in [Event -> Payload \cup {Nil}] /\ armed' \in [Event -> Nat]
    BY <1>1, <1>3, <2>1 DEF RestTypeOK
  <2>3. timerKey' \in [Event -> BOOLEAN]
    BY <1>1, <2>1, Zenon DEF RestTypeOK
  <2>4. PendingOK(pending', timerKey', armed', client')
    <3> SUFFICES ASSUME NEW n \in Event
                 PROVE  /\ pending'[n] # Nil <=> timerKey'[n]
                        /\ armed'[n] = IF timerKey'[n] THEN 1 ELSE 0
                        /\ pending'[n] # Nil =>
                             pending'[n].for = client'
      BY DEF PendingOK
    <3>1. CASE n = name
      <4>1. armed[n] = IF timerKey[n] THEN 1 ELSE 0
        BY DEF BusInv, PendingOK
      <4> QED
        BY <1>1, <1>2, <1>3, <1>4, <2>1, <3>1, <4>1 DEF RestTypeOK
    <3>2. CASE n # name
      <4>1. /\ pending'[n] = pending[n] /\ timerKey'[n] = timerKey[n]
            /\ armed'[n] = armed[n]
        BY <1>1, <2>1, <3>2 DEF RestTypeOK
      <4> QED
        BY <1>2, <4>1 DEF BusInv, PendingOK
    <3> QED
      BY <3>1, <3>2
  <2>5. RestTypeOK'
    BY <1>1, <1>2, <2>1, <2>2, <2>3 DEF RestTypeOK
  <2>6. /\ QueueOK(queue', sequence', client') /\ WireOK(wire', queue', sequence')
        /\ calm' \in BOOLEAN
        /\ calm' /\ queue' # <<>> => ~Encodable(Head(queue'))
    BY <1>2, <2>1 DEF BusInv, TypeOK, WaitsOnlyBehindUnencodable
  <2> QED
    BY <2>4, <2>5, <2>6, Assemble
<1>6. CASE EmitAtOnce(name, data, include)
  <2>1. /\ sequence' = sequence + 1
        /\ Flush(Enqueue(queue, Number(name, p)))
        /\ UNCHANGED <<pending, timerKey, armed>>
    BY <1>6 DEF EmitAtOnce
  <2> HIDE DEF p
  <2>2. /\ QueueOK(queue', sequence', client') /\ WireOK(wire', queue', sequence')
        /\ calm' \in BOOLEAN
        /\ calm' /\ queue' # <<>> => ~Encodable(Head(queue'))
    BY <1>2, <1>3, <2>1, NumberedKeeps
  <2>3. RestTypeOK'
    BY <1>1, <1>2, <2>1 DEF RestTypeOK
  <2>4. PendingOK(pending', timerKey', armed', client')
    BY <1>2, <2>1 DEF BusInv
  <2> QED
    BY <2>2, <2>3, <2>4, Assemble
<1> QED
  BY <1>2, <1>5, <1>6

LEMMA TimerKeeps ==
  ASSUME BusInv, NEW name \in Event, TimerFires(name)
  PROVE  BusInv'
<1>1. RestTypeOK
  BY RestOfType
<1>2. /\ armed[name] > 0
      /\ armed' = [armed EXCEPT ![name] = @ - 1]
      /\ pending' = [pending EXCEPT ![name] = Nil]
      /\ timerKey' = [timerKey EXCEPT ![name] = FALSE]
      /\ UNCHANGED <<sender, subscriptions, link, client, log>>
  BY DEF TimerFires
<1>3. /\ timerKey[name] /\ armed[name] = 1 /\ pending[name] # Nil
      /\ pending[name].for = client
  BY <1>1, <1>2 DEF BusInv, PendingOK, RestTypeOK
<1>4. /\ sequence' = sequence + 1
      /\ Flush(Enqueue(queue, Number(name, pending[name])))
  BY <1>3 DEF TimerFires
<1>5. pending[name] \in Payload
  BY <1>1, <1>3 DEF RestTypeOK
<1>6. /\ QueueOK(queue', sequence', client') /\ WireOK(wire', queue', sequence')
      /\ calm' \in BOOLEAN
      /\ calm' /\ queue' # <<>> => ~Encodable(Head(queue'))
  BY <1>2, <1>3, <1>4, <1>5, NumberedKeeps
<1>7. timerKey' \in [Event -> BOOLEAN]
  BY <1>1, <1>2, Zenon DEF RestTypeOK
<1>8. pending' \in [Event -> Payload \cup {Nil}] /\ armed' \in [Event -> Nat]
  BY <1>1, <1>2, <1>3 DEF RestTypeOK
<1>9. RestTypeOK'
  BY <1>1, <1>2, <1>4, <1>7, <1>8 DEF RestTypeOK
<1>10. PendingOK(pending', timerKey', armed', client')
  <2> SUFFICES ASSUME NEW n \in Event
               PROVE  /\ pending'[n] # Nil <=> timerKey'[n]
                      /\ armed'[n] = IF timerKey'[n] THEN 1 ELSE 0
                      /\ pending'[n] # Nil =>
                           pending'[n].for = client'
    BY DEF PendingOK
  <2>1. CASE n = name
    BY <1>1, <1>2, <1>3, <2>1 DEF RestTypeOK
  <2>2. CASE n # name
    <3>1. /\ pending'[n] = pending[n] /\ timerKey'[n] = timerKey[n]
          /\ armed'[n] = armed[n]
      BY <1>1, <1>2, <2>2 DEF RestTypeOK
    <3> QED
      BY <1>2, <3>1 DEF BusInv, PendingOK
  <2> QED
    BY <2>1, <2>2
<1> QED
  BY <1>6, <1>9, <1>10, Assemble

\* client_disconnected empties the bus, and what was written stays in order.
LEMMA ForgetKeeps ==
  ASSUME BusInv, ForgetClient, UNCHANGED <<sequence, wire>>,
         sender' \in BOOLEAN, link' \in BOOLEAN, calm' \in BOOLEAN
  PROVE  BusInv'
<1>1. RestTypeOK /\ PendingOK(pending, timerKey, armed, client)
  BY RestOfType DEF BusInv
<1>2. /\ queue' = <<>> /\ subscriptions' = NoSubscriptions
      /\ client' = client + 1 /\ ClearPending /\ log' = <<>>
  BY DEF ForgetClient
<1>3. /\ pending' \in [Event -> Payload \cup {Nil}]
      /\ timerKey' \in [Event -> BOOLEAN]
      /\ armed' \in [Event -> Nat]
      /\ PendingOK(pending', timerKey', armed', client')
  BY <1>1, <1>2, ClearPendingKeeps
<1>4. RestTypeOK'
  BY <1>1, <1>2, <1>3 DEF RestTypeOK, NoSubscriptions
<1>5. QueueOK(queue', sequence', client')
  BY <1>2, SizeAssumption DEF QueueOK, Newest, Own
<1>6. WireOK(wire', queue', sequence')
  <2>1. wire \in Seq(Message) /\ Ordered(wire)
    BY DEF BusInv, WireOK
  <2>2. queue \in Seq(Message) /\ sequence \in Nat
    BY DEF BusInv, TypeOK
  <2>3. ASSUME NEW j \in DOMAIN wire PROVE wire[j].seq + Len(queue') <= sequence
    <3>1. wire[j] \in Message
      BY <2>1
    <3>2. wire[j].seq \in Nat
      BY <3>1 DEF Message
    <3>3. wire[j].seq + Len(queue) <= sequence /\ Len(queue) \in Nat
      BY <2>2 DEF BusInv, WireOK, Before
    <3>4. Len(queue') = 0
      BY <1>2
    <3> QED
      BY <2>2, <3>2, <3>3, <3>4
  <2>4. wire' = wire /\ sequence' = sequence
    OBVIOUS
  <2> QED
    BY <2>1, <2>3, <2>4 DEF WireOK, Before
<1> QED
  BY <1>2, <1>3, <1>4, <1>5, <1>6, Assemble

LEMMA RequestKeeps ==
  ASSUME BusInv, Request, subscriptions' \in [Pattern -> {"none", "data", "nodata"}],
         log' \in Seq(Entry)
  PROVE  BusInv'
<1>1. RestTypeOK /\ PendingOK(pending, timerKey, armed, client)
  BY RestOfType DEF BusInv
<1>2. Flush(queue) /\ UNCHANGED <<sender, sequence, pending, timerKey, armed, link, client>>
  BY DEF Request
<1>3. RestTypeOK'
  BY <1>1, <1>2 DEF RestTypeOK
<1>4. sequence \in Nat /\ client \in Nat /\ MaxQueueSize \in Nat
  BY <1>1, SizeAssumption DEF RestTypeOK
<1>5. QueueOK(queue, sequence, client) /\ WireOK(wire, queue, sequence)
  BY DEF BusInv
<1>6. /\ QueueOK(queue', sequence, client) /\ WireOK(wire', queue', sequence)
      /\ calm' \in BOOLEAN
      /\ calm' /\ queue' # <<>> => ~Encodable(Head(queue'))
  BY <1>2, <1>4, <1>5, FlushKeeps
<1> QED
  BY <1>1, <1>2, <1>3, <1>6, Assemble

LEMMA BusInvStep == BusInv /\ [Next]_vars => BusInv'
<1> SUFFICES ASSUME BusInv, [Next]_vars PROVE BusInv'
  OBVIOUS
<1>1. RestTypeOK
  BY RestOfType
<1>2. CASE BusInit
  <2>1. RestTypeOK'
    BY <1>1, <1>2 DEF BusInit, RestTypeOK
  <2> QED
    BY <1>2, <2>1, Assemble
    DEF BusInit, BusInv, TypeOK, WaitsOnlyBehindUnencodable
<1>3. CASE ClientDisconnected
  <2>1. calm \in BOOLEAN /\ sender \in BOOLEAN /\ link \in BOOLEAN
    BY DEF BusInv, TypeOK
  <2>2. /\ ForgetClient /\ UNCHANGED <<sequence, wire>>
        /\ sender' = sender /\ link' = link /\ calm' = calm
    BY <1>3 DEF ClientDisconnected
  <2> QED
    BY <2>1, <2>2, ForgetKeeps
<1>4. CASE BusStop
  <2>1. /\ ForgetClient /\ UNCHANGED <<sequence, wire>>
        /\ sender' = FALSE /\ link' = FALSE /\ calm' = FALSE
    BY <1>4 DEF BusStop
  <2>2. sender' \in BOOLEAN /\ link' \in BOOLEAN /\ calm' \in BOOLEAN
    BY <2>1, Zenon
  <2> QED
    BY <2>1, <2>2, ForgetKeeps
<1>5. CASE LinkChanges
  <2>1. /\ link' = ~link /\ calm' = FALSE
        /\ UNCHANGED <<sender, queue, sequence, pending, timerKey, subscriptions,
                       armed, client, wire, log>>
    BY <1>5 DEF LinkChanges
  <2>2. link' \in BOOLEAN /\ calm' \in BOOLEAN
    BY <2>1, Zenon
  <2>3. RestTypeOK'
    BY <1>1, <2>1, <2>2 DEF RestTypeOK
  <2> QED
    BY <2>1, <2>2, <2>3, Assemble DEF BusInv
<1>6. ASSUME NEW name \in Event, NEW data \in Data \cup {Empty},
             NEW include \in BOOLEAN, Emit(name, data, include)
      PROVE  BusInv'
  BY <1>6, EmitKeeps
<1>7. ASSUME NEW name \in Event, TimerFires(name)
      PROVE  BusInv'
  BY <1>7, TimerKeeps
<1>8. ASSUME NEW batch \in Batches, Subscribe(batch) \/ Unsubscribe(batch)
      PROVE  BusInv'
  <2>1. Request /\ (subscriptions' = SubscribeItems(batch)
                     \/ subscriptions' = UnsubscribeItems(batch))
    BY <1>8 DEF Subscribe, Unsubscribe
  <2>2. \E kind \in {"subscribe", "unsubscribe"} : Logs(kind, batch)
    BY <1>8 DEF Subscribe, Unsubscribe
  <2>3. log' \in Seq(Entry)
    BY <1>1, <2>2, LogsType
  <2> QED
    BY <1>1, <2>1, <2>3, ItemsType, RequestKeeps
<1>9. CASE UnsubscribeAll \/ OtherRequest
  <2>1. Request /\ (subscriptions' = NoSubscriptions \/ subscriptions' = subscriptions)
    BY <1>9 DEF UnsubscribeAll, OtherRequest
  <2>2. subscriptions' \in [Pattern -> {"none", "data", "nodata"}]
    BY <1>1, <2>1 DEF RestTypeOK, NoSubscriptions
  <2>3. log' = log \/ Logs("unsubscribeAll", <<>>)
    BY <1>9 DEF UnsubscribeAll, OtherRequest
  <2>4. log' \in Seq(Entry)
    BY <1>1, <2>3, LogsType DEF RestTypeOK
  <2> QED
    BY <2>1, <2>2, <2>4, RequestKeeps
<1>10. CASE UNCHANGED vars
  <2>1. RestTypeOK'
    BY <1>1, <1>10 DEF vars, RestTypeOK
  <2> QED
    BY <1>10, <2>1, Assemble
    DEF vars, BusInv, TypeOK, WaitsOnlyBehindUnencodable
<1> QED
  BY <1>2, <1>3, <1>4, <1>5, <1>6, <1>7, <1>8, <1>9, <1>10 DEF Next

LEMMA BusInvariant == Spec => []BusInv
BY BusInvInit, BusInvStep, PTL DEF Spec

-----------------------------------------------------------------------------
\* Sets of numbers

LEMMA LeastNumber ==
  ASSUME NEW T, T \subseteq Nat, T # {}
  PROVE  \E m \in T : \A k \in T : m <= k
<1>1. PICK m \in T : \A k \in T : ~(<<k, m>> \in OpToRel(<, Nat))
  BY NatLessThanWellFounded, WFMin
<1>2. \A k \in T : ~(k < m)
  BY <1>1 DEF OpToRel
<1> QED
  BY <1>2

LEMMA GreatestNumber ==
  ASSUME NEW n \in Nat, NEW T, T \subseteq 1 .. n, T # {}
  PROVE  \E m \in T : \A k \in T : k <= m
<1> DEFINE U == {u \in 0 .. n : n - u \in T}
<1>1. U \subseteq Nat /\ U # {}
  <2>1. PICK t \in T : TRUE
    OBVIOUS
  <2>2. n - t \in 0 .. n /\ n - (n - t) = t
    BY <2>1
  <2>3. n - t \in U
    BY <2>1, <2>2
  <2>4. U \subseteq Nat
    OBVIOUS
  <2> HIDE DEF U
  <2> QED
    BY <2>3, <2>4
<1>2. PICK u \in U : \A v \in U : u <= v
  <2> HIDE DEF U
  <2> QED
    BY <1>1, LeastNumber
<1>3. ASSUME NEW k \in T PROVE k <= n - u
  <2>1. n - k \in 0 .. n /\ n - (n - k) = k
    OBVIOUS
  <2>2. n - k \in U
    BY <2>1
  <2> QED
    BY <1>2, <2>1, <2>2
<1> QED
  BY <1>2, <1>3

-----------------------------------------------------------------------------
\* What the requests say of a pattern

Asks(kind, batch) == [kind |-> kind, batch |-> batch]

\* The items before the first invalid one are what the client expects them to be.
LEMMA AppliedPrefix ==
  ASSUME NEW batch \in Batches \cup {<<>>}, NEW kind
  PROVE  \E n \in 0 .. Len(batch) :
            MayHaveApplied(Asks(kind, batch), n) /\ AppliedItems(batch) = 1 .. n
<1>1. Len(batch) \in Nat /\ DOMAIN batch = 1 .. Len(batch)
  BY BatchAssumption
<1>2. CASE ~HasInvalid(batch)
  <2>1. AppliedItems(batch) = 1 .. Len(batch)
    BY <1>1, <1>2 DEF HasInvalid, AppliedItems
  <2>2. MayHaveApplied(Asks(kind, batch), Len(batch))
    BY <1>2 DEF MayHaveApplied, Asks
  <2>3. Len(batch) \in 0 .. Len(batch)
    BY <1>1
  <2> QED
    BY <2>1, <2>2, <2>3, Zenon
<1>3. CASE HasInvalid(batch)
  <2> DEFINE T == {k \in DOMAIN batch : batch[k] = Invalid}
  <2>1. T \subseteq Nat /\ T # {}
    BY <1>1, <1>3 DEF HasInvalid
  <2>2. PICK i \in T : \A k \in T : i <= k
    <3> HIDE DEF T
    <3> QED
      BY <2>1, LeastNumber
  <2>3. i \in 1 .. Len(batch) /\ i - 1 \in 0 .. Len(batch) /\ batch[i] = Invalid
    BY <1>1, <2>2
  <2>4. ASSUME NEW k \in 1 .. Len(batch)
        PROVE  k \in AppliedItems(batch) <=> k <= i - 1
    <3>1. CASE k <= i - 1
      <4>1. \A j \in 1 .. k : j \in DOMAIN batch /\ ~(i <= j)
        BY <1>1, <2>3, <2>4, <3>1
      <4>2. \A j \in 1 .. k : batch[j] # Invalid
        BY <2>2, <4>1
      <4> QED
        BY <1>1, <2>4, <3>1, <4>2 DEF AppliedItems
    <3>2. CASE ~(k <= i - 1)
      <4>1. i \in 1 .. k
        BY <1>1, <2>3, <2>4, <3>2
      <4> QED
        BY <2>3, <3>2, <4>1 DEF AppliedItems
    <3> QED
      BY <3>1, <3>2
  <2>5. AppliedItems(batch) \subseteq 1 .. Len(batch)
    BY <1>1 DEF AppliedItems
  <2>6. AppliedItems(batch) = 1 .. i - 1
    <3>1. \A k \in 1 .. i - 1 : k \in 1 .. Len(batch) /\ k <= i - 1
      BY <1>1, <2>3
    <3>2. \A k \in 1 .. Len(batch) : k <= i - 1 => k \in 1 .. i - 1
      BY <1>1, <2>3
    <3> QED
      BY <2>4, <2>5, <3>1, <3>2
  <2>7. MayHaveApplied(Asks(kind, batch), i - 1)
    BY <1>3, <2>3 DEF MayHaveApplied, Asks
  <2> QED
    BY <2>3, <2>6, <2>7
<1> QED
  BY <1>2, <1>3

\* subscribe leaves a pattern, or gives it the policy of its last item.
LEMMA SubscribeSets ==
  ASSUME RestTypeOK, NEW batch \in Batches, NEW p \in Pattern
  PROVE  \/ /\ SubscribeItems(batch)[p] = subscriptions[p]
            /\ MayLeave(Asks("subscribe", batch), p)
         \/ MaySet(Asks("subscribe", batch), p, SubscribeItems(batch)[p] = "data")
<1> DEFINE req == Asks("subscribe", batch)
           own == {k \in AppliedItems(batch) : batch[k].event = p}
<1>1. PICK n \in 0 .. Len(batch) :
        MayHaveApplied(req, n) /\ AppliedItems(batch) = 1 .. n
  BY AppliedPrefix
<1>2. req.kind = "subscribe" /\ req.batch = batch
  BY DEF Asks
<1>3. own \subseteq 1 .. n /\ n \in Nat
  BY <1>1
<1>4. SubscribeItems(batch)[p] =
        IF own = {} THEN subscriptions[p]
        ELSE Policy(batch[CHOOSE k \in own : \A j \in own : j <= k])
  BY Zenon DEF SubscribeItems
<1> HIDE DEF req
<1>5. CASE own = {}
  <2>1. Leaves(req, n, p)
    BY <1>1, <1>2, <1>5 DEF Leaves
  <2> QED
    BY <1>1, <1>2, <1>4, <1>5, <2>1 DEF MayLeave, req
<1>6. CASE own # {}
  <2> DEFINE last == CHOOSE k \in own : \A j \in own : j <= k
  <2>1. last \in own /\ \A j \in own : j <= last
    <3> HIDE DEF own
    <3>1. \E k \in own : \A j \in own : j <= k
      BY <1>3, <1>6, GreatestNumber
    <3> QED
      BY <3>1
  <2>2. SubscribeItems(batch)[p] = Policy(batch[last])
    BY <1>4, <1>6
  <2>3. last \in 1 .. n /\ batch[last].event = p /\ last \in AppliedItems(batch)
    BY <1>1, <2>1
  <2>4. \A j \in last + 1 .. n : batch[j].event # p
    BY <1>1, <2>1, <2>3
  <2> HIDE DEF last, own
  <2>5. batch[last] # Invalid /\ last \in DOMAIN batch
    BY <2>3 DEF AppliedItems
  <2>6. batch[last] \in [event : Pattern, include : BOOLEAN]
    BY <2>5, BatchAssumption
  <2> DEFINE include == batch[last].include
  <2>7. include \in BOOLEAN /\ batch[last] = [event |-> p, include |-> include]
    BY <2>3, <2>6
  <2>8. (SubscribeItems(batch)[p] = "data") = include
    BY <2>2, <2>7 DEF Policy
  <2>9. \A j \in last + 1 .. n : req.batch[j] # [event |-> p, include |-> ~include]
    BY <1>2, <2>4
  <2>10. Sets(req, n, p, include)
    BY <1>2, <2>3, <2>7, <2>9 DEF Sets
  <2> QED
    BY <1>1, <1>2, <2>8, <2>10 DEF MaySet, req
<1> QED
  BY <1>5, <1>6

\* unsubscribe takes a pattern away or leaves it.
LEMMA UnsubscribeLeaves ==
  ASSUME RestTypeOK, NEW batch \in Batches, NEW p \in Pattern,
         UnsubscribeItems(batch)[p] # "none"
  PROVE  /\ UnsubscribeItems(batch)[p] = subscriptions[p]
         /\ MayLeave(Asks("unsubscribe", batch), p)
<1> DEFINE req == Asks("unsubscribe", batch)
<1>1. PICK n \in 0 .. Len(batch) :
        MayHaveApplied(req, n) /\ AppliedItems(batch) = 1 .. n
  BY AppliedPrefix
<1>2. req.kind = "unsubscribe" /\ req.batch = batch
  BY DEF Asks
<1>3. ~\E k \in AppliedItems(batch) : batch[k].event = p
  BY DEF UnsubscribeItems
<1>4. UnsubscribeItems(batch)[p] = subscriptions[p]
  BY <1>3 DEF UnsubscribeItems
<1> HIDE DEF req
<1>5. Leaves(req, n, p)
  BY <1>1, <1>2, <1>3 DEF Leaves
<1> QED
  BY <1>1, <1>2, <1>4, <1>5 DEF MayLeave, req

\* What was in force after some requests stays so, whatever is requested next.
LEMMA InForceStays ==
  ASSUME NEW l \in Seq(Entry), NEW e \in Entry, NEW after \in 0 .. Len(l), NEW p, NEW include
  PROVE  MayBeInForce(Append(l, e), after, p, include)
            <=> MayBeInForce(l, after, p, include)
<1>1. \A i \in 1 .. after : Append(l, e)[i] = l[i]
  OBVIOUS
<1>2. \A i \in 1 .. after : \A j \in i + 1 .. after : j \in 1 .. after
  OBVIOUS
<1> DEFINE l2 == Append(l, e)
<1> HIDE DEF l2
<1>3. \A i \in 1 .. after : l2[i] = l[i]
  BY <1>1 DEF l2
<1>4. MayBeInForce(l2, after, p, include) <=> MayBeInForce(l, after, p, include)
  BY <1>2, <1>3, Zenon DEF MayBeInForce
<1> QED
  BY <1>4 DEF l2

LEMMA InForceLeft ==
  ASSUME NEW l \in Seq(Entry), NEW e \in Entry, NEW p, NEW include,
         MayBeInForce(l, Len(l), p, include), MayLeave(e, p)
  PROVE  MayBeInForce(Append(l, e), Len(Append(l, e)), p, include)
<1> DEFINE n == Len(l)  l2 == Append(l, e)
<1>1. n \in Nat /\ Len(l2) = n + 1 /\ l2[n + 1] = e /\ \A i \in 1 .. n : l2[i] = l[i]
  OBVIOUS
<1>2. PICK i \in 1 .. n :
        /\ MaySet(l[i], p, include)
        /\ \A j \in i + 1 .. n : MayLeave(l[j], p)
  BY DEF MayBeInForce
<1> HIDE DEF n, l2
<1>3. i \in 1 .. n + 1 /\ l2[i] = l[i]
  BY <1>1, <1>2
<1>4. ASSUME NEW j \in i + 1 .. n + 1 PROVE MayLeave(l2[j], p)
  <2>1. j = n + 1 \/ (j \in i + 1 .. n /\ j \in 1 .. n)
    BY <1>1, <1>2
  <2> QED
    BY <1>1, <1>2, <2>1
<1>5. MayBeInForce(l2, n + 1, p, include)
  BY <1>2, <1>3, <1>4 DEF MayBeInForce
<1> QED
  BY <1>1, <1>5 DEF l2

LEMMA InForceSet ==
  ASSUME NEW l \in Seq(Entry), NEW e \in Entry, NEW p, NEW include, MaySet(e, p, include)
  PROVE  MayBeInForce(Append(l, e), Len(Append(l, e)), p, include)
<1> DEFINE n == Len(l)  l2 == Append(l, e)
<1>1. n \in Nat /\ Len(l2) = n + 1 /\ l2[n + 1] = e
  OBVIOUS
<1> HIDE DEF n, l2
<1>2. n + 1 \in 1 .. n + 1 /\ \A j \in (n + 1) + 1 .. n + 1 : MayLeave(l2[j], p)
  BY <1>1
<1>3. MayBeInForce(l2, n + 1, p, include)
  BY <1>1, <1>2 DEF MayBeInForce
<1> QED
  BY <1>1, <1>3 DEF l2

-----------------------------------------------------------------------------
\* Every subscription in force is one the requests may have left in force, and every
\* payload was asked for when it was emitted.

InForce(l, subs) ==
    \A p \in Pattern :
        subs[p] # "none" => MayBeInForce(l, Len(l), p, subs[p] = "data")

Justified(l, name, payload) ==
    payload.after <= Len(l) /\ AskedFor(l, name, payload)

PendingAsked(l, waiting) ==
    \A name \in Event : waiting[name] # Nil => Justified(l, name, waiting[name])
QueueAsked(l, q) ==
    \A k \in DOMAIN q : Justified(l, q[k].event, q[k].payload)
WireAsked(l, w, c) ==
    \A k \in DOMAIN w :
        /\ w[k].payload.for <= c
        /\ w[k].payload.for = c => Justified(l, w[k].event, w[k].payload)

AskInv ==
    /\ InForce(log, subscriptions)
    /\ PendingAsked(log, pending)
    /\ QueueAsked(log, queue)
    /\ WireAsked(log, wire, client)

\* A request takes no justification away.
LEMMA JustifiedStays ==
  ASSUME NEW l \in Seq(Entry), NEW e \in Entry, NEW name, NEW payload \in Payload,
         Justified(l, name, payload)
  PROVE  Justified(Append(l, e), name, payload)
<1>1. payload.after \in Nat /\ payload.after <= Len(l)
  BY DEF Payload, Justified
<1>2. payload.after \in 0 .. Len(l) /\ payload.after <= Len(Append(l, e))
  BY <1>1
<1>3. \A p : MayBeInForce(Append(l, e), payload.after, p, payload.policy)
               <=> MayBeInForce(l, payload.after, p, payload.policy)
  BY <1>2, InForceStays
<1> QED
  BY <1>2, <1>3 DEF Justified, AskedFor

\* A flush moves messages, and makes none.
LEMMA FlushMoves ==
  ASSUME NEW q \in Seq(Message), wire \in Seq(Message), Flush(q)
  PROVE  /\ \A i \in DOMAIN queue' : \E k \in DOMAIN q : queue'[i] = q[k]
         /\ \A i \in DOMAIN wire' :
                \/ \E k \in DOMAIN wire : wire'[i] = wire[k]
                \/ \E k \in DOMAIN q : wire'[i] = q[k]
<1>1. PICK n \in 0 .. Len(q) :
        wire' = wire \o SubSeq(q, 1, n) /\ queue' = SubSeq(q, n + 1, Len(q))
  BY DEF Flush
<1> DEFINE sent == SubSeq(q, 1, n)
<1>2. /\ sent \in Seq(Message)
      /\ \A i \in DOMAIN sent : i \in DOMAIN q /\ sent[i] = q[i]
      /\ \A i \in DOMAIN queue' : n + i \in DOMAIN q /\ queue'[i] = q[n + i]
  BY <1>1, SplitAt
<1>3. wire' = wire \o sent
  BY <1>1
<1> HIDE DEF sent
<1>4. \A i \in DOMAIN wire' :
        \/ i \in DOMAIN wire /\ wire'[i] = wire[i]
        \/ i - Len(wire) \in DOMAIN sent /\ wire'[i] = sent[i - Len(wire)]
  BY <1>2, <1>3, ConcatFrom
<1> QED
  BY <1>2, <1>4

LEMMA FlushAsked ==
  ASSUME NEW q \in Seq(Message), wire \in Seq(Message), Flush(q), NEW l, NEW c \in Nat,
         QueueAsked(l, q), Own(q, c), WireAsked(l, wire, c)
  PROVE  QueueAsked(l, queue') /\ WireAsked(l, wire', c)
<1>1. \A i \in DOMAIN queue' : \E k \in DOMAIN q : queue'[i] = q[k]
  BY FlushMoves
<1>2. QueueAsked(l, queue')
  BY <1>1 DEF QueueAsked
<1>3. ASSUME NEW i \in DOMAIN wire'
      PROVE  /\ wire'[i].payload.for <= c
             /\ wire'[i].payload.for = c
                    => Justified(l, wire'[i].event, wire'[i].payload)
  <2>1. \/ \E k \in DOMAIN wire : wire'[i] = wire[k]
        \/ \E k \in DOMAIN q : wire'[i] = q[k]
    BY FlushMoves
  <2>2. CASE \E k \in DOMAIN wire : wire'[i] = wire[k]
    BY <2>2 DEF WireAsked
  <2>3. CASE \E k \in DOMAIN q : wire'[i] = q[k]
    <3>1. PICK k \in DOMAIN q : wire'[i] = q[k]
      BY <2>3
    <3>2. q[k].payload.for = c /\ Justified(l, q[k].event, q[k].payload)
      BY DEF Own, QueueAsked
    <3>3. c <= c
      OBVIOUS
    <3> QED
      BY <3>1, <3>2, <3>3
  <2> QED
    BY <2>1, <2>2, <2>3
<1> QED
  BY <1>2, <1>3 DEF WireAsked

\* A message that was asked for joins a queue of such messages.
LEMMA EnqueueAsked ==
  ASSUME NEW q \in Seq(Message), NEW m \in Message, NEW l, MaxQueueSize \in Nat \ {0},
         QueueAsked(l, q), Justified(l, m.event, m.payload)
  PROVE  Enqueue(q, m) \in Seq(Message) /\ QueueAsked(l, Enqueue(q, m))
<1> DEFINE r == IF Len(q) >= MaxQueueSize THEN Tail(q) ELSE q
<1>1. r \in Seq(Message) /\ \A i \in DOMAIN r : \E k \in DOMAIN q : r[i] = q[k]
  <2>1. CASE Len(q) >= MaxQueueSize
    <3>1. q # <<>> /\ r = Tail(q)
      BY <2>1
    <3> HIDE DEF r
    <3> QED
      BY <3>1, TailFrom
  <2>2. CASE ~(Len(q) >= MaxQueueSize)
    BY <2>2
  <2> QED
    BY <2>1, <2>2
<1>2. Enqueue(q, m) = Append(r, m)
  BY DEF Enqueue
<1> HIDE DEF r
<1>3. /\ Append(r, m) \in Seq(Message)
      /\ \A i \in DOMAIN Append(r, m) : \/ i \in DOMAIN r /\ Append(r, m)[i] = r[i]
                                        \/ Append(r, m)[i] = m
  BY <1>1, AppendFrom
<1> QED
  BY <1>1, <1>2, <1>3 DEF QueueAsked

\* A payload that was asked for is numbered and sent to the client it is for.
LEMMA NumberedAsked ==
  ASSUME BusInv, AskInv, NEW name \in Event, NEW payload \in Payload,
         payload.for = client, Justified(log, name, payload),
         Flush(Enqueue(queue, Number(name, payload)))
  PROVE  QueueAsked(log, queue') /\ WireAsked(log, wire', client)
<1>1. /\ queue \in Seq(Message) /\ wire \in Seq(Message) /\ client \in Nat
      /\ sequence \in Nat /\ MaxQueueSize \in Nat \ {0}
      /\ QueueOK(queue, sequence, client) /\ WireOK(wire, queue, sequence)
  BY SizeAssumption DEF BusInv, TypeOK
<1>2. SizeAssumption
  BY SizeAssumption
<1> DEFINE m == Number(name, payload)  q == Enqueue(queue, m)
<1>3. /\ m \in Message /\ m.event = name /\ m.payload = payload
      /\ m.seq = sequence + 1
  BY <1>1 DEF Number, Message
<1> HIDE DEF m
<1>4. QueueOK(q, sequence + 1, client)
  BY <1>1, <1>2, <1>3, EnqueueKeeps
<1>5. q \in Seq(Message) /\ QueueAsked(log, q)
  BY <1>1, <1>3, EnqueueAsked DEF AskInv
<1>6. Flush(q) /\ WireAsked(log, wire, client)
  BY DEF m, AskInv
<1> HIDE DEF q
<1>7. Own(q, client)
  BY <1>4 DEF QueueOK
<1> QED
  BY <1>1, <1>5, <1>6, <1>7, FlushAsked

LEMMA EmitAsked ==
  ASSUME BusInv, AskInv, NEW name \in Event, NEW data \in Data \cup {Empty},
         NEW include \in BOOLEAN, Emit(name, data, include)
  PROVE  AskInv'
<1> DEFINE payload == NewPayload(name, data, include)
<1>1. UNCHANGED <<subscriptions, log, client>>
  BY DEF Emit
<1>2. RestTypeOK
  BY RestOfType
<1>3. /\ payload \in Payload /\ payload.for = client /\ payload.after = Len(log)
      /\ payload.policy = include /\ (payload.data # Empty => include)
  BY <1>2 DEF NewPayload, Payload, RestTypeOK
<1>4. PICK p \in Pattern : /\ subscriptions[p] # "none" /\ name \in Covers[p]
                           /\ include = (subscriptions[p] = "data")
  BY DEF Emit, MayInclude, MatchingPatterns
<1> HIDE DEF payload
<1>5. MayBeInForce(log, Len(log), p, include)
  BY <1>4, Zenon DEF AskInv, InForce
<1>6. Justified(log, name, payload)
  <2>1. Len(log) <= Len(log)
    BY <1>2 DEF RestTypeOK
  <2>2. AskedFor(log, name, payload)
    BY <1>3, <1>4, <1>5, Zenon DEF AskedFor
  <2> QED
    BY <1>3, <2>1, <2>2 DEF Justified
<1>7. CASE EmitCoalesced(name, data, include)
  <2>1. /\ pending' = [pending EXCEPT ![name] = payload]
        /\ UNCHANGED <<queue, wire>>
    BY <1>7 DEF EmitCoalesced, payload
  <2>2. PendingAsked(log, pending')
    BY <1>2, <1>6, <2>1 DEF AskInv, PendingAsked, RestTypeOK
  <2> QED
    BY <1>1, <2>1, <2>2 DEF AskInv
<1>8. CASE EmitAtOnce(name, data, include)
  <2>1. Flush(Enqueue(queue, Number(name, payload))) /\ pending' = pending
    BY <1>8 DEF EmitAtOnce, payload
  <2>2. QueueAsked(log, queue') /\ WireAsked(log, wire', client)
    BY <1>3, <1>6, <2>1, NumberedAsked
  <2> QED
    BY <1>1, <2>1, <2>2 DEF AskInv
<1> QED
  BY <1>7, <1>8 DEF Emit

LEMMA TimerAsked ==
  ASSUME BusInv, AskInv, NEW name \in Event, TimerFires(name)
  PROVE  AskInv'
<1>1. /\ UNCHANGED <<subscriptions, log, client>>
      /\ pending' = [pending EXCEPT ![name] = Nil]
  BY DEF TimerFires
<1>2. RestTypeOK
  BY RestOfType
<1>3. PendingAsked(log, pending')
  BY <1>1, <1>2 DEF AskInv, PendingAsked, RestTypeOK
<1>4. CASE pending[name] # Nil
  <2>1. Flush(Enqueue(queue, Number(name, pending[name])))
    BY <1>4 DEF TimerFires
  <2>2. pending[name] \in Payload /\ pending[name].for = client
    BY <1>2, <1>4 DEF RestTypeOK, BusInv, PendingOK
  <2>3. Justified(log, name, pending[name])
    BY <1>4 DEF AskInv, PendingAsked
  <2>4. QueueAsked(log, queue') /\ WireAsked(log, wire', client)
    BY <2>1, <2>2, <2>3, NumberedAsked
  <2> QED
    BY <1>1, <1>3, <2>4 DEF AskInv
<1>5. CASE pending[name] = Nil
  <2>1. UNCHANGED <<queue, wire>>
    BY <1>5 DEF TimerFires
  <2> QED
    BY <1>1, <1>3, <2>1 DEF AskInv
<1> QED
  BY <1>4, <1>5

\* client_disconnected forgets the requests with everything they justified.
LEMMA ForgetAsked ==
  ASSUME BusInv, AskInv, ForgetClient, UNCHANGED wire
  PROVE  AskInv'
<1>1. /\ queue' = <<>> /\ subscriptions' = NoSubscriptions
      /\ client' = client + 1 /\ ClearPending
  BY DEF ForgetClient
<1>2. QueueAsked(log', queue')
  BY <1>1 DEF QueueAsked
<1>3. InForce(log', subscriptions')
  BY <1>1 DEF InForce, NoSubscriptions
<1>4. PendingAsked(log', pending')
  BY <1>1 DEF PendingAsked, ClearPending
<1>5. ASSUME NEW k \in DOMAIN wire
      PROVE  wire[k].payload.for <= client + 1 /\ wire[k].payload.for # client + 1
  <2>1. wire[k] \in Message /\ client \in Nat
    BY DEF BusInv, TypeOK
  <2>2. wire[k].payload.for \in Nat
    BY <2>1 DEF Message, Payload
  <2>3. wire[k].payload.for <= client
    BY DEF AskInv, WireAsked
  <2> QED
    BY <2>1, <2>2, <2>3
<1>6. WireAsked(log', wire', client')
  BY <1>1, <1>5 DEF WireAsked
<1> QED
  BY <1>2, <1>3, <1>4, <1>6 DEF AskInv

\* A request is logged with what it did to the subscriptions.
LEMMA LoggedRequestAsked ==
  ASSUME BusInv, AskInv, Request, NEW e \in Entry, log' = Append(log, e),
         \A p \in Pattern :
            subscriptions'[p] # "none" =>
                \/ subscriptions'[p] = subscriptions[p] /\ MayLeave(e, p)
                \/ MaySet(e, p, subscriptions'[p] = "data")
  PROVE  AskInv'
<1>1. /\ Flush(queue) /\ UNCHANGED <<pending, client>>
  BY DEF Request
<1>2. RestTypeOK
  BY RestOfType
<1>3. /\ log \in Seq(Entry) /\ client \in Nat /\ queue \in Seq(Message)
      /\ wire \in Seq(Message) /\ Own(queue, client)
  BY <1>2 DEF RestTypeOK, BusInv, QueueOK, WireOK
<1>4. ASSUME NEW p \in Pattern, subscriptions'[p] # "none"
      PROVE  MayBeInForce(log', Len(log'), p, subscriptions'[p] = "data")
  <2>1. CASE subscriptions'[p] = subscriptions[p] /\ MayLeave(e, p)
    <3>1. MayBeInForce(log, Len(log), p, subscriptions[p] = "data")
      BY <1>4, <2>1, Zenon DEF AskInv, InForce
    <3> DEFINE include == subscriptions[p] = "data"
    <3> HIDE DEF include
    <3>2. MayBeInForce(log, Len(log), p, include)
      BY <3>1, Zenon DEF include
    <3>3. MayBeInForce(log', Len(log'), p, include)
      BY <1>3, <2>1, <3>2, InForceLeft
    <3> QED
      BY <2>1, <3>3, Zenon DEF include
  <2>2. CASE MaySet(e, p, subscriptions'[p] = "data")
    <3> DEFINE include == subscriptions'[p] = "data"
    <3> HIDE DEF include
    <3>1. MaySet(e, p, include)
      BY <2>2, Zenon DEF include
    <3>2. MayBeInForce(log', Len(log'), p, include)
      BY <1>3, <3>1, InForceSet
    <3> QED
      BY <3>2, Zenon DEF include
  <2> QED
    BY <1>4, <2>1, <2>2
<1>5. PendingAsked(log', pending')
  <2> SUFFICES ASSUME NEW name \in Event, pending[name] # Nil
               PROVE  Justified(log', name, pending[name])
    BY <1>1 DEF PendingAsked
  <2>1. pending[name] \in Payload
    BY <1>2 DEF RestTypeOK
  <2>2. Justified(log, name, pending[name])
    BY DEF AskInv, PendingAsked
  <2> QED
    BY <1>3, <2>1, <2>2, JustifiedStays
<1>6. QueueAsked(log', queue)
  <2> SUFFICES ASSUME NEW k \in DOMAIN queue
               PROVE  Justified(log', queue[k].event, queue[k].payload)
    BY DEF QueueAsked
  <2>1. queue[k] \in Message
    BY <1>3
  <2>2. queue[k].payload \in Payload
    BY <2>1 DEF Message
  <2>3. Justified(log, queue[k].event, queue[k].payload)
    BY DEF AskInv, QueueAsked
  <2> QED
    BY <1>3, <2>2, <2>3, JustifiedStays
<1>7. WireAsked(log', wire, client)
  <2> SUFFICES ASSUME NEW k \in DOMAIN wire
               PROVE  /\ wire[k].payload.for <= client
                      /\ wire[k].payload.for = client
                            => Justified(log', wire[k].event, wire[k].payload)
    BY DEF WireAsked
  <2>1. wire[k] \in Message
    BY <1>3
  <2>2. wire[k].payload \in Payload
    BY <2>1 DEF Message
  <2>3. /\ wire[k].payload.for <= client
        /\ wire[k].payload.for = client
              => Justified(log, wire[k].event, wire[k].payload)
    BY DEF AskInv, WireAsked
  <2> QED
    BY <1>3, <2>2, <2>3, JustifiedStays
<1>8. QueueAsked(log', queue') /\ WireAsked(log', wire', client)
  BY <1>1, <1>3, <1>6, <1>7, FlushAsked
<1> QED
  BY <1>1, <1>4, <1>5, <1>8 DEF AskInv, InForce

LEMMA AskInvStep == BusInv /\ AskInv /\ [Next]_vars => AskInv'
<1> SUFFICES ASSUME BusInv, AskInv, [Next]_vars PROVE AskInv'
  OBVIOUS
<1>1. RestTypeOK
  BY RestOfType
<1>2. CASE BusInit \/ LinkChanges \/ UNCHANGED vars
  <2>1. UNCHANGED <<log, subscriptions, pending, queue, wire, client>>
    BY <1>2 DEF BusInit, LinkChanges, vars
  <2> QED
    BY <2>1 DEF AskInv
<1>3. CASE ClientDisconnected \/ BusStop
  <2>1. ForgetClient /\ UNCHANGED wire
    BY <1>3 DEF ClientDisconnected, BusStop
  <2> QED
    BY <2>1, ForgetAsked
<1>4. ASSUME NEW name \in Event, NEW data \in Data \cup {Empty},
             NEW include \in BOOLEAN, Emit(name, data, include)
      PROVE  AskInv'
  BY <1>4, EmitAsked
<1>5. ASSUME NEW name \in Event, TimerFires(name)
      PROVE  AskInv'
  BY <1>5, TimerAsked
<1>6. ASSUME NEW batch \in Batches, Subscribe(batch)
      PROVE  AskInv'
  <2> DEFINE e == Asks("subscribe", batch)
  <2>1. /\ Request /\ subscriptions' = SubscribeItems(batch)
        /\ log' = Append(log, e) /\ e \in Entry
    BY <1>6 DEF Subscribe, Logs, Asks, Entry
  <2>2. \A p \in Pattern :
            \/ subscriptions'[p] = subscriptions[p] /\ MayLeave(e, p)
            \/ MaySet(e, p, subscriptions'[p] = "data")
    <3> HIDE DEF e
    <3> SUFFICES ASSUME NEW p \in Pattern
                 PROVE  \/ subscriptions'[p] = subscriptions[p] /\ MayLeave(e, p)
                        \/ MaySet(e, p, subscriptions'[p] = "data")
      OBVIOUS
    <3>1. \/ SubscribeItems(batch)[p] = subscriptions[p] /\ MayLeave(e, p)
          \/ MaySet(e, p, SubscribeItems(batch)[p] = "data")
      BY <1>1, SubscribeSets, Zenon DEF e
    <3> QED
      BY <2>1, <3>1, Zenon
  <2> HIDE DEF e
  <2> QED
    BY <2>1, <2>2, LoggedRequestAsked
<1>7. ASSUME NEW batch \in Batches, Unsubscribe(batch)
      PROVE  AskInv'
  <2> DEFINE e == Asks("unsubscribe", batch)
  <2>1. /\ Request /\ subscriptions' = UnsubscribeItems(batch)
        /\ log' = Append(log, e) /\ e \in Entry
    BY <1>7 DEF Unsubscribe, Logs, Asks, Entry
  <2>2. \A p \in Pattern :
            subscriptions'[p] # "none" =>
                subscriptions'[p] = subscriptions[p] /\ MayLeave(e, p)
    BY <1>1, <2>1, UnsubscribeLeaves
  <2> HIDE DEF e
  <2> QED
    BY <2>1, <2>2, LoggedRequestAsked
<1>8. CASE UnsubscribeAll
  <2> DEFINE e == Asks("unsubscribeAll", <<>>)
  <2>1. /\ Request /\ subscriptions' = NoSubscriptions
        /\ log' = Append(log, e) /\ e \in Entry
    BY <1>8 DEF UnsubscribeAll, Logs, Asks, Entry
  <2>2. \A p \in Pattern : subscriptions'[p] = "none"
    BY <2>1 DEF NoSubscriptions
  <2> HIDE DEF e
  <2> QED
    BY <2>1, <2>2, LoggedRequestAsked
<1>9. CASE OtherRequest
  <2>1. /\ Flush(queue) /\ UNCHANGED <<log, subscriptions, pending, client>>
    BY <1>9 DEF OtherRequest, Request
  <2>2. /\ queue \in Seq(Message) /\ wire \in Seq(Message) /\ client \in Nat
        /\ Own(queue, client)
    BY DEF BusInv, TypeOK, QueueOK
  <2>3. QueueAsked(log, queue') /\ WireAsked(log, wire', client)
    BY <2>1, <2>2, FlushAsked DEF AskInv
  <2> QED
    BY <2>1, <2>3 DEF AskInv
<1> QED
  BY <1>2, <1>3, <1>4, <1>5, <1>6, <1>7, <1>8, <1>9 DEF Next

LEMMA AskInvInit == Init => AskInv
BY DEF Init, NoSubscriptions, AskInv, InForce, PendingAsked, QueueAsked, WireAsked

-----------------------------------------------------------------------------

\* The variables of eventbus.lua and subscriptions.lua keep their types.
THEOREM BusTyped == Spec => []TypeOK
<1>1. BusInv => TypeOK
  BY DEF BusInv
<1> QED
  BY <1>1, BusInvariant, PTL

\* However flushes fail, timers fire and clients come and go, the queue keeps its
\* bound and holds the newest events without a gap, and as long as one client has
\* been connected since the last flush, of which no write raised, what waits is
\* behind an event that cannot be encoded (enqueue, flush).
THEOREM QueueStaysKept == Spec => []QueueKept
<1>1. BusInv => QueueKept
  BY DEF BusInv, QueueOK, Newest, QueueIsNewest, QueueKept
<1> QED
  BY <1>1, BusInvariant, PTL

\* The sequence numbers on the wire grow strictly, also over a change of client,
\* and every queued event comes after those written.
THEOREM WireStaysInOrder == Spec => []WireInOrder
<1>1. ASSUME BusInv PROVE WireInOrder
  <2>1. \A j, k \in DOMAIN wire : j < k => wire[j].seq < wire[k].seq
    BY <1>1 DEF BusInv, WireOK, Ordered
  <2>2. ASSUME NEW j \in DOMAIN wire, NEW k \in DOMAIN queue
        PROVE  wire[j].seq < queue[k].seq
    <3>1. wire \in Seq(Message) /\ queue \in Seq(Message) /\ sequence \in Nat
      BY <1>1 DEF BusInv, TypeOK
    <3>2. wire[j] \in Message /\ queue[k] \in Message
      BY <3>1
    <3>3. wire[j].seq \in Nat /\ queue[k].seq \in Nat
      BY <3>2 DEF Message
    <3>4. wire[j].seq + Len(queue) <= sequence
      BY <1>1 DEF BusInv, WireOK, Before
    <3>5. queue[k].seq + Len(queue) = sequence + k
      BY <1>1 DEF BusInv, QueueOK, Newest
    <3>6. Len(queue) \in Nat /\ k \in Nat \ {0}
      BY <3>1
    <3> QED
      BY <3>1, <3>3, <3>4, <3>5, <3>6
  <2> QED
    BY <2>1, <2>2 DEF WireInOrder
<1> QED
  BY <1>1, BusInvariant, PTL

\* A payload waits exactly while one timer is armed for it: emit arms none twice and
\* clear_pending leaves none behind.
THEOREM TimersMatchPayloads == Spec => []OneTimerPerPayload
<1>1. BusInv => OneTimerPerPayload
  BY DEF BusInv, PendingOK, OneTimerPerPayload
<1> QED
  BY <1>1, BusInvariant, PTL

\* Nothing emitted for one client waits for the next: client_disconnected forgets
\* the queue and every coalesced payload.
THEOREM ClientsKeptApart == Spec => []ServesOneClient
<1>1. BusInv => ServesOneClient
  BY DEF BusInv, QueueOK, Own, PendingOK, ServesOneClient
<1> QED
  BY <1>1, BusInvariant, PTL

\* Whatever the patterns cover, however the requests overlap, replace or take away
\* each other and wherever one is refused half way, an event is queued or written
\* only if the client's requests had subscribed to it before it was emitted, and with
\* its data only if they had left a pattern in force that covers it with data
\* (subscribe, unsubscribe, include_data and emit).
THEOREM DataOnlyAsAsked == Spec => []DataAsAsked
<1>1. BusInv /\ AskInv => DataAsAsked
  BY DEF AskInv, PendingAsked, QueueAsked, WireAsked, Justified, DataAsAsked
<1>2. BusInv /\ AskInv /\ [Next]_vars => AskInv'
  BY AskInvStep
<1> QED
  BY <1>1, <1>2, AskInvInit, BusInvariant, PTL DEF Spec

\* An event leaves the queue only by being written, as the oldest of a full queue
\* or with its client.
THEOREM LossIsByOverflow == Spec => NoSilentLoss
<1> DEFINE Kept(k) == \/ queue[k] \in ToSet(queue') \/ queue[k] \in ToSet(wire')
                      \/ k = 1 /\ Len(queue) = MaxQueueSize
                      \/ client' # client
<1>1. ASSUME BusInv, [Next]_vars
      PROVE  (\A k \in DOMAIN queue : Kept(k)) \/ UNCHANGED vars
  <2> SUFFICES ASSUME NEW k \in DOMAIN queue, ~UNCHANGED vars, client' = client
               PROVE  \/ queue[k] \in ToSet(queue') \/ queue[k] \in ToSet(wire')
                      \/ k = 1 /\ Len(queue) = MaxQueueSize
    OBVIOUS
  <2>1. /\ queue \in Seq(Message) /\ wire \in Seq(Message) /\ sequence \in Nat
        /\ client \in Nat /\ Len(queue) <= MaxQueueSize /\ MaxQueueSize \in Nat \ {0}
    BY <1>1, SizeAssumption DEF BusInv, TypeOK, QueueOK
  <2>2. CASE queue' = queue
    BY <2>2 DEF ToSet
  <2>3. CASE Flush(queue)
    BY <2>1, <2>3, FlushLosesNone
  <2>4. ASSUME NEW m \in Message, Flush(Enqueue(queue, m))
        PROVE  \/ queue[k] \in ToSet(queue') \/ queue[k] \in ToSet(wire')
               \/ k = 1 /\ Len(queue) = MaxQueueSize
    <3> SUFFICES ASSUME ~(k = 1 /\ Len(queue) = MaxQueueSize)
                 PROVE  queue[k] \in ToSet(queue') \/ queue[k] \in ToSet(wire')
      OBVIOUS
    <3> DEFINE r == IF Len(queue) >= MaxQueueSize THEN Tail(queue) ELSE queue
    <3>1. r \in Seq(Message) /\ \E i \in DOMAIN r : r[i] = queue[k]
      <4>1. CASE Len(queue) >= MaxQueueSize
        <5>1. Len(queue) = MaxQueueSize /\ k > 1
          BY <2>1, <4>1
        <5>2. k - 1 \in DOMAIN Tail(queue) /\ Tail(queue)[k - 1] = queue[k]
          BY <2>1, <5>1
        <5> QED
          BY <2>1, <4>1, <5>1, <5>2
      <4>2. CASE ~(Len(queue) >= MaxQueueSize)
        BY <2>1, <4>2
      <4> QED
        BY <4>1, <4>2
    <3>2. Enqueue(queue, m) = Append(r, m)
      BY DEF Enqueue
    <3> HIDE DEF r
    <3>3. PICK i \in DOMAIN r : r[i] = queue[k]
      BY <3>1
    <3>4. /\ Append(r, m) \in Seq(Message) /\ i \in DOMAIN Append(r, m)
          /\ Append(r, m)[i] = queue[k]
      BY <3>1, <3>3
    <3> QED
      BY <2>1, <2>4, <3>2, <3>4, FlushLosesNone
  <2>5. ASSUME NEW name \in Event, NEW payload \in Payload
        PROVE  Number(name, payload) \in Message
    BY <2>1 DEF Number, Message
  <2>6. CASE ClientDisconnected \/ BusStop
    BY <2>1, <2>6 DEF ClientDisconnected, BusStop, ForgetClient
  <2>7. CASE BusInit \/ LinkChanges
    BY <2>2, <2>7 DEF BusInit, LinkChanges
  <2>8. ASSUME NEW name \in Event, NEW data \in Data \cup {Empty},
               NEW include \in BOOLEAN, Emit(name, data, include)
        PROVE  \/ queue' = queue
               \/ \E m \in Message : Flush(Enqueue(queue, m))
    <3>1. NewPayload(name, data, include) \in Payload
      BY <2>1 DEF NewPayload, Payload
    <3> QED
      BY <2>5, <2>8, <3>1 DEF Emit, EmitCoalesced, EmitAtOnce
  <2>9. ASSUME NEW name \in Event, TimerFires(name)
        PROVE  \/ queue' = queue
               \/ \E m \in Message : Flush(Enqueue(queue, m))
    <3>1. pending[name] # Nil => pending[name] \in Payload
      BY <1>1 DEF BusInv, TypeOK
    <3> QED
      BY <2>5, <2>9, <3>1 DEF TimerFires
  <2>10. ASSUME NEW batch \in Batches, Subscribe(batch) \/ Unsubscribe(batch)
         PROVE  Flush(queue)
    BY <2>10 DEF Subscribe, Unsubscribe, Request
  <2>11. CASE UnsubscribeAll \/ OtherRequest
    BY <2>3, <2>11 DEF UnsubscribeAll, OtherRequest, Request
  <2> QED
    BY <1>1, <2>2, <2>3, <2>4, <2>6, <2>7, <2>8, <2>9, <2>10, <2>11 DEF Next
<1>2. BusInv /\ [Next]_vars => [\A k \in DOMAIN queue : Kept(k)]_vars
  BY <1>1
<1> QED
  BY <1>2, BusInvariant, PTL DEF Spec, NoSilentLoss
=============================================================================
