------------------------------ MODULE ReadLoop ------------------------------
(***************************************************************************)
(* The socket read loop of hammerspoon/macapi/server.lua: one-byte reads   *)
(* issued with generation tags, the connection poll that hands the loop    *)
(* from a departed client to the next one, the recovery read, and the      *)
(* assembly of bytes into bounded records.                                 *)
(*                                                                         *)
(* Lua runs each callback and timer to completion, so an action is a whole *)
(* callback.  hs.socket is external: a read is queued on every attached    *)
(* socket, is never cancelled, and its callback may still run after its    *)
(* client has gone (server.lua:106-108, 168-170).                          *)
(***************************************************************************)
EXTENDS Naturals, Sequences, FiniteSets

CONSTANTS
    Client,         \* accepted connections; each connects at most once
    None,           \* Lua's nil
    Records,        \* Records[c]: length, newline included, of each record of c
    MaxLineBytes,   \* config.max_line_bytes
    Churn,          \* how clients come and go, see MayAttach
    MaxStarts,      \* bound on the calls of M.start that find no listener
    LastRefusable   \* hs.socket may refuse a read whose tag is at most this

ASSUME ClientAssumption == IsFiniteSet(Client)
ASSUME NoneAssumption == None \notin Nat
ASSUME RecordsAssumption == Records \in [Client -> Seq(Nat \ {0})]
ASSUME BoundsAssumption ==
    /\ MaxLineBytes \in Nat \ {0}
    /\ MaxStarts \in Nat
    /\ LastRefusable \in Nat
ASSUME ChurnAssumption == Churn \in {"any", "paced", "alone"}

VARIABLES
    \* the module locals of server.lua
    running,                \* listener is not nil
    pendingReadTags,
    recoveryReadTag,
    pendingReadStartedAt,   \* "none" (nil), "recent", or "aged" past the interval
    nextReadTag,
    connectionCount,
    inputBuffer,            \* bytes <<client, record, position>>
    droppingOversizedLine,
    \* hs.socket and the clients
    status,                 \* of each client: "new", "attached" or "gone"
    reads,                  \* tags of the reads queued on each client's socket
    cursor,                 \* the next byte each client's socket delivers
    starts,
    \* history
    handled                 \* the buffers given to protocol.decode, in order, by
                            \* the client whose byte completed them

locals == <<running, pendingReadTags, recoveryReadTag, pendingReadStartedAt,
            nextReadTag, connectionCount, inputBuffer, droppingOversizedLine>>
vars == <<locals, status, reads, cursor, starts, handled>>

-----------------------------------------------------------------------------
\* hs.socket and the clients' streams

Attached == {c \in Client : status[c] = "attached"}
Connections == Cardinality(Attached)                \* listener:connections()

\* The byte stream of c is its records one after the other.
Exhausted(c) == cursor[c].rec > Len(Records[c])
NextByte(c) == <<c, cursor[c].rec, cursor[c].pos>>
IsNewline(byte) == byte[3] = Records[byte[1]][byte[2]]
Advance(cur, byte) ==
    IF IsNewline(byte) THEN [rec |-> cur.rec + 1, pos |-> 1]
    ELSE [cur EXCEPT !.pos = @ + 1]

Byte == {b \in Client \X Nat \X Nat : b[2] \in DOMAIN Records[b[1]]}

\* Churn is how clients come and go.  "any": as they like; "paced": each change
\* of the set waits until poll_connections has seen the last one; "alone": a
\* client connects only when the poll has seen that none is left.
Settled == connectionCount = Connections
MayAttach ==
    CASE Churn = "any"   -> TRUE
      [] Churn = "paced" -> Settled
      [] Churn = "alone" -> Settled /\ Attached = {}
MayDepart == Churn = "paced" => Settled

Attach(c) ==
    /\ running
    /\ status[c] = "new"
    /\ MayAttach
    /\ status' = [status EXCEPT ![c] = "attached"]
    /\ UNCHANGED <<locals, reads, cursor, starts, handled>>

\* The client closes its socket, or dies.
Depart(c) ==
    /\ status[c] = "attached"
    /\ MayDepart
    /\ status' = [status EXCEPT ![c] = "gone"]
    /\ UNCHANGED <<locals, reads, cursor, starts, handled>>

\* connection_read_recovery_interval passes.
TimePasses ==
    /\ pendingReadStartedAt = "recent"
    /\ pendingReadStartedAt' = "aged"
    /\ UNCHANGED <<running, pendingReadTags, recoveryReadTag, nextReadTag,
                   connectionCount, inputBuffer, droppingOversizedLine,
                   status, reads, cursor, starts, handled>>

-----------------------------------------------------------------------------
\* read_next(recovery), called with tags, recTag and startedAt in the three
\* locals and queued in the sockets' read queues.

FreshTagReused == IF nextReadTag = 0 THEN 1 ELSE nextReadTag    \* mutant
FreshTag == nextReadTag + 1

MayRead(recovery, tags, recTag) ==
    /\ IF recovery THEN recTag = None ELSE tags = {}
    /\ Connections = 1

IssueRead(recovery, tags, recTag, startedAt, queued) ==
    /\ pendingReadTags' = tags \cup {FreshTag}
    /\ recoveryReadTag' = IF recovery THEN FreshTag ELSE recTag
    /\ pendingReadStartedAt' = IF startedAt = "none" THEN "recent" ELSE startedAt
    /\ reads' = [c \in Client |->
                    IF c \in Attached THEN Append(queued[c], FreshTag)
                                      ELSE queued[c]]

\* Mutant of RefuseRead: the tag of a read that failed is kept.
RefuseReadKeepsTag(recovery, tags, recTag, startedAt, queued) ==
    /\ FreshTag <= LastRefusable
    /\ pendingReadTags' = tags \cup {FreshTag}
    /\ recoveryReadTag' = IF recovery THEN FreshTag ELSE recTag
    /\ pendingReadStartedAt' = IF startedAt = "none" THEN "recent" ELSE startedAt
    /\ reads' = queued

\* listener:read raised or returned nil: the tag is taken back.
RefuseRead(recovery, tags, recTag, startedAt, queued) ==
    /\ FreshTag <= LastRefusable
    /\ pendingReadTags' = tags
    /\ recoveryReadTag' = recTag
    /\ pendingReadStartedAt' = IF tags = {} THEN "none" ELSE startedAt
    /\ reads' = queued

ReadNext(recovery, tags, recTag, startedAt, queued) ==
    \/ /\ MayRead(recovery, tags, recTag)
       /\ nextReadTag' = FreshTag
       /\ \/ IssueRead(recovery, tags, recTag, startedAt, queued)
          \/ RefuseRead(recovery, tags, recTag, startedAt, queued)
    \/ /\ ~MayRead(recovery, tags, recTag)
       /\ pendingReadTags' = tags
       /\ recoveryReadTag' = recTag
       /\ pendingReadStartedAt' = startedAt
       /\ reads' = queued
       /\ UNCHANGED nextReadTag

-----------------------------------------------------------------------------
\* callback(data, tag): the oldest read queued on c's socket gets c's next byte

Delivers(c) ==
    /\ status[c] # "new"
    /\ reads[c] # <<>>
    /\ ~Exhausted(c)

Tag(c) == Head(reads[c])
Dequeued(c) == [reads EXCEPT ![c] = Tail(@)]
TagsAfter(tag) ==
    IF tag = recoveryReadTag THEN {} ELSE pendingReadTags \ {tag}
RecoveryKept(tag) == recoveryReadTag                \* mutant: never reset
RecoveryAfter(tag) == IF tag = recoveryReadTag THEN None ELSE recoveryReadTag
StartedAfter(tag) ==
    IF TagsAfter(tag) = {} THEN "none" ELSE pendingReadStartedAt

\* The byte of a read that is no longer tracked is dropped.
LateCallback(c) ==
    /\ Delivers(c)
    /\ Tag(c) \notin pendingReadTags
    /\ reads' = Dequeued(c)
    /\ cursor' = [cursor EXCEPT ![c] = Advance(@, NextByte(c))]
    /\ UNCHANGED <<locals, status, starts, handled>>

\* While another client is attached, or none, the byte is dropped and no
\* further read is issued: the next poll does that.
CrowdedCallback(c) ==
    /\ Delivers(c)
    /\ Tag(c) \in pendingReadTags
    /\ ~running \/ Connections # 1
    /\ reads' = Dequeued(c)
    /\ cursor' = [cursor EXCEPT ![c] = Advance(@, NextByte(c))]
    /\ pendingReadTags' = TagsAfter(Tag(c))
    /\ recoveryReadTag' = RecoveryAfter(Tag(c))
    /\ pendingReadStartedAt' = StartedAfter(Tag(c))
    /\ UNCHANGED <<running, nextReadTag, connectionCount, inputBuffer,
                   droppingOversizedLine, status, starts, handled>>

\* What the four outcomes of an accepted byte have in common: the tag is
\* retired and, last of all, read_next() runs.
AcceptByte(c) ==
    /\ Delivers(c)
    /\ Tag(c) \in pendingReadTags
    /\ running /\ Connections = 1
    /\ cursor' = [cursor EXCEPT ![c] = Advance(@, NextByte(c))]
    /\ ReadNext(FALSE, TagsAfter(Tag(c)), RecoveryAfter(Tag(c)),
                StartedAfter(Tag(c)), Dequeued(c))
    /\ UNCHANGED <<running, connectionCount, status, starts>>

FitsStrictly == Len(inputBuffer) + 1 < MaxLineBytes     \* mutant: off by one
Fits == Len(inputBuffer) + 1 <= MaxLineBytes

DiscardByte(c) ==
    /\ AcceptByte(c)
    /\ droppingOversizedLine
    /\ droppingOversizedLine' = ~IsNewline(NextByte(c))
    /\ inputBuffer' = IF IsNewline(NextByte(c)) THEN <<>> ELSE inputBuffer
    /\ UNCHANGED handled

OversizedByte(c) ==
    /\ AcceptByte(c)
    /\ ~droppingOversizedLine
    /\ ~Fits
    /\ inputBuffer' = <<>>
    /\ droppingOversizedLine' = TRUE
    /\ UNCHANGED handled

StoreByte(c) ==
    /\ AcceptByte(c)
    /\ ~droppingOversizedLine
    /\ Fits
    /\ ~IsNewline(NextByte(c))
    /\ inputBuffer' = Append(inputBuffer, NextByte(c))
    /\ UNCHANGED <<droppingOversizedLine, handled>>

\* The record is complete: decoded, and dispatched or reported as malformed.
CompleteRecord(c) ==
    /\ AcceptByte(c)
    /\ ~droppingOversizedLine
    /\ Fits
    /\ IsNewline(NextByte(c))
    /\ inputBuffer' = <<>>
    /\ handled' = [handled EXCEPT ![c] = Append(@, Append(inputBuffer, NextByte(c)))]
    /\ UNCHANGED droppingOversizedLine

Callback(c) ==
    \/ LateCallback(c)
    \/ CrowdedCallback(c)
    \/ DiscardByte(c)
    \/ OversizedByte(c)
    \/ StoreByte(c)
    \/ CompleteRecord(c)

-----------------------------------------------------------------------------
\* poll_connections()

ResetInputKeepsBuffer ==                \* mutant: the record begun is kept
    /\ UNCHANGED inputBuffer
    /\ droppingOversizedLine' = FALSE
ResetInput ==
    /\ inputBuffer' = <<>>
    /\ droppingOversizedLine' = FALSE

\* Mutant of PollUnchanged: instead of one recovery read beside it, a read that has
\* aged is forgotten and issued again.
PollUnchangedRetries ==
    /\ running
    /\ Connections = connectionCount
    /\ IF Connections = 1 /\ pendingReadStartedAt = "aged"
       THEN ReadNext(FALSE, {}, None, "none", reads)
       ELSE ReadNext(FALSE, pendingReadTags, recoveryReadTag, pendingReadStartedAt, reads)
    /\ UNCHANGED <<running, connectionCount, inputBuffer,
                   droppingOversizedLine, status, cursor, starts, handled>>

\* The count has not changed.  Of the two read_next calls at most one acts: the
\* first does only when no read is pending, and then none has aged.
PollUnchanged ==
    /\ running
    /\ Connections = connectionCount
    /\ LET aged == Connections = 1 /\ pendingReadStartedAt = "aged"
       IN  ReadNext(aged, pendingReadTags, recoveryReadTag,
                    pendingReadStartedAt, reads)
    /\ UNCHANGED <<running, connectionCount, inputBuffer,
                   droppingOversizedLine, status, cursor, starts, handled>>

\* The count has changed: every read is forgotten, the record begun is dropped.
PollChanged ==
    /\ running
    /\ Connections # connectionCount
    /\ connectionCount' = Connections
    /\ ResetInput
    /\ ReadNext(FALSE, {}, None, "none", reads)
    /\ UNCHANGED <<running, status, cursor, starts, handled>>

Poll == PollUnchanged \/ PollChanged

-----------------------------------------------------------------------------
\* M.start() and M.stop(); a start that raises changes nothing

Start ==
    /\ ~running
    /\ starts < MaxStarts
    /\ running' = TRUE
    /\ starts' = starts + 1
    /\ pendingReadTags' = {}
    /\ recoveryReadTag' = None
    /\ pendingReadStartedAt' = "none"
    /\ nextReadTag' = 0
    /\ connectionCount' = 0
    /\ ResetInput
    /\ UNCHANGED <<status, reads, cursor, handled>>

\* listener:disconnect() takes every client's connection down.
Stop ==
    /\ running
    /\ running' = FALSE
    /\ pendingReadTags' = {}
    /\ recoveryReadTag' = None
    /\ pendingReadStartedAt' = "none"
    /\ connectionCount' = 0
    /\ ResetInput
    /\ status' = [c \in Client |->
                    IF status[c] = "attached" THEN "gone" ELSE status[c]]
    /\ UNCHANGED <<nextReadTag, reads, cursor, starts, handled>>

-----------------------------------------------------------------------------

Init ==
    /\ running = FALSE
    /\ pendingReadTags = {}
    /\ recoveryReadTag = None
    /\ pendingReadStartedAt = "none"
    /\ nextReadTag = 0
    /\ connectionCount = 0
    /\ inputBuffer = <<>>
    /\ droppingOversizedLine = FALSE
    /\ status = [c \in Client |-> "new"]
    /\ reads = [c \in Client |-> <<>>]
    /\ cursor = [c \in Client |-> [rec |-> 1, pos |-> 1]]
    /\ starts = 0
    /\ handled = [c \in Client |-> <<>>]

Next ==
    \/ Start \/ Stop \/ Poll \/ TimePasses
    \/ \E c \in Client : Attach(c) \/ Depart(c) \/ Callback(c)

Spec == Init /\ [][Next]_vars

\* accept_timer fires for ever while the server runs, the clock advances, and a
\* client that stays connected writes what it has to write.
Fairness ==
    /\ WF_vars(Poll)
    /\ WF_vars(TimePasses)
    /\ \A c \in Client : WF_vars(status[c] = "attached" /\ Callback(c))

FairSpec == Spec /\ Fairness

-----------------------------------------------------------------------------
\* Properties

TypeOK ==
    /\ running \in BOOLEAN
    /\ pendingReadTags \subseteq Nat \ {0}
    /\ recoveryReadTag \in Nat \cup {None}
    /\ pendingReadStartedAt \in {"none", "recent", "aged"}
    /\ nextReadTag \in Nat
    /\ connectionCount \in Nat
    /\ inputBuffer \in Seq(Byte)
    /\ droppingOversizedLine \in BOOLEAN
    /\ status \in [Client -> {"new", "attached", "gone"}]
    /\ reads \in [Client -> Seq(Nat \ {0})]
    /\ cursor \in [Client -> [rec : Nat \ {0}, pos : Nat \ {0}]]
    /\ starts \in Nat
    /\ handled \in [Client -> Seq(Seq(Byte))]

\* The bookkeeping of outstanding reads in read_next, callback and
\* poll_connections stays coherent through every order of callbacks, polls and
\* refused reads: the recovery tag is one of the pending tags, the start time is
\* set exactly while a read is pending, beside the recovery read at most one
\* read is tracked ("deliberately capped at one extra read"), and none is while
\* the poll's last count is not one.
RecoveryIsPending ==
    recoveryReadTag # None => recoveryReadTag \in pendingReadTags
StartedIffPending == pendingReadStartedAt = "none" <=> pendingReadTags = {}
OneOrdinaryRead == \A t, u \in pendingReadTags \ {recoveryReadTag} : t = u
PendingNeedsOneClient ==
    pendingReadTags # {} => running /\ connectionCount = 1
ReadBookkeeping ==
    /\ RecoveryIsPending
    /\ StartedIffPending
    /\ OneOrdinaryRead
    /\ PendingNeedsOneClient

\* A tag that callback still accepts names one read of one client: no late
\* callback from another socket can pass for it.  (In one lifetime of the
\* listener: M.start counts from zero again.)
TagNamesOneRead ==
    \A t \in pendingReadTags :
        \A c, d \in Client :
            \A j \in DOMAIN reads[c], k \in DOMAIN reads[d] :
                reads[c][j] = t /\ reads[d][k] = t => c = d /\ j = k

\* Every buffer given to protocol.decode holds bytes of one client, in the order
\* it wrote them: no byte of a departed client is spliced into a record of the
\* next one.  Bytes may be missing where an extra client was attached.
Before(a, b) == a[2] < b[2] \/ (a[2] = b[2] /\ a[3] < b[3])
OrderedBytes(buffer) ==
    \A j, k \in DOMAIN buffer :
        /\ buffer[j][1] = buffer[k][1]
        /\ j < k => Before(buffer[j], buffer[k])
NoSplicedRecords ==
    \A c \in Client : \A n \in DOMAIN handled[c] : OrderedBytes(handled[c][n])

\* A client that is alone from connecting to disconnecting never has more reads queued
\* on its socket than the ordinary and the recovery one (Churn = "alone").
\* Violated when clients overlap (ReadLoopChurn.cfg), against docs/memory-and-leak-
\* prevention.md: "this avoids queueing multiple CocoaAsyncSocket reads during reconnect
\* churn".
ReadsBounded == \A c \in Attached : Len(reads[c]) <= 2

BytesOf(c, i, n) == [k \in 1 .. n |-> <<c, i, k>>]
WholeRecord(buffer) ==
    LET c == buffer[1][1]
        i == buffer[1][2]
    IN  IF buffer = BytesOf(c, i, Records[c][i]) THEN i ELSE 0
AcceptedFrom(c) == [k \in DOMAIN handled[c] |-> WholeRecord(handled[c][k])]

\* The records of c within the bound whose bytes are consumed but which did not reach
\* protocol.decode whole
LostRecords(c) ==
    {i \in 1 .. cursor[c].rec - 1 : Records[c][i] <= MaxLineBytes}
        \ {WholeRecord(buffer) : buffer \in {handled[c][k] : k \in DOMAIN handled[c]}}

\* A client that stays attached while others come and go loses two records for each of
\* them at most, and none without them: at most two reads are forgotten when the poll sees
\* the other client, each of which takes a byte of the survivor, and the record begun is
\* dropped (poll_connections, the untracked response in callback).  (In one lifetime of
\* the listener, for records none of which is exactly one byte too long.)
OverlapCost ==
    \A c \in Attached :
        Cardinality(LostRecords(c))
            <= 2 * Cardinality({d \in Client \ {c} : status[d] # "new"})

\* As long as no client is attached beside another, the records that reach
\* protocol.decode are, for each client, what RecordStream promises.
Stream(c) == INSTANCE RecordStream WITH
                Lengths <- Records[c], Limit <- MaxLineBytes,
                accepted <- AcceptedFrom(c)
StreamRefined ==
    /\ \A c \in Client : Stream(c)!Init
    /\ [][\A c \in Client : [Stream(c)!Accept]_(AcceptedFrom(c))]_handled

Sole(c) == running /\ Attached = {c}

\* Everything a client writes is consumed if it stays the only one attached: the
\* chain of read, callback and next read never breaks.
SoleClientDrains ==
    \A c \in Client : <>[]Sole(c) => <>Exhausted(c)

=============================================================================
