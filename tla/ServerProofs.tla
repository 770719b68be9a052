---------------------------- MODULE ServerProofs ----------------------------
(***************************************************************************)
(* Proofs about ReadLoop and Server, for any clients, records and bounds.  *)
(***************************************************************************)
EXTENDS Server, TLAPS, FiniteSetTheorems

-----------------------------------------------------------------------------
\* Connections counts the attached clients.

LEMMA ConnectionsType == Connections \in Nat
<1>1. Attached \subseteq Client
  BY DEF Attached
<1>2. IsFiniteSet(Attached)
  BY <1>1, ClientAssumption, FS_Subset
<1> QED
  BY <1>2, FS_CardinalityType DEF Connections

LEMMA OneConnection ==
  Connections = 1 <=> \E c \in Client : Attached = {c}
<1>1. Attached \subseteq Client /\ IsFiniteSet(Attached)
  BY ClientAssumption, FS_Subset DEF Attached
<1> QED
  BY <1>1, FS_Singleton DEF Connections

-----------------------------------------------------------------------------
\* The bookkeeping of the outstanding reads.

BookTypeOK ==
    /\ pendingReadTags \subseteq Nat
    /\ recoveryReadTag \in Nat \cup {None}
    /\ pendingReadStartedAt \in {"none", "recent", "aged"}
    /\ nextReadTag \in Nat

BookInv == BookTypeOK /\ ReadBookkeeping

\* The values of the three locals satisfy the bookkeeping.
Coherent(tags, recTag, startedAt) ==
    /\ tags \in SUBSET Nat
    /\ recTag \in Nat \cup {None}
    /\ startedAt \in {"none", "recent", "aged"}
    /\ recTag # None => recTag \in tags
    /\ startedAt = "none" <=> tags = {}
    /\ \A t, u \in tags \ {recTag} : t = u

CoherentLocals ==
    /\ nextReadTag \in Nat
    /\ Coherent(pendingReadTags, recoveryReadTag, pendingReadStartedAt)

LEMMA BookInvIsCoherent == BookInv <=> CoherentLocals /\ PendingNeedsOneClient
BY DEF BookInv, BookTypeOK, ReadBookkeeping, RecoveryIsPending,
       StartedIffPending, OneOrdinaryRead, CoherentLocals, Coherent

\* read_next keeps coherent the values it is entered with.
LEMMA ReadNextKeepsCoherent ==
  ASSUME NEW recovery \in BOOLEAN, NEW tags, NEW recTag, NEW startedAt,
         NEW queued, nextReadTag \in Nat,
         Coherent(tags, recTag, startedAt),
         ReadNext(recovery, tags, recTag, startedAt, queued)
  PROVE  /\ CoherentLocals'
         /\ pendingReadTags' # {} => tags # {} \/ Connections = 1
<1> USE NoneAssumption DEF FreshTag, CoherentLocals, Coherent
<1>1. CASE IssueRead(recovery, tags, recTag, startedAt, queued)
            /\ MayRead(recovery, tags, recTag) /\ nextReadTag' = FreshTag
  <2>1. CASE recovery
    BY <1>1, <2>1 DEF IssueRead, MayRead
  <2>2. CASE ~recovery
    BY <1>1, <2>2 DEF IssueRead, MayRead
  <2> QED  BY <2>1, <2>2
<1>2. CASE RefuseRead(recovery, tags, recTag, startedAt, queued)
            /\ nextReadTag' = FreshTag
  BY <1>2 DEF RefuseRead
<1>3. CASE ~MayRead(recovery, tags, recTag)
            /\ pendingReadTags' = tags /\ recoveryReadTag' = recTag
            /\ pendingReadStartedAt' = startedAt /\ UNCHANGED nextReadTag
  BY <1>3
<1> QED
  BY <1>1, <1>2, <1>3 DEF ReadNext

\* Retiring the tag of an ordinary or of the recovery read does so too.
LEMMA RetireKeepsCoherent ==
  ASSUME CoherentLocals, NEW tag \in pendingReadTags
  PROVE  Coherent(TagsAfter(tag), RecoveryAfter(tag), StartedAfter(tag))
<1> USE NoneAssumption
    DEF CoherentLocals, Coherent, TagsAfter, RecoveryAfter, StartedAfter
<1>1. CASE tag = recoveryReadTag
  BY <1>1
<1>2. CASE tag # recoveryReadTag
  <2>1. pendingReadTags \ {tag} \in SUBSET Nat
    OBVIOUS
  <2>2. recoveryReadTag # None => recoveryReadTag \in pendingReadTags \ {tag}
    BY <1>2
  <2>3. StartedAfter(tag) \in {"none", "recent", "aged"}
    OBVIOUS
  <2>4. StartedAfter(tag) = "none" <=> pendingReadTags \ {tag} = {}
    BY <1>2
  <2> QED
    BY <1>2, <2>1, <2>2, <2>3, <2>4
<1> QED
  BY <1>1, <1>2

LEMMA BookInit == Init => BookInv
BY NoneAssumption
   DEF Init, BookInv, BookTypeOK, ReadBookkeeping, RecoveryIsPending,
       StartedIffPending, OneOrdinaryRead, PendingNeedsOneClient

LEMMA BookStep == BookInv /\ [Next]_vars => BookInv'
<1> SUFFICES ASSUME BookInv, [Next]_vars PROVE BookInv'
  OBVIOUS
<1> USE NoneAssumption
<1>1. CASE UNCHANGED locals
  BY <1>1 DEF locals, BookInv, BookTypeOK, ReadBookkeeping, RecoveryIsPending,
              StartedIffPending, OneOrdinaryRead, PendingNeedsOneClient
<1>2. CASE Start \/ Stop
  BY <1>2 DEF Start, Stop, BookInv, BookTypeOK, ReadBookkeeping,
              RecoveryIsPending, StartedIffPending, OneOrdinaryRead,
              PendingNeedsOneClient
<1>3. CASE TimePasses
  BY <1>3 DEF TimePasses, BookInv, BookTypeOK, ReadBookkeeping,
              RecoveryIsPending, StartedIffPending, OneOrdinaryRead,
              PendingNeedsOneClient
<1>0. CoherentLocals /\ PendingNeedsOneClient
  BY BookInvIsCoherent
<1>4. CASE PollUnchanged
  <2> DEFINE aged == Connections = 1 /\ pendingReadStartedAt = "aged"
  <2>1. CoherentLocals'
        /\ (pendingReadTags' # {} => pendingReadTags # {} \/ Connections = 1)
    <3>1. ReadNext(aged, pendingReadTags, recoveryReadTag,
                   pendingReadStartedAt, reads)
      BY <1>4 DEF PollUnchanged
    <3>2. aged \in BOOLEAN
      OBVIOUS
    <3>3. Coherent(pendingReadTags, recoveryReadTag, pendingReadStartedAt)
          /\ nextReadTag \in Nat
      BY <1>0 DEF CoherentLocals
    <3> HIDE DEF aged
    <3> QED
      BY <3>1, <3>2, <3>3, ReadNextKeepsCoherent
  <2>2. PendingNeedsOneClient'
    BY <1>0, <1>4, <2>1 DEF PollUnchanged, PendingNeedsOneClient
  <2> QED
    BY <2>1, <2>2, BookInvIsCoherent, PTL
<1>5. CASE PollChanged
  <2>1. CoherentLocals' /\ (pendingReadTags' # {} => Connections = 1)
    <3>1. ReadNext(FALSE, {}, None, "none", reads)
      BY <1>5 DEF PollChanged
    <3>2. Coherent({}, None, "none") /\ nextReadTag \in Nat
      BY <1>0 DEF CoherentLocals, Coherent
    <3> QED
      BY <3>1, <3>2, ReadNextKeepsCoherent
  <2>2. PendingNeedsOneClient'
    BY <1>5, <2>1 DEF PollChanged, PendingNeedsOneClient
  <2> QED
    BY <2>1, <2>2, BookInvIsCoherent, PTL
<1>6. ASSUME NEW c \in Client, CrowdedCallback(c) PROVE BookInv'
  <2>1. Tag(c) \in pendingReadTags
    BY <1>6 DEF CrowdedCallback
  <2>2. /\ pendingReadTags' = TagsAfter(Tag(c))
        /\ recoveryReadTag' = RecoveryAfter(Tag(c))
        /\ pendingReadStartedAt' = StartedAfter(Tag(c))
        /\ UNCHANGED <<running, nextReadTag, connectionCount>>
    BY <1>6 DEF CrowdedCallback
  <2>3. Coherent(TagsAfter(Tag(c)), RecoveryAfter(Tag(c)), StartedAfter(Tag(c)))
    BY <1>0, <2>1, RetireKeepsCoherent
  <2>4. CoherentLocals'
    BY <1>0, <2>2, <2>3 DEF CoherentLocals, Coherent
  <2>5. PendingNeedsOneClient'
    BY <1>0, <2>1, <2>2 DEF PendingNeedsOneClient
  <2> QED
    BY <2>4, <2>5, BookInvIsCoherent, PTL
<1>7. ASSUME NEW c \in Client, AcceptByte(c) PROVE BookInv'
  <2>1. Tag(c) \in pendingReadTags
    BY <1>7 DEF AcceptByte
  <2>2. /\ ReadNext(FALSE, TagsAfter(Tag(c)), RecoveryAfter(Tag(c)),
                    StartedAfter(Tag(c)), Dequeued(c))
        /\ UNCHANGED <<running, connectionCount>>
    BY <1>7 DEF AcceptByte
  <2>3. Coherent(TagsAfter(Tag(c)), RecoveryAfter(Tag(c)), StartedAfter(Tag(c)))
        /\ nextReadTag \in Nat
    BY <1>0, <2>1, RetireKeepsCoherent DEF CoherentLocals
  <2>4. CoherentLocals'
    BY <2>2, <2>3, ReadNextKeepsCoherent
  <2>5. PendingNeedsOneClient'
    BY <1>0, <2>1, <2>2 DEF PendingNeedsOneClient
  <2> QED
    BY <2>4, <2>5, BookInvIsCoherent, PTL
<1> QED
  BY <1>1, <1>2, <1>3, <1>4, <1>5, <1>6, <1>7
     DEF Next, vars, Poll, Attach, Depart, Callback, LateCallback, DiscardByte,
         OversizedByte, StoreByte, CompleteRecord

\* Through every order of callbacks, polls, refused reads, restarts and clients,
\* read_next, callback and poll_connections keep their bookkeeping coherent.
THEOREM BookkeepingCoherent == Spec => []ReadBookkeeping
<1>1. BookInv => ReadBookkeeping
  BY DEF BookInv
<1> QED
  BY BookInit, BookStep, <1>1, PTL DEF Spec
-----------------------------------------------------------------------------
\* The types of the state.

ReadsTyped(tags, recTag, startedAt, queued) ==
    /\ tags \in SUBSET (Nat \ {0})
    /\ recTag \in Nat \cup {None}
    /\ startedAt \in {"none", "recent", "aged"}
    /\ queued \in [Client -> Seq(Nat \ {0})]

TagLocalsTyped ==
    /\ nextReadTag \in Nat
    /\ ReadsTyped(pendingReadTags, recoveryReadTag, pendingReadStartedAt, reads)

OthersTyped ==
    /\ running \in BOOLEAN
    /\ connectionCount \in Nat
    /\ inputBuffer \in Seq(Byte)
    /\ droppingOversizedLine \in BOOLEAN
    /\ status \in [Client -> {"new", "attached", "gone"}]
    /\ cursor \in [Client -> [rec : Nat \ {0}, pos : Nat \ {0}]]
    /\ starts \in Nat
    /\ handled \in [Client -> Seq(Seq(Byte))]

LEMMA TypeOKParts == TypeOK <=> TagLocalsTyped /\ OthersTyped
BY DEF TypeOK, TagLocalsTyped, OthersTyped, ReadsTyped

LEMMA ReadNextTyped ==
  ASSUME NEW recovery, NEW tags, NEW recTag, NEW startedAt, NEW queued,
         nextReadTag \in Nat, ReadsTyped(tags, recTag, startedAt, queued),
         ReadNext(recovery, tags, recTag, startedAt, queued)
  PROVE  TagLocalsTyped'
<1> USE DEF ReadsTyped, TagLocalsTyped
<1>1. FreshTag \in Nat \ {0}
  BY DEF FreshTag
<1>2. CASE IssueRead(recovery, tags, recTag, startedAt, queued)
            /\ nextReadTag' = FreshTag
  <2>1. reads' \in [Client -> Seq(Nat \ {0})]
    BY <1>1, <1>2 DEF IssueRead
  <2> QED
    BY <1>1, <1>2, <2>1 DEF IssueRead
<1>3. CASE RefuseRead(recovery, tags, recTag, startedAt, queued)
            /\ nextReadTag' = FreshTag
  BY <1>1, <1>3 DEF RefuseRead
<1>4. CASE /\ pendingReadTags' = tags /\ recoveryReadTag' = recTag
           /\ pendingReadStartedAt' = startedAt /\ reads' = queued
           /\ UNCHANGED nextReadTag
  BY <1>4
<1> QED
  BY <1>2, <1>3, <1>4 DEF ReadNext

\* What callback does before anything else: a byte is read, its tag retired.
LEMMA DeliveryTyped ==
  ASSUME TypeOK, NEW c \in Client, Delivers(c)
  PROVE  /\ NextByte(c) \in Byte
         /\ [cursor EXCEPT ![c] = Advance(@, NextByte(c))]
                \in [Client -> [rec : Nat \ {0}, pos : Nat \ {0}]]
         /\ ReadsTyped(TagsAfter(Tag(c)), RecoveryAfter(Tag(c)),
                       StartedAfter(Tag(c)), Dequeued(c))
<1> DEFINE rec == cursor[c].rec
           pos == cursor[c].pos
<1>1. rec \in Nat \ {0} /\ pos \in Nat \ {0}
  BY DEF TypeOK
<1>2. NextByte(c) \in Byte
  <2>1. Records[c] \in Seq(Nat \ {0})
    BY RecordsAssumption
  <2>2. rec \in DOMAIN Records[c]
    BY <1>1, <2>1 DEF Delivers, Exhausted
  <2> QED
    BY <1>1, <2>2 DEF NextByte, Byte
<1>3. Advance(cursor[c], NextByte(c)) \in [rec : Nat \ {0}, pos : Nat \ {0}]
  <2>1. [rec |-> rec + 1, pos |-> 1] \in [rec : Nat \ {0}, pos : Nat \ {0}]
    BY <1>1
  <2>2. [cursor[c] EXCEPT !.pos = @ + 1] \in [rec : Nat \ {0}, pos : Nat \ {0}]
    <3>1. cursor[c] \in [rec : Nat \ {0}, pos : Nat \ {0}]
      BY DEF TypeOK
    <3>2. pos + 1 \in Nat \ {0}
      BY <1>1
    <3> QED
      BY <3>1, <3>2
  <2> QED
    BY <2>1, <2>2 DEF Advance
<1>4. Dequeued(c) \in [Client -> Seq(Nat \ {0})]
  <2>1. reads[c] \in Seq(Nat \ {0}) /\ reads[c] # <<>>
    BY DEF TypeOK, Delivers
  <2>2. Tail(reads[c]) \in Seq(Nat \ {0})
    BY <2>1
  <2> QED
    BY <2>2 DEF Dequeued, TypeOK
<1> QED
  BY <1>2, <1>3, <1>4, NoneAssumption
     DEF TypeOK, ReadsTyped, TagsAfter, RecoveryAfter, StartedAfter

LEMMA TypeInit == Init => TypeOK
<1> SUFFICES ASSUME Init PROVE TypeOK
  OBVIOUS
<1>1. TagLocalsTyped
  BY NoneAssumption DEF Init, TagLocalsTyped, ReadsTyped
<1>2. OthersTyped
  <2>1. running \in BOOLEAN /\ droppingOversizedLine \in BOOLEAN
    BY Zenon DEF Init
  <2>2. connectionCount \in Nat /\ starts \in Nat
    BY DEF Init
  <2>3. inputBuffer \in Seq(Byte) /\ handled \in [Client -> Seq(Seq(Byte))]
    BY DEF Init
  <2>4. status \in [Client -> {"new", "attached", "gone"}]
    BY DEF Init
  <2>5. cursor \in [Client -> [rec : Nat \ {0}, pos : Nat \ {0}]]
    BY DEF Init
  <2> QED
    BY <2>1, <2>2, <2>3, <2>4, <2>5 DEF OthersTyped
<1> QED
  BY <1>1, <1>2, TypeOKParts

LEMMA TypeStep == TypeOK /\ [Next]_vars => TypeOK'
<1> SUFFICES ASSUME TypeOK, [Next]_vars PROVE TypeOK'
  OBVIOUS
<1> USE NoneAssumption
<1>0. TagLocalsTyped /\ OthersTyped
  BY TypeOKParts
<1>1. CASE UNCHANGED vars
  BY <1>1 DEF vars, locals, TypeOK
<1>2. CASE Start
  <2>1. TagLocalsTyped'
    BY <1>0, <1>2 DEF Start, TagLocalsTyped, ReadsTyped
  <2>2. OthersTyped'
    <3>1. /\ running' = TRUE /\ droppingOversizedLine' = FALSE
          /\ inputBuffer' = <<>> /\ connectionCount' = 0
          /\ starts' = starts + 1 /\ UNCHANGED <<status, cursor, handled>>
      BY <1>2 DEF Start, ResetInput
    <3>2. running' \in BOOLEAN /\ droppingOversizedLine' \in BOOLEAN
      BY <3>1, Zenon
    <3>3. /\ inputBuffer' \in Seq(Byte) /\ connectionCount' \in Nat
          /\ starts' \in Nat
      BY <1>0, <3>1 DEF OthersTyped
    <3> QED
      BY <1>0, <3>1, <3>2, <3>3 DEF OthersTyped
  <2> QED
    BY <2>1, <2>2, TypeOKParts, PTL
<1>3. CASE Stop
  <2>1. TagLocalsTyped'
    BY <1>0, <1>3 DEF Stop, TagLocalsTyped, ReadsTyped
  <2>2. OthersTyped'
    <3>1. /\ running' = FALSE /\ droppingOversizedLine' = FALSE
          /\ inputBuffer' = <<>> /\ connectionCount' = 0
          /\ status' = [d \in Client |->
                          IF status[d] = "attached" THEN "gone" ELSE status[d]]
          /\ UNCHANGED <<cursor, starts, handled>>
      BY <1>3 DEF Stop, ResetInput
    <3>2. running' \in BOOLEAN /\ droppingOversizedLine' \in BOOLEAN
      BY <3>1, Zenon
    <3>3. inputBuffer' \in Seq(Byte) /\ connectionCount' \in Nat
      BY <3>1
    <3>4. status' \in [Client -> {"new", "attached", "gone"}]
      BY <1>0, <3>1 DEF OthersTyped
    <3> QED
      BY <1>0, <3>1, <3>2, <3>3, <3>4 DEF OthersTyped
  <2> QED
    BY <2>1, <2>2, TypeOKParts, PTL
<1>4. CASE Poll
  <2>1. TagLocalsTyped'
    <3>1. CASE PollUnchanged
      <4> DEFINE aged == Connections = 1 /\ pendingReadStartedAt = "aged"
      <4>1. ReadNext(aged, pendingReadTags, recoveryReadTag,
                     pendingReadStartedAt, reads)
        BY <3>1 DEF PollUnchanged
      <4> HIDE DEF aged
      <4> QED
        BY <1>0, <4>1, ReadNextTyped DEF TagLocalsTyped
    <3>2. CASE PollChanged
      <4>1. ReadNext(FALSE, {}, None, "none", reads)
        BY <3>2 DEF PollChanged
      <4>2. ReadsTyped({}, None, "none", reads) /\ nextReadTag \in Nat
        BY <1>0 DEF TagLocalsTyped, ReadsTyped
      <4> QED
        BY <4>1, <4>2, ReadNextTyped
    <3> QED
      BY <1>4, <3>1, <3>2 DEF Poll
  <2>2. OthersTyped'
    <3>1. /\ UNCHANGED <<running, status, cursor, starts, handled>>
          /\ connectionCount' \in Nat
      BY <1>0, <1>4, ConnectionsType
         DEF Poll, PollUnchanged, PollChanged, OthersTyped
    <3>2. inputBuffer' \in Seq(Byte)
      <4>1. UNCHANGED inputBuffer \/ inputBuffer' = <<>>
        BY <1>4 DEF Poll, PollUnchanged, PollChanged, ResetInput
      <4>2. inputBuffer \in Seq(Byte) /\ <<>> \in Seq(Byte)
        BY <1>0 DEF OthersTyped
      <4> QED
        BY <4>1, <4>2, Zenon
    <3>3. droppingOversizedLine' = droppingOversizedLine
          \/ droppingOversizedLine' = FALSE
      BY <1>4 DEF Poll, PollUnchanged, PollChanged, ResetInput
    <3>4. droppingOversizedLine' \in BOOLEAN
      BY <1>0, <3>3, Zenon DEF OthersTyped
    <3> QED
      BY <1>0, <3>1, <3>2, <3>4 DEF OthersTyped
  <2> QED
    BY <2>1, <2>2, TypeOKParts, PTL
<1>5. CASE TimePasses
  BY <1>5 DEF TimePasses, TypeOK
<1>6. ASSUME NEW c \in Client, Attach(c) \/ Depart(c) PROVE TypeOK'
  <2>1. TagLocalsTyped'
    BY <1>0, <1>6 DEF Attach, Depart, locals, TagLocalsTyped, ReadsTyped
  <2>2. OthersTyped'
    BY <1>0, <1>6 DEF Attach, Depart, locals, OthersTyped
  <2> QED
    BY <2>1, <2>2, TypeOKParts, PTL
<1>7. ASSUME NEW c \in Client, LateCallback(c) \/ CrowdedCallback(c)
      PROVE  TypeOK'
  <2>1. Delivers(c)
    BY <1>7 DEF LateCallback, CrowdedCallback
  <2>2. TagLocalsTyped'
    BY <1>0, <1>7, <2>1, DeliveryTyped
       DEF LateCallback, CrowdedCallback, locals, TagLocalsTyped, ReadsTyped
  <2>3. OthersTyped'
    BY <1>0, <1>7, <2>1, DeliveryTyped
       DEF LateCallback, CrowdedCallback, locals, OthersTyped
  <2> QED
    BY <2>2, <2>3, TypeOKParts, PTL
<1>8. ASSUME NEW c \in Client,
             \/ DiscardByte(c) \/ OversizedByte(c)
             \/ StoreByte(c) \/ CompleteRecord(c)
      PROVE  TypeOK'
  <2>1. AcceptByte(c)
    BY <1>8 DEF DiscardByte, OversizedByte, StoreByte, CompleteRecord
  <2>2. Delivers(c)
    BY <2>1 DEF AcceptByte
  <2>3. TagLocalsTyped'
    <3>1. ReadNext(FALSE, TagsAfter(Tag(c)), RecoveryAfter(Tag(c)),
                   StartedAfter(Tag(c)), Dequeued(c))
      BY <2>1 DEF AcceptByte
    <3> QED
      BY <1>0, <2>2, <3>1, DeliveryTyped, ReadNextTyped DEF TagLocalsTyped
  <2>4. /\ inputBuffer' \in Seq(Byte)
        /\ droppingOversizedLine' \in BOOLEAN
        /\ handled' \in [Client -> Seq(Seq(Byte))]
    <3> DEFINE longer == Append(inputBuffer, NextByte(c))
    <3>1. inputBuffer \in Seq(Byte) /\ handled \in [Client -> Seq(Seq(Byte))]
      BY <1>0 DEF OthersTyped
    <3>2. longer \in Seq(Byte)
      BY <2>2, <3>1, DeliveryTyped
    <3> DEFINE more == [handled EXCEPT ![c] = Append(@, longer)]
    <3>3. more \in [Client -> Seq(Seq(Byte))]
      <4> HIDE DEF longer
      <4> QED  BY <3>1, <3>2
    <3>4. /\ inputBuffer' \in {<<>>, inputBuffer, longer}
          /\ handled' \in {handled, more}
      BY <1>8 DEF DiscardByte, OversizedByte, StoreByte, CompleteRecord
    <3>5. \/ droppingOversizedLine' = ~IsNewline(NextByte(c))
          \/ droppingOversizedLine' = TRUE
          \/ UNCHANGED droppingOversizedLine
      BY <1>8, Zenon DEF DiscardByte, OversizedByte, StoreByte, CompleteRecord
    <3>6. droppingOversizedLine' \in BOOLEAN
      BY <1>0, <3>5, Zenon DEF OthersTyped, IsNewline
    <3>7. <<>> \in Seq(Byte)
      OBVIOUS
    <3> HIDE DEF longer, more
    <3>8. inputBuffer' \in Seq(Byte) /\ handled' \in [Client -> Seq(Seq(Byte))]
      BY <3>1, <3>2, <3>3, <3>4, <3>7, Zenon
    <3> QED
      BY <3>6, <3>8
  <2>5. OthersTyped'
    BY <1>0, <2>1, <2>2, <2>4, DeliveryTyped DEF AcceptByte, OthersTyped
  <2> QED
    BY <2>3, <2>5, TypeOKParts, PTL
<1> QED
  BY <1>1, <1>2, <1>3, <1>4, <1>5, <1>6, <1>7, <1>8 DEF Next, Callback

\* Every state of the read loop has its type: in particular a byte is read only
\* from a record that its client has still to write.
THEOREM ReadLoopTyped == Spec => []TypeOK
BY TypeInit, TypeStep, PTL DEF Spec
-----------------------------------------------------------------------------
\* Tags in one lifetime of the listener.

\* No two reads in the queues q carry the same tag, and none one beyond n.
DistinctTags(q, n) ==
    /\ q \in [Client -> Seq(Nat)]
    /\ n \in Nat
    /\ \A c \in Client : \A j \in DOMAIN q[c] : q[c][j] <= n
    /\ \A c, d \in Client : \A j \in DOMAIN q[c], k \in DOMAIN q[d] :
            q[c][j] = q[d][k] => c = d /\ j = k

TagInv ==
    /\ DistinctTags(reads, nextReadTag)
    /\ starts \in Nat
    /\ starts = 0 => ~running /\ \A c \in Client : reads[c] = <<>>

LEMMA DequeueKeepsDistinct ==
  ASSUME DistinctTags(reads, nextReadTag), NEW c \in Client, reads[c] # <<>>
  PROVE  DistinctTags(Dequeued(c), nextReadTag)
<1> USE DEF DistinctTags, Dequeued
<1>1. /\ Tail(reads[c]) \in Seq(Nat)
      /\ \A j \in DOMAIN Tail(reads[c]) :
            j + 1 \in DOMAIN reads[c] /\ Tail(reads[c])[j] = reads[c][j + 1]
  OBVIOUS
<1>2. \A d \in Client : \A j \in DOMAIN Dequeued(c)[d] :
        LET i == IF d = c THEN j + 1 ELSE j
        IN  i \in DOMAIN reads[d] /\ Dequeued(c)[d][j] = reads[d][i]
  BY <1>1
<1>3. \A d \in Client : DOMAIN Dequeued(c)[d] \subseteq Nat
  BY <1>1
<1>4. Dequeued(c) \in [Client -> Seq(Nat)]
  BY <1>1
<1>5. \A d \in Client : \A j \in DOMAIN Dequeued(c)[d] :
        Dequeued(c)[d][j] <= nextReadTag
  BY <1>2
<1>6. ASSUME NEW d \in Client, NEW e \in Client,
             NEW j \in DOMAIN Dequeued(c)[d], NEW k \in DOMAIN Dequeued(c)[e],
             Dequeued(c)[d][j] = Dequeued(c)[e][k]
      PROVE  d = e /\ j = k
  <2> DEFINE i == IF d = c THEN j + 1 ELSE j
             h == IF e = c THEN k + 1 ELSE k
  <2>1. i \in DOMAIN reads[d] /\ Dequeued(c)[d][j] = reads[d][i]
    BY <1>2
  <2>2. h \in DOMAIN reads[e] /\ Dequeued(c)[e][k] = reads[e][h]
    BY <1>2
  <2>3. d = e /\ i = h
    BY <1>6, <2>1, <2>2
  <2>4. j \in Nat /\ k \in Nat
    BY <1>3
  <2> QED
    BY <2>3, <2>4
<1> QED
  BY <1>4, <1>5, <1>6

\* read_next queues a tag that no queue holds, on the only socket there is.
LEMMA ReadNextKeepsDistinct ==
  ASSUME NEW recovery, NEW tags, NEW recTag, NEW startedAt, NEW queued,
         DistinctTags(queued, nextReadTag),
         ReadNext(recovery, tags, recTag, startedAt, queued)
  PROVE  DistinctTags(reads', nextReadTag')
<1> USE DEF DistinctTags, FreshTag
<1>1. CASE IssueRead(recovery, tags, recTag, startedAt, queued)
            /\ Connections = 1 /\ nextReadTag' = FreshTag
  <2>1. PICK a \in Client : Attached = {a}
    BY <1>1, OneConnection
  <2>2. reads' = [queued EXCEPT ![a] = Append(@, FreshTag)]
    BY <1>1, <2>1 DEF IssueRead
  <2>3. \A c \in Client : \A j \in DOMAIN reads'[c] :
          \/ j \in DOMAIN queued[c] /\ reads'[c][j] = queued[c][j]
          \/ c = a /\ j = Len(queued[a]) + 1 /\ reads'[c][j] = FreshTag
    <3> TAKE c \in Client
    <3> TAKE j \in DOMAIN reads'[c]
    <3>1. CASE c = a
      <4>1. queued[a] \in Seq(Nat) /\ reads'[c] = Append(queued[a], FreshTag)
        BY <2>2, <3>1
      <4>2. j \in 1 .. Len(queued[a]) + 1
        BY <4>1
      <4>3. CASE j = Len(queued[a]) + 1
        BY <3>1, <4>1, <4>3
      <4>4. CASE j \in 1 .. Len(queued[a])
        BY <3>1, <4>1, <4>4
      <4> QED
        BY <4>1, <4>2, <4>3, <4>4
    <3>2. CASE c # a
      BY <2>2, <3>2
    <3> QED
      BY <3>1, <3>2
  <2>4. reads' \in [Client -> Seq(Nat)]
    BY <2>2
  <2>5. \A c \in Client : \A j \in DOMAIN queued[c] :
          queued[c][j] \in Nat /\ queued[c][j] < FreshTag
    <3>1. \A c \in Client : \A j \in DOMAIN queued[c] : queued[c][j] \in Nat
      OBVIOUS
    <3> QED
      BY <3>1
  <2>6. ASSUME NEW c \in Client, NEW d \in Client,
               NEW j \in DOMAIN reads'[c], NEW k \in DOMAIN reads'[d],
               reads'[c][j] = reads'[d][k]
        PROVE  c = d /\ j = k
    <3>1. \A e \in Client : \A i \in DOMAIN queued[e] :
            queued[e][i] \in Nat /\ queued[e][i] # FreshTag
      BY <2>5
    <3> QED
      BY <2>3, <2>6, <3>1
  <2>7. \A c \in Client : \A j \in DOMAIN reads'[c] : reads'[c][j] <= nextReadTag'
    <3> TAKE c \in Client
    <3> TAKE j \in DOMAIN reads'[c]
    <3>1. CASE j \in DOMAIN queued[c] /\ reads'[c][j] = queued[c][j]
      BY <1>1, <2>5, <3>1
    <3>2. CASE reads'[c][j] = FreshTag
      BY <1>1, <3>2
    <3> QED
      BY <2>3, <3>1, <3>2
  <2>8. nextReadTag' \in Nat
    BY <1>1
  <2> QED
    BY <2>4, <2>6, <2>7, <2>8
<1>2. CASE RefuseRead(recovery, tags, recTag, startedAt, queued)
            /\ nextReadTag' = FreshTag
  <2>1. reads' = queued /\ nextReadTag' \in Nat /\ nextReadTag < nextReadTag'
    BY <1>2 DEF RefuseRead
  <2>2. \A c \in Client : \A j \in DOMAIN queued[c] :
          queued[c][j] \in Nat /\ queued[c][j] <= nextReadTag
    OBVIOUS
  <2>3. \A c \in Client : \A j \in DOMAIN queued[c] : queued[c][j] <= nextReadTag'
    BY <2>1, <2>2
  <2> QED
    BY <2>1, <2>3
<1>3. CASE reads' = queued /\ UNCHANGED nextReadTag
  BY <1>3
<1> QED
  BY <1>1, <1>2, <1>3 DEF ReadNext, MayRead

LEMMA TagInit == Init => TagInv
BY DEF Init, TagInv, DistinctTags

LEMMA TagStep ==
  ASSUME MaxStarts <= 1
  PROVE  TagInv /\ [Next]_vars => TagInv'
<1> SUFFICES ASSUME TagInv, [Next]_vars PROVE TagInv'
  OBVIOUS
<1> USE BoundsAssumption
<1>1. CASE UNCHANGED <<running, reads, nextReadTag, starts>>
  BY <1>1 DEF TagInv, DistinctTags
<1>2. CASE Start
  <2>1. starts = 0 /\ starts' = 1 /\ reads' = reads /\ nextReadTag' = 0
    BY <1>2 DEF Start, TagInv
  <2>2. \A c \in Client : reads[c] = <<>>
    BY <2>1 DEF TagInv
  <2> QED
    BY <2>1, <2>2 DEF TagInv, DistinctTags
<1>3. CASE Stop
  <2>1. starts # 0 /\ UNCHANGED <<starts, reads, nextReadTag>>
    BY <1>3 DEF Stop, TagInv
  <2> QED
    BY <2>1 DEF TagInv, DistinctTags
<1>4. CASE Poll
  <2>1. PICK recovery, tags, recTag, startedAt :
            ReadNext(recovery, tags, recTag, startedAt, reads)
    BY <1>4 DEF Poll, PollUnchanged, PollChanged
  <2>2. DistinctTags(reads', nextReadTag')
    BY <2>1, ReadNextKeepsDistinct DEF TagInv
  <2>3. starts # 0 /\ UNCHANGED starts
    BY <1>4 DEF Poll, PollUnchanged, PollChanged, TagInv
  <2> QED
    BY <2>2, <2>3 DEF TagInv
<1>5. ASSUME NEW c \in Client, Callback(c)
      PROVE  TagInv'
  <2>1. Delivers(c) /\ reads[c] # <<>>
    BY <1>5 DEF Callback, LateCallback, CrowdedCallback, DiscardByte,
                OversizedByte, StoreByte, CompleteRecord, AcceptByte, Delivers
  <2>2. DistinctTags(Dequeued(c), nextReadTag)
    BY <2>1, DequeueKeepsDistinct DEF TagInv
  <2>3. DistinctTags(reads', nextReadTag')
    <3>1. CASE reads' = Dequeued(c) /\ UNCHANGED nextReadTag
      BY <2>2, <3>1
    <3>2. CASE AcceptByte(c)
      BY <2>2, <3>2, ReadNextKeepsDistinct DEF AcceptByte
    <3> QED
      BY <1>5, <3>1, <3>2
         DEF Callback, LateCallback, CrowdedCallback, DiscardByte, OversizedByte,
             StoreByte, CompleteRecord, locals
  <2>4. starts # 0 /\ UNCHANGED starts
    BY <1>5, <2>1 DEF TagInv, Callback, LateCallback, CrowdedCallback, DiscardByte,
                OversizedByte, StoreByte, CompleteRecord, AcceptByte
  <2> QED
    BY <2>3, <2>4 DEF TagInv
<1> QED
  BY <1>1, <1>2, <1>3, <1>4, <1>5 DEF Next, vars, locals, TimePasses, Attach, Depart

\* In one lifetime of the listener a tag that callback accepts names one read of
\* one client.  Of more than one lifetime it is not true: M.start counts from
\* zero again while reads of the old listener may be outstanding.
THEOREM TagsNameOneRead ==
  ASSUME MaxStarts <= 1
  PROVE  Spec => []TagNamesOneRead
<1>1. TagInv => TagNamesOneRead
  BY DEF TagInv, DistinctTags, TagNamesOneRead
<1> QED
  BY <1>1, TagInit, TagStep, PTL DEF Spec

-----------------------------------------------------------------------------
\* A record holds the bytes of one client: between two polls that see a change, the
\* buffer and the tracked reads have one owner.

\* Of the tags, only c has reads in the queues q.
TagsOf(q, tags, c) ==
    \A d \in Client : \A j \in DOMAIN q[d] : q[d][j] \in tags => d = c

LEMMA AppendFrom ==
  ASSUME NEW S, NEW s \in Seq(S), NEW e \in S
  PROVE  /\ Append(s, e) \in Seq(S)
         /\ Len(Append(s, e)) = Len(s) + 1
         /\ \A i \in DOMAIN Append(s, e) :
              \/ i \in DOMAIN s /\ Append(s, e)[i] = s[i]
              \/ i = Len(s) + 1 /\ Append(s, e)[i] = e
OBVIOUS

LEMMA ReadNextOwned ==
  ASSUME NEW c, Attached \subseteq {c}, NEW recovery, NEW tags, NEW recTag, NEW startedAt,
         NEW queued, DistinctTags(queued, nextReadTag), TagsOf(queued, tags, c),
         ReadNext(recovery, tags, recTag, startedAt, queued)
  PROVE  TagsOf(reads', pendingReadTags', c)
<1>1. CASE IssueRead(recovery, tags, recTag, startedAt, queued)
  <2> SUFFICES ASSUME NEW d \in Client, d # c, NEW j \in DOMAIN reads'[d],
                      reads'[d][j] \in pendingReadTags'
               PROVE  FALSE
    BY DEF TagsOf
  <2>1. reads'[d] = queued[d] /\ pendingReadTags' = tags \cup {FreshTag}
    BY <1>1 DEF IssueRead
  <2>2. queued[d][j] # FreshTag
    <3>1. queued[d][j] \in Nat /\ nextReadTag \in Nat /\ queued[d][j] <= nextReadTag
      BY <2>1 DEF DistinctTags
    <3> QED
      BY <3>1 DEF FreshTag
  <2> QED
    BY <2>1, <2>2 DEF TagsOf
<1>2. CASE reads' = queued /\ pendingReadTags' = tags
  BY <1>2 DEF TagsOf
<1> QED
  BY <1>1, <1>2 DEF ReadNext, RefuseRead

LEMMA DequeueOwned ==
  ASSUME TagInv, NEW c, NEW d \in Client, reads[d] # <<>>,
         TagsOf(reads, pendingReadTags, c)
  PROVE  /\ TagsOf(Dequeued(d), pendingReadTags, c)
         /\ TagsOf(Dequeued(d), TagsAfter(Tag(d)), c)
<1>1. TagsOf(Dequeued(d), pendingReadTags, c)
  <2>1. reads \in [Client -> Seq(Nat)]
    BY DEF TagInv, DistinctTags
  <2>2. \A j \in DOMAIN Tail(reads[d]) :
            j + 1 \in DOMAIN reads[d] /\ Tail(reads[d])[j] = reads[d][j + 1]
    BY <2>1
  <2> SUFFICES ASSUME NEW e \in Client, NEW j \in DOMAIN Dequeued(d)[e],
                      Dequeued(d)[e][j] \in pendingReadTags
               PROVE  e = c
    BY DEF TagsOf
  <2>3. CASE e = d
    <3>1. Dequeued(d)[e] = Tail(reads[d])
      BY <2>1, <2>3 DEF Dequeued
    <3> QED
      BY <2>2, <2>3, <3>1 DEF TagsOf
  <2>4. CASE e # d
    <3>1. Dequeued(d)[e] = reads[e]
      BY <2>1, <2>4 DEF Dequeued
    <3> QED
      BY <3>1 DEF TagsOf
  <2> QED
    BY <2>3, <2>4
<1>2. TagsAfter(Tag(d)) \subseteq pendingReadTags
  BY DEF TagsAfter
<1> QED
  BY <1>1, <1>2 DEF TagsOf

\* c is attached alone, and the poll has seen that.
Served(c) == connectionCount = 1 /\ Attached = {c}

\* Every byte in the buffer is one of c, before the next that its socket delivers.
HeldBytes(c) ==
    /\ OrderedBytes(inputBuffer)
    /\ \A k \in DOMAIN inputBuffer :
            inputBuffer[k][1] = c /\ Before(inputBuffer[k], NextByte(c))

SoloInv ==
    /\ connectionCount # 1 => inputBuffer = <<>> /\ ~droppingOversizedLine
    /\ Churn = "alone" => \A c, d \in Attached : c = d
    /\ \A c \in Client : Served(c) => TagsOf(reads, pendingReadTags, c) /\ HeldBytes(c)
    /\ NoSplicedRecords

\* The next byte of a client comes after the one that its socket has delivered.
LEMMA NextByteIsLater ==
  ASSUME TypeOK, NEW c \in Client, cursor'[c] = Advance(cursor[c], NextByte(c))
  PROVE  /\ Before(NextByte(c), NextByte(c)')
         /\ \A b \in Byte : Before(b, NextByte(c)) => Before(b, NextByte(c)')
<1>1. cursor[c] \in [rec : Nat \ {0}, pos : Nat \ {0}]
  BY DEF TypeOK
<1>2. \/ cursor'[c].rec = cursor[c].rec + 1
      \/ cursor'[c].rec = cursor[c].rec /\ cursor'[c].pos = cursor[c].pos + 1
  BY <1>1 DEF Advance
<1>3. \A b \in Byte : b[2] \in Nat /\ b[3] \in Nat
  BY DEF Byte
<1> QED
  BY <1>1, <1>2, <1>3 DEF Before, NextByte

\* A byte that follows all those of a buffer may be appended to it.
LEMMA AppendKeepsOrder ==
  ASSUME NEW c \in Client, NEW s \in Seq(Byte), NEW b \in Byte, b[1] = c, OrderedBytes(s),
         \A k \in DOMAIN s : s[k][1] = c /\ Before(s[k], b)
  PROVE  /\ OrderedBytes(Append(s, b))
         /\ \A k \in DOMAIN Append(s, b) : Append(s, b)[k] \in Byte
         /\ \A k \in DOMAIN Append(s, b) : Append(s, b)[k][1] = c
         /\ \A k \in DOMAIN Append(s, b) : Append(s, b)[k] = b \/ Before(Append(s, b)[k], b)
<1> DEFINE t == Append(s, b)
<1>1. /\ t \in Seq(Byte)
      /\ Len(t) = Len(s) + 1
      /\ \A i \in DOMAIN t : \/ i \in DOMAIN s /\ t[i] = s[i]
                             \/ i = Len(s) + 1 /\ t[i] = b
  BY AppendFrom, Zenon
<1>2. \A i \in DOMAIN s : i < Len(s) + 1
  OBVIOUS
<1>5. \A i \in DOMAIN t : t[i] \in Byte
  BY <1>1
<1> HIDE DEF t
<1>3. \A k \in DOMAIN t : t[k][1] = c /\ (t[k] = b \/ Before(t[k], b))
  BY <1>1
<1>6. \A k \in DOMAIN t : k \in Nat
  BY <1>1
<1>4. OrderedBytes(t)
  <2> SUFFICES ASSUME NEW j \in DOMAIN t, NEW k \in DOMAIN t
               PROVE  t[j][1] = t[k][1] /\ (j < k => Before(t[j], t[k]))
    BY DEF OrderedBytes
  <2>1. t[j][1] = t[k][1]
    BY <1>3
  <2>2. ASSUME j < k PROVE Before(t[j], t[k])
    <3>1. CASE k \in DOMAIN s /\ t[k] = s[k]
      <4>1. j \in DOMAIN s /\ t[j] = s[j]
        BY <1>1, <1>2, <1>6, <2>2, <3>1
      <4> QED
        BY <2>2, <3>1, <4>1 DEF OrderedBytes
    <3>2. CASE k = Len(s) + 1 /\ t[k] = b
      <4>1. j \in DOMAIN s /\ t[j] = s[j]
        BY <1>1, <1>6, <2>2, <3>2
      <4> QED
        BY <3>2, <4>1
    <3> QED
      BY <1>1, <3>1, <3>2
  <2> QED
    BY <2>1, <2>2
<1> QED
  BY <1>3, <1>4, <1>5 DEF t

\* Who is served changes only when the poll sees a change of the count.
LEMMA ServedByPoll ==
  ASSUME Churn # "any", NEW d \in Client, Attach(d) \/ Depart(d), TypeOK,
         Churn = "alone" => \A c, e \in Attached : c = e
  PROVE  /\ \A c \in Client : ~Served(c)'
         /\ Churn = "alone" => \A c, e \in Attached' : c = e
<1>1. Churn \in {"paced", "alone"}
  BY ChurnAssumption
<1>2. connectionCount' = connectionCount
  BY DEF Attach, Depart, locals
<1>3. CASE Attach(d)
  <2>1. Attached' = Attached \cup {d} /\ d \notin Attached
    BY <1>3 DEF Attach, Attached, TypeOK
  <2>2. Settled /\ (Churn = "alone" => Attached = {})
    BY <1>1, <1>3 DEF Attach, MayAttach
  <2>3. ASSUME NEW c \in Client, Served(c)' PROVE FALSE
    <3>1. Connections = 1
      BY <1>2, <2>2, <2>3 DEF Served, Settled
    <3>2. PICK e \in Client : Attached = {e}
      BY <3>1, OneConnection
    <3> QED
      BY <2>1, <2>3, <3>2 DEF Served
  <2> QED
    BY <2>1, <2>2, <2>3
<1>4. CASE Depart(d)
  <2>1. Attached' = Attached \ {d} /\ d \in Attached
    BY <1>4 DEF Depart, Attached, TypeOK
  <2>2. Churn = "paced" => Settled
    BY <1>4 DEF Depart, MayDepart
  <2>3. ASSUME NEW c \in Client, Served(c)' PROVE FALSE
    <3>1. CASE Churn = "paced"
      <4>1. Connections = 1
        BY <1>2, <2>2, <2>3, <3>1 DEF Served, Settled
      <4>2. PICK e \in Client : Attached = {e}
        BY <4>1, OneConnection
      <4> QED
        BY <2>1, <2>3, <4>2 DEF Served
    <3>2. CASE Churn = "alone"
      BY <2>1, <2>3, <3>2 DEF Served
    <3> QED
      BY <1>1, <3>1, <3>2
  <2> QED
    BY <2>1, <2>3
<1> QED
  BY <1>3, <1>4

\* A byte that is accepted is one of the client that is served.
LEMMA AcceptedIsServed ==
  ASSUME BookInv, TypeOK, SoloInv, NEW d \in Client, AcceptByte(d)
  PROVE  Served(d)
<1>1. Tag(d) \in pendingReadTags /\ Connections = 1 /\ reads[d] # <<>>
  BY DEF AcceptByte, Delivers
<1>2. connectionCount = 1
  BY <1>1 DEF BookInv, ReadBookkeeping, PendingNeedsOneClient
<1>3. PICK c \in Client : Attached = {c}
  BY <1>1, OneConnection
<1>4. TagsOf(reads, pendingReadTags, c)
  BY <1>2, <1>3 DEF SoloInv, Served
<1>5. 1 \in DOMAIN reads[d] /\ reads[d][1] = Tag(d)
  BY <1>1 DEF Tag, TypeOK
<1>6. d = c
  BY <1>1, <1>4, <1>5 DEF TagsOf
<1> QED
  BY <1>2, <1>3, <1>6 DEF Served

LEMMA SoloInit == Init => SoloInv
BY DEF Init, SoloInv, Attached, Served, NoSplicedRecords

\* The four outcomes of a byte that is accepted
LEMMA SoloAccepts ==
  ASSUME BookInv, TagInv, TypeOK, SoloInv, NEW d \in Client, AcceptByte(d),
         DiscardByte(d) \/ OversizedByte(d) \/ StoreByte(d) \/ CompleteRecord(d)
  PROVE  SoloInv'
<1>1. Served(d) /\ HeldBytes(d) /\ TagsOf(reads, pendingReadTags, d)
  BY AcceptedIsServed DEF SoloInv
<1>2. Attached' = Attached /\ connectionCount' = connectionCount /\ reads[d] # <<>>
  BY DEF AcceptByte, Attached, Delivers
<1>3. TagsOf(reads', pendingReadTags', d)
  <2>1. TagsOf(Dequeued(d), TagsAfter(Tag(d)), d)
    BY <1>1, <1>2, DequeueOwned
  <2>2. DistinctTags(Dequeued(d), nextReadTag)
    BY <1>2, DequeueKeepsDistinct DEF TagInv
  <2>3. Attached \subseteq {d}
    BY <1>1 DEF Served
  <2> QED
    BY <2>1, <2>2, <2>3, ReadNextOwned DEF AcceptByte
<1>4. /\ Before(NextByte(d), NextByte(d)')
      /\ \A b \in Byte : Before(b, NextByte(d)) => Before(b, NextByte(d)')
  <2>1. cursor'[d] = Advance(cursor[d], NextByte(d))
    BY DEF AcceptByte, TypeOK
  <2> QED
    BY <2>1, NextByteIsLater
<1>5. /\ inputBuffer \in Seq(Byte) /\ OrderedBytes(inputBuffer)
      /\ \A k \in DOMAIN inputBuffer :
            inputBuffer[k][1] = d /\ Before(inputBuffer[k], NextByte(d))
  BY <1>1 DEF TypeOK, HeldBytes
<1>6. NextByte(d) \in Byte /\ NextByte(d)[1] = d
  <2>1. cursor[d] \in [rec : Nat \ {0}, pos : Nat \ {0}]
    BY DEF TypeOK
  <2>2. cursor[d].rec \in DOMAIN Records[d]
    BY <2>1, RecordsAssumption DEF AcceptByte, Delivers, Exhausted
  <2> QED
    BY <2>1, <2>2 DEF NextByte, Byte
<1> DEFINE longer == Append(inputBuffer, NextByte(d))
<1>7. /\ OrderedBytes(longer)
      /\ \A k \in DOMAIN longer : longer[k] \in Byte
      /\ \A k \in DOMAIN longer : longer[k][1] = d
      /\ \A k \in DOMAIN longer : longer[k] = NextByte(d) \/ Before(longer[k], NextByte(d))
  BY <1>5, <1>6, AppendKeepsOrder, Zenon
<1> HIDE DEF longer
<1>8. inputBuffer' \in {<<>>, inputBuffer, longer}
  BY DEF DiscardByte, OversizedByte, StoreByte, CompleteRecord, longer
<1>9. HeldBytes(d)'
  <2>1. CASE inputBuffer' = <<>>
    BY <2>1 DEF HeldBytes, OrderedBytes
  <2>2. CASE inputBuffer' = inputBuffer
    <3>1. \A k \in DOMAIN inputBuffer : Before(inputBuffer[k], NextByte(d)')
      BY <1>4, <1>5
    <3> QED
      BY <1>5, <2>2, <3>1 DEF HeldBytes, OrderedBytes
  <2>3. CASE inputBuffer' = longer
    <3>1. \A k \in DOMAIN longer : Before(longer[k], NextByte(d)')
      BY <1>4, <1>7
    <3> QED
      BY <1>7, <2>3, <3>1 DEF HeldBytes, OrderedBytes
  <2> QED
    BY <1>8, <2>1, <2>2, <2>3
<1>10. NoSplicedRecords'
  <2>1. CASE UNCHANGED handled
    BY <2>1 DEF SoloInv, NoSplicedRecords, OrderedBytes
  <2>2. CASE CompleteRecord(d)
    <3>1. handled \in [Client -> Seq(Seq(Byte))]
      BY DEF TypeOK
    <3>2. handled' = [handled EXCEPT ![d] = Append(@, longer)]
      BY <2>2 DEF CompleteRecord, longer
    <3> SUFFICES ASSUME NEW c \in Client, NEW n \in DOMAIN handled'[c]
                 PROVE  OrderedBytes(handled'[c][n])
      BY DEF NoSplicedRecords, OrderedBytes
    <3>3. \/ n \in DOMAIN handled[c] /\ handled'[c][n] = handled[c][n]
          \/ handled'[c][n] = longer
      <4>1. CASE c = d
        <5>1. handled'[c] = Append(handled[c], longer) /\ handled[c] \in Seq(Seq(Byte))
          BY <3>1, <3>2, <4>1
        <5> QED
          BY <5>1
      <4>2. CASE c # d
        BY <3>1, <3>2, <4>2
      <4> QED
        BY <4>1, <4>2
    <3> QED
      BY <1>7, <3>3 DEF SoloInv, NoSplicedRecords
  <2> QED
    BY <2>1, <2>2 DEF DiscardByte, OversizedByte, StoreByte
<1>11. \A c \in Client : Served(c)' => c = d
  BY <1>1, <1>2 DEF Served
<1> QED
  BY <1>1, <1>2, <1>3, <1>9, <1>10, <1>11 DEF SoloInv, Served

LEMMA SoloStep ==
  ASSUME Churn # "any"
  PROVE  BookInv /\ TagInv /\ TypeOK /\ SoloInv /\ [Next]_vars => SoloInv'
<1> SUFFICES ASSUME BookInv, TagInv, TypeOK, SoloInv, [Next]_vars PROVE SoloInv'
  OBVIOUS
<1>1. ASSUME UNCHANGED <<inputBuffer, droppingOversizedLine, connectionCount, status,
                         handled>>,
             \A c \in Client :
                Served(c) => TagsOf(reads', pendingReadTags', c) /\ HeldBytes(c)'
      PROVE  SoloInv'
  <2>1. Attached' = Attached /\ \A c \in Client : Served(c)' = Served(c)
    BY <1>1 DEF Attached, Served
  <2>2. NoSplicedRecords'
    BY <1>1 DEF SoloInv, NoSplicedRecords, OrderedBytes
  <2> QED
    BY <1>1, <2>1, <2>2 DEF SoloInv
<1>2. CASE TimePasses \/ UNCHANGED vars
  <2>1. UNCHANGED <<inputBuffer, droppingOversizedLine, connectionCount, status, handled,
                    reads, pendingReadTags, cursor>>
    BY <1>2 DEF TimePasses, vars, locals
  <2>2. \A c \in Client : Served(c) => TagsOf(reads', pendingReadTags', c) /\ HeldBytes(c)'
    BY <2>1 DEF SoloInv, TagsOf, HeldBytes, OrderedBytes, NextByte
  <2> QED
    BY <1>1, <2>1, <2>2
<1>3. CASE Start \/ Stop
  <2>1. /\ connectionCount' = 0 /\ inputBuffer' = <<>> /\ ~droppingOversizedLine'
        /\ UNCHANGED handled /\ Attached' \subseteq Attached
    BY <1>3 DEF Start, Stop, ResetInput, Attached
  <2> QED
    BY <2>1 DEF SoloInv, Served, NoSplicedRecords, OrderedBytes
<1>4. ASSUME NEW d \in Client, Attach(d) \/ Depart(d)
      PROVE  SoloInv'
  <2>1. UNCHANGED <<inputBuffer, droppingOversizedLine, connectionCount, handled>>
    BY <1>4 DEF Attach, Depart, locals
  <2> QED
    BY <1>4, <2>1, ServedByPoll DEF SoloInv, NoSplicedRecords, OrderedBytes
<1>5. CASE PollUnchanged
  <2> DEFINE aged == Connections = 1 /\ pendingReadStartedAt = "aged"
  <2>1. /\ UNCHANGED <<inputBuffer, droppingOversizedLine, connectionCount, status, handled,
                       cursor>>
        /\ ReadNext(aged, pendingReadTags, recoveryReadTag, pendingReadStartedAt, reads)
    BY <1>5 DEF PollUnchanged
  <2> HIDE DEF aged
  <2>2. ASSUME NEW c \in Client, Served(c)
        PROVE  TagsOf(reads', pendingReadTags', c) /\ HeldBytes(c)'
    <3>1. TagsOf(reads, pendingReadTags, c) /\ HeldBytes(c) /\ Attached \subseteq {c}
      BY <2>2 DEF SoloInv, Served
    <3>2. HeldBytes(c)'
      BY <2>1, <3>1 DEF HeldBytes, OrderedBytes, NextByte
    <3> QED
      BY <2>1, <3>1, <3>2, ReadNextOwned DEF TagInv
  <2> QED
    BY <1>1, <2>1, <2>2
<1>6. CASE PollChanged
  <2> DEFINE no == FALSE
  <2>1. /\ inputBuffer' = <<>> /\ ~droppingOversizedLine'
        /\ UNCHANGED <<status, handled>>
        /\ ReadNext(no, {}, None, "none", reads)
    BY <1>6 DEF PollChanged, ResetInput
  <2> HIDE DEF no
  <2>2. Attached' = Attached
    BY <2>1 DEF Attached
  <2>3. ASSUME NEW c \in Client, Attached = {c}
        PROVE  TagsOf(reads', pendingReadTags', c) /\ HeldBytes(c)'
    <3>1. TagsOf(reads, {}, c) /\ Attached \subseteq {c}
      BY <2>3 DEF TagsOf
    <3>2. HeldBytes(c)'
      BY <2>1 DEF HeldBytes, OrderedBytes
    <3> QED
      BY <2>1, <3>1, <3>2, ReadNextOwned DEF TagInv
  <2> QED
    BY <2>1, <2>2, <2>3 DEF SoloInv, Served, NoSplicedRecords, OrderedBytes
<1>7. ASSUME NEW d \in Client, LateCallback(d)
      PROVE  SoloInv'
  <2>1. /\ UNCHANGED <<inputBuffer, droppingOversizedLine, connectionCount, status, handled,
                       pendingReadTags>>
        /\ reads[d] # <<>> /\ reads' = Dequeued(d)
        /\ cursor' = [cursor EXCEPT ![d] = Advance(@, NextByte(d))]
    BY <1>7 DEF LateCallback, Delivers, locals
  <2>2. ASSUME NEW c \in Client, Served(c)
        PROVE  TagsOf(reads', pendingReadTags', c) /\ HeldBytes(c)'
    <3>1. TagsOf(reads, pendingReadTags, c) /\ HeldBytes(c)
      BY <2>2 DEF SoloInv
    <3>2. TagsOf(reads', pendingReadTags', c)
      BY <2>1, <3>1, DequeueOwned
    <3>3. inputBuffer \in Seq(Byte)
      BY DEF TypeOK
    <3>4. \A b \in Byte : Before(b, NextByte(c)) => Before(b, NextByte(c)')
      <4>1. CASE c = d
        <5>1. cursor'[d] = Advance(cursor[d], NextByte(d))
          BY <2>1 DEF TypeOK
        <5> QED
          BY <4>1, <5>1, NextByteIsLater
      <4>2. CASE c # d
        <5>1. cursor'[c] = cursor[c]
          BY <2>1, <4>2 DEF TypeOK
        <5> QED
          BY <5>1 DEF NextByte
      <4> QED
        BY <4>1, <4>2
    <3>5. HeldBytes(c)'
      <4>1. \A k \in DOMAIN inputBuffer :
              inputBuffer[k] \in Byte /\ inputBuffer[k][1] = c
              /\ Before(inputBuffer[k], NextByte(c)')
        BY <3>1, <3>3, <3>4 DEF HeldBytes
      <4> QED
        BY <2>1, <3>1, <4>1 DEF HeldBytes, OrderedBytes
    <3> QED
      BY <3>2, <3>5
  <2> QED
    BY <1>1, <2>1, <2>2
<1>8. ASSUME NEW d \in Client, CrowdedCallback(d)
      PROVE  SoloInv'
  <2>1. /\ UNCHANGED <<inputBuffer, droppingOversizedLine, connectionCount, status, handled>>
        /\ Tag(d) \in pendingReadTags
        /\ ~running \/ Connections # 1
    BY <1>8 DEF CrowdedCallback
  <2>2. running
    BY <2>1 DEF BookInv, ReadBookkeeping, PendingNeedsOneClient
  <2>3. \A c \in Client : ~Served(c)
    BY <2>1, <2>2, OneConnection DEF Served
  <2> QED
    BY <1>1, <2>1, <2>3
<1>9. ASSUME NEW d \in Client,
             DiscardByte(d) \/ OversizedByte(d) \/ StoreByte(d) \/ CompleteRecord(d)
      PROVE  SoloInv'
  <2>1. AcceptByte(d)
    BY <1>9 DEF DiscardByte, OversizedByte, StoreByte, CompleteRecord
  <2> QED
    BY <1>9, <2>1, SoloAccepts
<1> QED
  BY <1>2, <1>3, <1>4, <1>5, <1>6, <1>7, <1>8, <1>9 DEF Next, Poll, Callback

\* Where the poll sees each client come and go, a record that reaches protocol.decode
\* holds bytes of one client, in the order it wrote them: nothing of a departed client is
\* spliced into a record of the next, whatever reads are still to call back.  (In one
\* lifetime of the listener.)
THEOREM RecordsAreNotSpliced ==
  ASSUME Churn # "any", MaxStarts <= 1
  PROVE  Spec => []NoSplicedRecords
<1>1. SoloInv => NoSplicedRecords
  BY DEF SoloInv
<1>2. BookInv /\ TagInv /\ TypeOK /\ SoloInv /\ [Next]_vars
        => (BookInv /\ TagInv /\ TypeOK /\ SoloInv)'
  BY BookStep, TagStep, TypeStep, SoloStep
<1> QED
  BY <1>1, <1>2, BookInit, TagInit, TypeInit, SoloInit, PTL DEF Spec

-----------------------------------------------------------------------------
\* The records of a client that comes when no other is left are the stream that
\* RecordStream promises.

\* Every read that waits for a byte of c is tracked, the recovery read last.
Tracked(q, tags, recTag, c) ==
    \A j \in DOMAIN q[c] :
        /\ q[c][j] \in tags
        /\ q[c][j] = recTag => j = Len(q[c])

\* The buffer holds what the cursor has passed of the record begun, unless that is too long.
Framed(c) ==
    LET r == cursor[c].rec
        p == cursor[c].pos
    IN  /\ r \in DOMAIN Records[c] => p <= Records[c][r]
        /\ r \notin DOMAIN Records[c] => p = 1
        /\ IF droppingOversizedLine
           THEN inputBuffer = <<>> /\ p > MaxLineBytes + 1
           ELSE inputBuffer = BytesOf(c, r, p - 1) /\ p <= MaxLineBytes + 1

\* Of the records before the cursor, those after the last one handled are too long.
Skipped(c) ==
    LET last == Stream(c)!LastAccepted
    IN  /\ last \in 0 .. cursor[c].rec - 1
        /\ \A j \in last + 1 .. cursor[c].rec - 1 : Records[c][j] > MaxLineBytes

Unread(c) == cursor[c] = [rec |-> 1, pos |-> 1] /\ reads[c] = <<>> /\ handled[c] = <<>>

\* No record is one byte too long, see ReadLoopBoundary.cfg
NoneJustTooLong ==
    \A c \in Client : \A i \in DOMAIN Records[c] : Records[c][i] # MaxLineBytes + 1

InStep(c) ==
    /\ Tracked(reads, pendingReadTags, recoveryReadTag, c)
    /\ NoneJustTooLong => Framed(c) /\ Skipped(c)

FrameOf(c) ==
    /\ status[c] = "new" => Unread(c)
    /\ status[c] = "attached" => running /\ IF connectionCount = 1 THEN InStep(c) ELSE Unread(c)

FrameInv == \A c \in Client : FrameOf(c)

LEMMA NoBytes == ASSUME NEW c, NEW i PROVE BytesOf(c, i, 0) = <<>>
BY DEF BytesOf

LEMMA BytesGrow ==
  ASSUME NEW c, NEW i, NEW n \in Nat
  PROVE  /\ Len(BytesOf(c, i, n)) = n
         /\ Append(BytesOf(c, i, n), <<c, i, n + 1>>) = BytesOf(c, i, n + 1)
BY DEF BytesOf

LEMMA AppendMapped ==
  ASSUME NEW S, NEW T, NEW s \in Seq(S), NEW e \in S, NEW f \in [S -> T]
  PROVE  [k \in DOMAIN Append(s, e) |-> f[Append(s, e)[k]]]
            = Append([k \in DOMAIN s |-> f[s[k]]], f[e])
OBVIOUS

\* read_next adds no read to the socket of a client that is not attached.
LEMMA ReadNextLeaves ==
  ASSUME NEW recovery, NEW tags, NEW recTag, NEW startedAt, NEW queued,
         ReadNext(recovery, tags, recTag, startedAt, queued), NEW c \in Client,
         c \notin Attached \/ Connections # 1
  PROVE  reads'[c] = queued[c]
BY DEF ReadNext, IssueRead, RefuseRead, MayRead

LEMMA ReadNextTracked ==
  ASSUME NEW recovery \in BOOLEAN, NEW tags, NEW recTag, NEW startedAt, NEW queued,
         Coherent(tags, recTag, startedAt), DistinctTags(queued, nextReadTag),
         NEW c \in Client, c \in Attached, Tracked(queued, tags, recTag, c),
         ReadNext(recovery, tags, recTag, startedAt, queued)
  PROVE  Tracked(reads', pendingReadTags', recoveryReadTag', c)
<1>1. CASE MayRead(recovery, tags, recTag) /\ IssueRead(recovery, tags, recTag, startedAt, queued)
  <2>1. /\ queued[c] \in Seq(Nat) /\ FreshTag \in Nat
        /\ \A j \in DOMAIN queued[c] : queued[c][j] \in Nat /\ queued[c][j] # FreshTag
    <3>1. queued[c] \in Seq(Nat) /\ nextReadTag \in Nat
      BY DEF DistinctTags
    <3>2. \A j \in DOMAIN queued[c] : queued[c][j] \in Nat /\ queued[c][j] <= nextReadTag
      BY <3>1 DEF DistinctTags
    <3> QED
      BY <3>1, <3>2 DEF FreshTag
  <2> DEFINE t == Append(queued[c], FreshTag)
  <2>2. reads'[c] = t
    BY <1>1 DEF IssueRead
  <2>3. /\ Len(t) = Len(queued[c]) + 1
        /\ \A j \in DOMAIN t : \/ j \in DOMAIN queued[c] /\ t[j] = queued[c][j]
                               \/ j = Len(queued[c]) + 1 /\ t[j] = FreshTag
    BY <2>1, AppendFrom, Zenon
  <2> HIDE DEF t
  <2>4. pendingReadTags' = tags \cup {FreshTag}
    BY <1>1 DEF IssueRead
  <2>5. CASE recovery
    <3>1. recoveryReadTag' = FreshTag
      BY <1>1, <2>5 DEF IssueRead
    <3> QED
      BY <2>1, <2>2, <2>3, <2>4, <3>1 DEF Tracked
  <2>6. CASE ~recovery
    <3>1. tags = {} /\ recoveryReadTag' = recTag
      BY <1>1, <2>6 DEF IssueRead, MayRead
    <3>2. recTag = None
      BY <3>1 DEF Coherent
    <3>3. DOMAIN queued[c] = {}
      BY <3>1 DEF Tracked
    <3> QED
      BY NoneAssumption, <2>1, <2>2, <2>3, <2>4, <3>1, <3>2, <3>3 DEF Tracked
  <2> QED
    BY <2>5, <2>6
<1>2. CASE reads' = queued /\ pendingReadTags' = tags /\ recoveryReadTag' = recTag
  BY <1>2 DEF Tracked
<1> QED
  BY <1>1, <1>2 DEF ReadNext, RefuseRead

\* The answered read leaves the queue as its tag leaves the tracked ones: with the
\* recovery read, the last, the queue is empty.
LEMMA DequeueTracked ==
  ASSUME TagInv, NEW c \in Client, reads[c] # <<>>,
         Tracked(reads, pendingReadTags, recoveryReadTag, c)
  PROVE  Tracked(Dequeued(c), TagsAfter(Tag(c)), RecoveryAfter(Tag(c)), c)
<1>1. /\ reads \in [Client -> Seq(Nat)]
      /\ \A j, k \in DOMAIN reads[c] : reads[c][j] = reads[c][k] => j = k
  BY DEF TagInv, DistinctTags
<1> DEFINE s == reads[c]
           t == Tail(s)
<1>2. /\ s \in Seq(Nat) /\ s # <<>> /\ Len(s) \in Nat
      /\ Dequeued(c)[c] = t /\ Tag(c) = s[1] /\ 1 \in DOMAIN s
  BY <1>1 DEF Dequeued, Tag
<1>3. /\ Len(t) = Len(s) - 1
      /\ \A j \in DOMAIN t : j \in Nat /\ j > 0 /\ j + 1 \in DOMAIN s /\ t[j] = s[j + 1]
  BY <1>2
<1>4. /\ \A j \in DOMAIN s : s[j] \in pendingReadTags
      /\ \A j \in DOMAIN s : s[j] = recoveryReadTag => j = Len(s)
  BY DEF Tracked
<1> HIDE DEF s, t
<1>5. \A j \in DOMAIN t : t[j] # Tag(c)
  BY <1>1, <1>2, <1>3 DEF s
<1>6. CASE Tag(c) = recoveryReadTag
  <2>1. Len(s) = 1
    BY <1>2, <1>4, <1>6
  <2>2. DOMAIN t = {}
    BY <1>3, <2>1, <1>2
  <2> QED
    BY <1>2, <2>2 DEF Tracked
<1>7. CASE Tag(c) # recoveryReadTag
  <2>1. TagsAfter(Tag(c)) = pendingReadTags \ {Tag(c)}
    BY <1>7 DEF TagsAfter
  <2>2. RecoveryAfter(Tag(c)) = recoveryReadTag
    BY <1>7 DEF RecoveryAfter
  <2>3. ASSUME NEW j \in DOMAIN t
        PROVE  /\ t[j] \in pendingReadTags \ {Tag(c)}
               /\ t[j] = recoveryReadTag => j = Len(t)
    BY <1>2, <1>3, <1>4, <1>5
  <2> QED
    BY <1>2, <2>1, <2>2, <2>3 DEF Tracked
<1> QED
  BY <1>6, <1>7

\* The record that is handled next is the first, after the last one handled, that is
\* not too long; it is handled whole.
LEMMA CompletesNext ==
  ASSUME NoneJustTooLong, TypeOK, BookInv, SoloInv, FrameInv, NEW c \in Client,
         CompleteRecord(c)
  PROVE  /\ AcceptedFrom(c)' = Append(AcceptedFrom(c), cursor[c].rec)
         /\ Stream(c)!IsNextWithinLimit(cursor[c].rec)
         /\ cursor[c].rec \in DOMAIN Records[c]
         /\ Stream(c)!LastAccepted' = cursor[c].rec
<1> DEFINE r == cursor[c].rec
           p == cursor[c].pos
           b == Append(inputBuffer, NextByte(c))
<1>1. AcceptByte(c) /\ ~droppingOversizedLine /\ Fits /\ IsNewline(NextByte(c))
  BY DEF CompleteRecord
<1>2. Framed(c) /\ Skipped(c)
  <2>1. Served(c)
    BY <1>1, AcceptedIsServed
  <2> QED
    BY <2>1 DEF FrameInv, FrameOf, Served, Attached, InStep
<1>3. r \in Nat \ {0} /\ p \in Nat \ {0}
  BY DEF TypeOK
<1>4. r \in DOMAIN Records[c]
  BY <1>1, <1>3, RecordsAssumption DEF AcceptByte, Delivers, Exhausted
<1>5. p = Records[c][r] /\ NextByte(c) = <<c, r, p>>
  BY <1>1 DEF IsNewline, NextByte
<1>6. inputBuffer = BytesOf(c, r, p - 1)
  BY <1>1, <1>2 DEF Framed
<1>7. b = BytesOf(c, r, p) /\ Len(inputBuffer) = p - 1
  <2> DEFINE n == p - 1
  <2>1. n \in Nat /\ n + 1 = p
    BY <1>3
  <2>2. inputBuffer = BytesOf(c, r, n) /\ NextByte(c) = <<c, r, n + 1>>
    BY <1>5, <1>6, <2>1
  <2> HIDE DEF n, p, r
  <2>3. /\ Len(BytesOf(c, r, n)) = n
        /\ Append(BytesOf(c, r, n), <<c, r, n + 1>>) = BytesOf(c, r, n + 1)
    BY <2>1, BytesGrow, Zenon
  <2> QED
    BY <2>1, <2>2, <2>3 DEF n
<1>8. WholeRecord(b) = r
  <2>1. b = BytesOf(c, r, Records[c][r])
    BY <1>5, <1>7
  <2>2. b[1] = <<c, r, 1>>
    BY <1>3, <1>7 DEF BytesOf
  <2> HIDE DEF b, r
  <2>3. b[1][1] = c /\ b[1][2] = r
    BY <2>2
  <2> QED
    BY <2>1, <2>3 DEF WholeRecord
<1>9. Records[c][r] <= MaxLineBytes
  BY <1>1, <1>3, <1>5, <1>7 DEF Fits
<1>10. AcceptedFrom(c)' = Append(AcceptedFrom(c), r)
  <2> DEFINE S == Seq(Byte)
             T == {WholeRecord(x) : x \in S}
             f == [x \in S |-> WholeRecord(x)]
             h == handled[c]
  <2>1. h \in Seq(S)
    BY DEF TypeOK
  <2>2. b \in S
    <3>1. inputBuffer \in Seq(Byte) /\ NextByte(c) \in Byte
      BY <1>3, <1>4 DEF TypeOK, NextByte, Byte
    <3> QED
      BY <3>1
  <2>3. f \in [S -> T]
    OBVIOUS
  <2>4. handled'[c] = Append(h, b)
    BY DEF CompleteRecord, TypeOK
  <2>5. f[b] = r
    BY <1>8, <2>2
  <2>6. AcceptedFrom(c) = [k \in DOMAIN h |-> f[h[k]]]
    <3>1. \A k \in DOMAIN h : h[k] \in S
      BY <2>1
    <3> QED
      BY <3>1 DEF AcceptedFrom
  <2>7. AcceptedFrom(c)' = [k \in DOMAIN Append(h, b) |-> f[Append(h, b)[k]]]
    <3>1. \A k \in DOMAIN Append(h, b) : Append(h, b)[k] \in S
      <4> HIDE DEF S, b, h
      <4> QED  BY <2>1, <2>2
    <3>2. \A k \in DOMAIN Append(h, b) : f[Append(h, b)[k]] = WholeRecord(Append(h, b)[k])
      BY <3>1
    <3>3. AcceptedFrom(c)' = [k \in DOMAIN handled'[c] |-> WholeRecord(handled'[c][k])]
      BY DEF AcceptedFrom
    <3> HIDE DEF f, b, h, S
    <3> QED
      BY <2>4, <3>2, <3>3
  <2> HIDE DEF S, T, f, b, h
  <2>8. [k \in DOMAIN Append(h, b) |-> f[Append(h, b)[k]]]
            = Append([k \in DOMAIN h |-> f[h[k]]], f[b])
    BY <2>1, <2>2, <2>3, AppendMapped
  <2> QED
    BY <2>5, <2>6, <2>7, <2>8
<1>11. Stream(c)!IsNextWithinLimit(r)
  BY <1>2, <1>3, <1>9 DEF Skipped, Stream!IsNextWithinLimit
<1>12. Stream(c)!LastAccepted' = r
  <2>1. AcceptedFrom(c) = [k \in 1 .. Len(handled[c]) |-> WholeRecord(handled[c][k])]
        /\ Len(handled[c]) \in Nat
    BY DEF TypeOK, AcceptedFrom
  <2> DEFINE a == AcceptedFrom(c)
             z == Append(a, r)
  <2> DEFINE A == {a[k] : k \in DOMAIN a} \cup {r}
  <2>2. a \in Seq(A) /\ r \in A
    BY <2>1
  <2> HIDE DEF a, A, r
  <2>3. z # <<>> /\ z[Len(z)] = r
    BY <2>2
  <2>4. AcceptedFrom(c)' = z
    BY <1>10 DEF a
  <2> HIDE DEF z
  <2> QED
    BY <2>3, <2>4 DEF Stream!LastAccepted
<1> QED
  BY <1>4, <1>10, <1>11, <1>12

\* A byte that is accepted leaves every read of its client tracked.
LEMMA AcceptsTracked ==
  ASSUME TypeOK, BookInv, TagInv, FrameInv, NEW c \in Client, AcceptByte(c), Served(c)
  PROVE  Tracked(reads', pendingReadTags', recoveryReadTag', c)
<1>0. Tracked(reads, pendingReadTags, recoveryReadTag, c)
  BY DEF FrameInv, FrameOf, Served, Attached, InStep
<1>1. reads[c] # <<>> /\ Tag(c) \in pendingReadTags
  BY DEF AcceptByte, Delivers
<1>2. Tracked(Dequeued(c), TagsAfter(Tag(c)), RecoveryAfter(Tag(c)), c)
  BY <1>0, <1>1, DequeueTracked
<1>3. DistinctTags(Dequeued(c), nextReadTag)
  BY <1>1, DequeueKeepsDistinct DEF TagInv
<1>4. Coherent(TagsAfter(Tag(c)), RecoveryAfter(Tag(c)), StartedAfter(Tag(c)))
  BY <1>1, BookInvIsCoherent, RetireKeepsCoherent
<1> DEFINE no == FALSE
<1>5. ReadNext(no, TagsAfter(Tag(c)), RecoveryAfter(Tag(c)), StartedAfter(Tag(c)),
               Dequeued(c))
  BY DEF AcceptByte
<1>6. no \in BOOLEAN /\ c \in Attached
  BY DEF Served
<1> HIDE DEF no
<1> QED
  BY <1>2, <1>3, <1>4, <1>5, <1>6, ReadNextTracked

\* The four outcomes of a byte that is accepted keep the buffer in step with the cursor.
LEMMA AcceptsFramed ==
  ASSUME NoneJustTooLong, TypeOK, BookInv, TagInv, SoloInv, FrameInv,
         NEW c \in Client, AcceptByte(c), Served(c),
         DiscardByte(c) \/ OversizedByte(c) \/ StoreByte(c) \/ CompleteRecord(c)
  PROVE  Framed(c)' /\ Skipped(c)'
<1> DEFINE r == cursor[c].rec
           p == cursor[c].pos
           last == Stream(c)!LastAccepted
<1>1. Framed(c) /\ Skipped(c)
  BY DEF FrameInv, FrameOf, Served, Attached, InStep
<1>2. r \in Nat \ {0} /\ p \in Nat \ {0} /\ MaxLineBytes \in Nat
  BY BoundsAssumption DEF TypeOK
<1>3. r \in DOMAIN Records[c] /\ p <= Records[c][r] /\ Records[c][r] # MaxLineBytes + 1
  <2>1. r \in DOMAIN Records[c]
    BY <1>2, RecordsAssumption DEF AcceptByte, Delivers, Exhausted
  <2> QED
    BY <1>1, <2>1 DEF Framed, NoneJustTooLong
<1>4. Records[c][r] \in Nat
  BY <1>3, RecordsAssumption
<1>5. NextByte(c) = <<c, r, p>> /\ IsNewline(NextByte(c)) = (p = Records[c][r])
  BY DEF NextByte, IsNewline
<1>6. cursor'[c] = IF p = Records[c][r] THEN [rec |-> r + 1, pos |-> 1]
                   ELSE [rec |-> r, pos |-> p + 1]
  <2>1. cursor[c] \in [rec : Nat \ {0}, pos : Nat \ {0}]
    BY DEF TypeOK
  <2>2. cursor'[c] = Advance(cursor[c], NextByte(c))
    BY DEF AcceptByte, TypeOK
  <2> QED
    BY <1>5, <2>1, <2>2, Zenon DEF Advance
<1>8. /\ r' = cursor'[c].rec /\ p' = cursor'[c].pos
      /\ last \in 0 .. r - 1
      /\ \A j \in last + 1 .. r - 1 : Records[c][j] > MaxLineBytes
  BY <1>1 DEF Skipped
<1>9. IF droppingOversizedLine THEN inputBuffer = <<>> /\ p > MaxLineBytes + 1
      ELSE inputBuffer = BytesOf(c, r, p - 1) /\ Len(inputBuffer) = p - 1
           /\ p <= MaxLineBytes + 1
  <2> DEFINE n == p - 1
  <2>1. n \in Nat
    BY <1>2
  <2>2. Len(BytesOf(c, r, n)) = n
    <3> HIDE DEF n, r, p
    <3> QED  BY <2>1, BytesGrow, Zenon
  <2> QED
    BY <1>1, <2>2 DEF Framed
<1>10. ASSUME cursor'[c] = [rec |-> r, pos |-> p + 1], UNCHANGED handled,
              p # Records[c][r],
              IF droppingOversizedLine' THEN inputBuffer' = <<>> /\ p > MaxLineBytes
              ELSE inputBuffer' = BytesOf(c, r, p) /\ p <= MaxLineBytes
       PROVE  Framed(c)' /\ Skipped(c)'
  <2>1. Framed(c)'
    <3>1. p + 1 <= Records[c][r]
      BY <1>2, <1>3, <1>4, <1>10
    <3>2. (p + 1) - 1 = p
      BY <1>2
    <3> QED
      BY <1>2, <1>3, <1>10, <3>1, <3>2 DEF Framed
  <2>2. Skipped(c)'
    <3>1. last' = last
      BY <1>10 DEF AcceptedFrom, Stream!LastAccepted
    <3> QED
      BY <1>8, <1>10, <3>1 DEF Skipped
  <2> QED
    BY <2>1, <2>2
<1>11. ASSUME cursor'[c] = [rec |-> r + 1, pos |-> 1], inputBuffer' = <<>>,
              ~droppingOversizedLine', Skipped(c)'
       PROVE  Framed(c)' /\ Skipped(c)'
  <2>1. Framed(c)'
    <3>1. BytesOf(c, r + 1, 0) = <<>>
      BY NoBytes
    <3>2. r + 1 \in DOMAIN Records[c] => 1 <= Records[c][r + 1]
      BY RecordsAssumption
    <3> QED
      BY <1>2, <1>11, <3>1, <3>2 DEF Framed
  <2> QED
    BY <1>11, <2>1
<1>12. CASE DiscardByte(c)
  <2>1. /\ droppingOversizedLine /\ UNCHANGED handled
        /\ droppingOversizedLine' = (p # Records[c][r])
        /\ inputBuffer' = <<>>
    BY <1>5, <1>9, <1>12, Zenon DEF DiscardByte
  <2>2. CASE p = Records[c][r]
    <3>1. last' = last
      BY <2>1 DEF AcceptedFrom, Stream!LastAccepted
    <3>2. cursor'[c] = [rec |-> r + 1, pos |-> 1]
      BY <1>6, <2>2
    <3>3. Skipped(c)'
      <4>1. Records[c][r] > MaxLineBytes
        BY <1>2, <1>9, <2>1, <2>2
      <4> QED
        BY <1>2, <1>8, <3>1, <3>2, <4>1 DEF Skipped
    <3> QED
      BY <1>11, <2>1, <2>2, <3>2, <3>3
  <2>3. CASE p # Records[c][r]
    <3>1. p > MaxLineBytes
      BY <1>2, <1>9, <2>1
    <3> QED
      BY <1>6, <1>10, <2>1, <2>3, <3>1
  <2> QED
    BY <2>2, <2>3
<1>13. CASE OversizedByte(c)
  <2>1. ~droppingOversizedLine /\ UNCHANGED handled /\ inputBuffer' = <<>>
        /\ droppingOversizedLine' /\ ~(Len(inputBuffer) + 1 <= MaxLineBytes)
    BY <1>13 DEF OversizedByte, Fits
  <2>2. p = MaxLineBytes + 1
    BY <1>2, <1>9, <2>1
  <2>3. p # Records[c][r] /\ p > MaxLineBytes
    BY <1>2, <1>3, <2>2
  <2> QED
    BY <1>6, <1>10, <2>1, <2>3
<1>14. CASE StoreByte(c)
  <2>1. /\ ~droppingOversizedLine /\ UNCHANGED <<handled, droppingOversizedLine>>
        /\ Len(inputBuffer) + 1 <= MaxLineBytes
        /\ p # Records[c][r] /\ inputBuffer' = Append(inputBuffer, NextByte(c))
    BY <1>5, <1>14 DEF StoreByte, Fits
  <2> DEFINE n == p - 1
  <2>2. n \in Nat /\ n + 1 = p
    BY <1>2
  <2>3. inputBuffer = BytesOf(c, r, n) /\ NextByte(c) = <<c, r, n + 1>>
    BY <1>5, <1>9, <2>1, <2>2
  <2>4. inputBuffer' = BytesOf(c, r, p)
    <3> HIDE DEF n, r, p
    <3>1. Append(BytesOf(c, r, n), <<c, r, n + 1>>) = BytesOf(c, r, n + 1)
      BY <2>2, BytesGrow, Zenon
    <3> QED
      BY <2>1, <2>2, <2>3, <3>1
  <2>5. p <= MaxLineBytes
    BY <1>2, <1>9, <2>1
  <2> QED
    BY <1>6, <1>10, <2>1, <2>4, <2>5
<1>15. CASE CompleteRecord(c)
  <2>1. /\ ~droppingOversizedLine' /\ inputBuffer' = <<>> /\ p = Records[c][r]
    BY <1>5, <1>15 DEF CompleteRecord
  <2>2. cursor'[c] = [rec |-> r + 1, pos |-> 1]
    BY <1>6, <2>1
  <2>3. last' = r
    BY <1>15, CompletesNext
  <2>4. Skipped(c)'
    BY <1>2, <2>2, <2>3 DEF Skipped
  <2> QED
    BY <1>11, <2>1, <2>2, <2>4
<1> QED
  BY <1>12, <1>13, <1>14, <1>15

LEMMA AcceptsInStep ==
  ASSUME TypeOK, BookInv, TagInv, SoloInv, FrameInv,
         NEW c \in Client, AcceptByte(c), Served(c),
         DiscardByte(c) \/ OversizedByte(c) \/ StoreByte(c) \/ CompleteRecord(c)
  PROVE  InStep(c)'
<1>1. ASSUME NoneJustTooLong PROVE Framed(c)' /\ Skipped(c)'
  BY <1>1, AcceptsFramed
<1> QED
  BY <1>1, AcceptsTracked DEF InStep, NoneJustTooLong

LEMMA FrameInit == Init => FrameInv
BY DEF Init, FrameInv, FrameOf, Unread

LEMMA FrameStep ==
  ASSUME Churn = "alone"
  PROVE  BookInv /\ TagInv /\ TypeOK /\ SoloInv /\ FrameInv /\ [Next]_vars => FrameInv'
<1> SUFFICES ASSUME BookInv, TagInv, TypeOK, SoloInv, FrameInv, [Next]_vars,
                    NEW c \in Client
             PROVE  FrameOf(c)'
  BY DEF FrameInv
<1>1. /\ status[c] = "new" => Unread(c)
      /\ status[c] = "attached" =>
            running /\ IF connectionCount = 1 THEN InStep(c) ELSE Unread(c)
  BY DEF FrameInv, FrameOf
\* A step that leaves c alone
<1>2. ASSUME UNCHANGED <<reads[c], cursor[c], handled[c]>>
      PROVE  Unread(c)' = Unread(c)
  BY <1>2 DEF Unread
<1>3. ASSUME UNCHANGED <<reads[c], cursor[c], handled[c]>>, status'[c] = "new",
             status[c] = "new"
      PROVE  FrameOf(c)'
  BY <1>1, <1>2, <1>3 DEF FrameOf
<1>4. ASSUME status'[c] = "gone"
      PROVE  FrameOf(c)'
  BY <1>4 DEF FrameOf
<1>5. ASSUME UNCHANGED <<running, connectionCount, pendingReadTags, recoveryReadTag,
                         inputBuffer, droppingOversizedLine, status, reads[c], cursor[c],
                         handled[c]>>
      PROVE  FrameOf(c)'
  <2>1. Tracked(reads, pendingReadTags, recoveryReadTag, c)'
            = Tracked(reads, pendingReadTags, recoveryReadTag, c)
    BY <1>5 DEF Tracked
  <2>2. Framed(c)' = Framed(c)
    BY <1>5 DEF Framed
  <2>3. Skipped(c)' = Skipped(c)
    BY <1>5 DEF Skipped, Stream!LastAccepted, AcceptedFrom
  <2> QED
    BY <1>1, <1>2, <1>5, <2>1, <2>2, <2>3, Zenon DEF FrameOf, InStep, NoneJustTooLong
<1>6. \A d \in Client : status[d] = "attached" => d \in Attached /\ (c \in Attached => c = d)
  BY DEF SoloInv, Attached
<1>7. status[c] = "attached" => Attached = {c} /\ Connections = 1
  BY <1>6, OneConnection DEF Attached, SoloInv
<1>8. CASE TimePasses \/ UNCHANGED vars
  BY <1>5, <1>8 DEF TimePasses, vars, locals
<1>9. CASE Start
  <2>1. /\ ~running /\ UNCHANGED <<status, reads, cursor, handled>>
    BY <1>9 DEF Start
  <2> QED
    BY <1>1, <1>3, <2>1 DEF FrameOf
<1>10. CASE Stop
  <2>1. /\ UNCHANGED <<reads, cursor, handled>> /\ status'[c] # "attached"
        /\ status'[c] = "new" => status[c] = "new"
    BY <1>10 DEF Stop
  <2> QED
    BY <1>3, <2>1 DEF FrameOf
<1>11. ASSUME NEW d \in Client, Attach(d)
       PROVE  FrameOf(c)'
  <2>1. /\ UNCHANGED <<running, connectionCount, pendingReadTags, recoveryReadTag,
                       inputBuffer, droppingOversizedLine, reads, cursor, handled>>
        /\ running /\ status[d] = "new" /\ Settled /\ Attached = {}
        /\ status' = [status EXCEPT ![d] = "attached"]
    BY <1>11 DEF Attach, MayAttach, locals
  <2>2. CASE c = d
    <3>1. connectionCount # 1
      BY <2>1, OneConnection DEF Settled
    <3> QED
      BY <1>1, <1>2, <2>1, <2>2, <3>1 DEF FrameOf, TypeOK
  <2>3. CASE c # d
    <3>1. status'[c] = status[c] /\ status[c] # "attached"
      BY <2>1, <2>3 DEF TypeOK, Attached
    <3> QED
      BY <1>3, <2>1, <3>1 DEF FrameOf
  <2> QED
    BY <2>2, <2>3
<1>12. ASSUME NEW d \in Client, Depart(d)
       PROVE  FrameOf(c)'
  <2>1. /\ UNCHANGED <<running, connectionCount, pendingReadTags, recoveryReadTag,
                       inputBuffer, droppingOversizedLine, reads, cursor, handled>>
        /\ status' = [status EXCEPT ![d] = "gone"] /\ status[d] = "attached"
    BY <1>12 DEF Depart, locals
  <2>2. CASE c = d
    BY <1>4, <2>1, <2>2 DEF TypeOK
  <2>3. CASE c # d
    <3>1. status'[c] = status[c] /\ status[c] # "attached"
      BY <1>7, <2>1, <2>3 DEF TypeOK, Attached
    <3> QED
      BY <1>3, <2>1, <3>1 DEF FrameOf
  <2> QED
    BY <2>2, <2>3
<1>13. CASE PollUnchanged
  <2> DEFINE aged == Connections = 1 /\ pendingReadStartedAt = "aged"
  <2>1. /\ UNCHANGED <<running, connectionCount, inputBuffer, droppingOversizedLine, status,
                       cursor, handled>>
        /\ Connections = connectionCount
        /\ ReadNext(aged, pendingReadTags, recoveryReadTag, pendingReadStartedAt, reads)
    BY <1>13 DEF PollUnchanged
  <2>2. aged \in BOOLEAN
    OBVIOUS
  <2> HIDE DEF aged
  <2>3. CASE status[c] = "attached"
    <3>1. connectionCount = 1 /\ c \in Attached /\ InStep(c)
      BY <1>1, <1>7, <2>1, <2>3
    <3>2. Tracked(reads', pendingReadTags', recoveryReadTag', c)
      <4>1. Coherent(pendingReadTags, recoveryReadTag, pendingReadStartedAt)
        BY BookInvIsCoherent DEF CoherentLocals
      <4> QED
        BY <2>1, <2>2, <3>1, <4>1, ReadNextTracked DEF InStep, TagInv
    <3>3. (Framed(c) => Framed(c)') /\ (Skipped(c) => Skipped(c)')
      BY <2>1 DEF Framed, Skipped, Stream!LastAccepted, AcceptedFrom
    <3> QED
      BY <1>1, <2>1, <2>3, <3>1, <3>2, <3>3 DEF FrameOf, InStep, NoneJustTooLong
  <2>4. CASE status[c] # "attached"
    <3>1. reads'[c] = reads[c]
      BY <2>1, <2>4, ReadNextLeaves DEF Attached
    <3> QED
      BY <1>3, <2>1, <2>4, <3>1 DEF FrameOf
  <2> QED
    BY <2>3, <2>4
<1>14. CASE PollChanged
  <2> DEFINE no == FALSE
  <2>1. /\ UNCHANGED <<running, status, cursor, handled>>
        /\ running /\ inputBuffer' = <<>> /\ ~droppingOversizedLine'
        /\ Connections # connectionCount /\ connectionCount' = Connections
        /\ ReadNext(no, {}, None, "none", reads)
    BY <1>14 DEF PollChanged, ResetInput
  <2>2. no \in BOOLEAN
    OBVIOUS
  <2> HIDE DEF no
  <2>3. CASE status[c] = "attached"
    <3>1. connectionCount # 1 /\ connectionCount' = 1 /\ c \in Attached /\ Unread(c)
      BY <1>1, <1>7, <2>1, <2>3
    <3>2. Tracked(reads', pendingReadTags', recoveryReadTag', c)
      <4>1. Coherent({}, None, "none")
        BY DEF Coherent
      <4>2. Tracked(reads, {}, None, c)
        BY <3>1 DEF Unread, Tracked
      <4> QED
        BY <2>1, <2>2, <3>1, <4>1, <4>2, ReadNextTracked DEF TagInv
    <3>3. Framed(c)'
      <4>1. BytesOf(c, 1, 0) = <<>>
        BY NoBytes
      <4>2. 1 \in DOMAIN Records[c] => 1 <= Records[c][1]
        BY RecordsAssumption
      <4> QED
        BY <2>1, <3>1, <4>1, <4>2, BoundsAssumption DEF Unread, Framed
    <3>4. Skipped(c)'
      BY <2>1, <3>1 DEF Unread, Skipped, Stream!LastAccepted, AcceptedFrom
    <3> QED
      BY <2>1, <2>3, <3>1, <3>2, <3>3, <3>4 DEF FrameOf, InStep
  <2>4. CASE status[c] # "attached"
    <3>1. reads'[c] = reads[c]
      BY <2>1, <2>4, ReadNextLeaves DEF Attached
    <3> QED
      BY <1>3, <2>1, <2>4, <3>1 DEF FrameOf
  <2> QED
    BY <2>3, <2>4
<1>15. ASSUME NEW d \in Client, LateCallback(d)
       PROVE  FrameOf(c)'
  <2>1. /\ UNCHANGED <<running, connectionCount, pendingReadTags, recoveryReadTag,
                       inputBuffer, droppingOversizedLine, status, handled>>
        /\ reads[d] # <<>> /\ reads' = Dequeued(d) /\ status[d] # "new"
        /\ cursor' = [cursor EXCEPT ![d] = Advance(@, NextByte(d))]
        /\ Tag(d) \notin pendingReadTags
    BY <1>15 DEF LateCallback, Delivers, locals
  <2>2. CASE c = d
    <3>1. status[c] # "attached"
      <4>1. ~Unread(c)
        BY <2>1, <2>2 DEF Unread
      <4>2. 1 \in DOMAIN reads[d] /\ Tag(d) = reads[d][1]
        BY <2>1 DEF TypeOK, Tag
      <4>3. ~InStep(c)
        BY <2>1, <2>2, <4>2 DEF InStep, Tracked
      <4> QED
        BY <1>1, <4>1, <4>3
    <3>2. status[c] = "gone"
      BY <2>1, <2>2, <3>1 DEF TypeOK
    <3> QED
      BY <1>4, <2>1, <3>2
  <2>3. CASE c # d
    <3>1. UNCHANGED <<reads[c], cursor[c], handled[c]>>
      BY <2>1, <2>3 DEF TypeOK, Dequeued
    <3> QED
      BY <1>5, <2>1, <3>1
  <2> QED
    BY <2>2, <2>3
<1>16. ASSUME NEW d \in Client, CrowdedCallback(d)
       PROVE  FrameOf(c)'
  <2>1. /\ UNCHANGED <<running, connectionCount, status, handled>>
        /\ reads' = Dequeued(d) /\ status[d] # "new"
        /\ cursor' = [cursor EXCEPT ![d] = Advance(@, NextByte(d))]
        /\ Tag(d) \in pendingReadTags /\ (~running \/ Connections # 1)
    BY <1>16 DEF CrowdedCallback, Delivers
  <2>2. running
    BY <2>1 DEF BookInv, ReadBookkeeping, PendingNeedsOneClient
  <2>3. status[c] # "attached"
    BY <1>7, <2>1, <2>2
  <2>4. status[c] = "new" => UNCHANGED <<reads[c], cursor[c], handled[c]>>
    BY <2>1 DEF TypeOK, Dequeued
  <2> QED
    BY <1>3, <2>1, <2>3, <2>4 DEF FrameOf
<1>17. ASSUME NEW d \in Client,
              DiscardByte(d) \/ OversizedByte(d) \/ StoreByte(d) \/ CompleteRecord(d)
       PROVE  FrameOf(c)'
  <2>1. AcceptByte(d)
    BY <1>17 DEF DiscardByte, OversizedByte, StoreByte, CompleteRecord
  <2>2. Served(d)
    BY <2>1, AcceptedIsServed
  <2>3. UNCHANGED <<running, connectionCount, status>>
    BY <2>1 DEF AcceptByte
  <2>4. CASE c = d
    <3>1. InStep(c)'
      BY <1>17, <2>1, <2>2, <2>4, AcceptsInStep
    <3> QED
      BY <1>1, <2>2, <2>3, <2>4, <3>1 DEF FrameOf, Served, Attached
  <2>5. CASE c # d
    <3>1. status[c] # "attached" /\ c \notin Attached
      BY <2>2, <2>5 DEF Served, Attached
    <3>2. reads'[c] = Dequeued(d)[c]
      <4> DEFINE no == FALSE
      <4>1. ReadNext(no, TagsAfter(Tag(d)), RecoveryAfter(Tag(d)), StartedAfter(Tag(d)),
                     Dequeued(d))
        BY <2>1 DEF AcceptByte
      <4> HIDE DEF no
      <4> QED
        BY <3>1, <4>1, ReadNextLeaves
    <3>3. UNCHANGED <<reads[c], cursor[c], handled[c]>>
      <4>1. handled'[c] = handled[c]
        BY <1>17, <2>5 DEF DiscardByte, OversizedByte, StoreByte, CompleteRecord, TypeOK
      <4>2. cursor'[c] = cursor[c] /\ Dequeued(d)[c] = reads[c]
        BY <2>1, <2>5 DEF AcceptByte, TypeOK, Dequeued
      <4> QED
        BY <3>2, <4>1, <4>2
    <3> QED
      BY <1>3, <2>3, <3>1, <3>3 DEF FrameOf
  <2> QED
    BY <2>4, <2>5
<1> QED
  BY <1>8, <1>9, <1>10, <1>11, <1>12, <1>13, <1>14, <1>15, <1>16, <1>17
     DEF Next, Poll, Callback

\* Every step of the read loop is one of RecordStream for each client, or none.
LEMMA StreamStep ==
  ASSUME NoneJustTooLong, BookInv, TypeOK, SoloInv, FrameInv, [Next]_vars
  PROVE  [\A c \in Client : [Stream(c)!Accept]_(AcceptedFrom(c))]_handled
<1> SUFFICES ASSUME NEW c \in Client, handled' # handled
             PROVE  [Stream(c)!Accept]_(AcceptedFrom(c))
  OBVIOUS
<1>1. PICK d \in Client : CompleteRecord(d)
  BY DEF Next, vars, locals, Start, Stop, Poll, PollUnchanged, PollChanged, TimePasses,
         Attach, Depart, Callback, LateCallback, CrowdedCallback, DiscardByte,
         OversizedByte, StoreByte
<1>2. CASE c = d
  BY <1>1, <1>2, CompletesNext DEF Stream!Accept
<1>3. CASE c # d
  <2>1. handled'[c] = handled[c]
    BY <1>1, <1>3 DEF CompleteRecord, TypeOK
  <2> QED
    BY <2>1 DEF AcceptedFrom
<1> QED
  BY <1>2, <1>3

LEMMA FrameInvariant ==
  ASSUME Churn = "alone", MaxStarts <= 1
  PROVE  Spec => [](BookInv /\ TagInv /\ TypeOK /\ SoloInv /\ FrameInv)
<1>1. Churn # "any"
  OBVIOUS
<1>2. BookInv /\ TagInv /\ TypeOK /\ SoloInv /\ FrameInv /\ [Next]_vars
        => (BookInv /\ TagInv /\ TypeOK /\ SoloInv /\ FrameInv)'
  BY <1>1, BookStep, TagStep, TypeStep, SoloStep, FrameStep
<1> QED
  BY <1>2, BookInit, TagInit, TypeInit, SoloInit, FrameInit, PTL DEF Spec

\* The read loop implements RecordStream for each client that comes when the last has
\* gone, over any refused and recovery reads and late callbacks: what reaches
\* protocol.decode is every record within the bound, whole, once and in order.  A record
\* that is exactly one byte too long takes the next one with it (ReadLoopBoundary.cfg).
THEOREM ReadLoopRefinesStream ==
  ASSUME Churn = "alone", MaxStarts <= 1, NoneJustTooLong
  PROVE  Spec => StreamRefined
<1>1. Init => \A c \in Client : Stream(c)!Init
  BY DEF Init, Stream!Init, AcceptedFrom
<1>2. BookInv /\ TypeOK /\ SoloInv /\ FrameInv /\ [Next]_vars
        => [\A c \in Client : [Stream(c)!Accept]_(AcceptedFrom(c))]_handled
  BY StreamStep
<1> QED
  BY <1>1, <1>2, FrameInvariant, PTL DEF Spec, StreamRefined

\* Of the reads of a client that came when the last had gone every one is tracked, and no
\* more are tracked than an ordinary and a recovery read: none piles up on the socket.
THEOREM ReadsStayBounded ==
  ASSUME Churn = "alone", MaxStarts <= 1
  PROVE  Spec => []ReadsBounded
<1>1. BookInv /\ TagInv /\ TypeOK /\ SoloInv /\ FrameInv => ReadsBounded
  <2> SUFFICES ASSUME BookInv, TagInv, TypeOK, SoloInv, FrameInv, NEW c \in Attached
               PROVE  Len(reads[c]) <= 2
    BY DEF ReadsBounded
  <2>1. c \in Client /\ status[c] = "attached"
    BY DEF Attached
  <2>2. reads[c] \in Seq(Nat) /\ Len(reads[c]) \in Nat
    BY <2>1 DEF TagInv, DistinctTags
  <2>3. CASE reads[c] = <<>>
    BY <2>3
  <2>4. CASE Tracked(reads, pendingReadTags, recoveryReadTag, c)
    <3> SUFFICES ASSUME Len(reads[c]) > 2 PROVE FALSE
      BY <2>2
    <3>1. 1 \in DOMAIN reads[c] /\ 2 \in DOMAIN reads[c]
      BY <2>2
    <3>2. reads[c][1] # reads[c][2]
      BY <2>1, <3>1 DEF TagInv, DistinctTags
    <3>3. {reads[c][1], reads[c][2]} \subseteq pendingReadTags \ {recoveryReadTag}
      BY <2>2, <2>4, <3>1 DEF Tracked
    <3> QED
      BY <3>2, <3>3 DEF BookInv, ReadBookkeeping, OneOrdinaryRead
  <2> QED
    BY <2>1, <2>3, <2>4 DEF FrameInv, FrameOf, InStep, Unread
<1> QED
  BY <1>1, FrameInvariant, PTL

-----------------------------------------------------------------------------
\* The server as the read loop and the event bus over one listener.

LEMMA LinkKept == UNCHANGED <<running, status>> => Link' = Link
BY DEF Link, Connections, Attached

LEMMA CallbackKeepsLink ==
  ASSUME NEW c \in Client, Callback(c)
  PROVE  Link' = Link
<1>1. UNCHANGED <<running, status>>
  BY DEF Callback, LateCallback, CrowdedCallback, DiscardByte, OversizedByte, StoreByte,
     CompleteRecord, AcceptByte, locals
<1> QED
  BY <1>1, LinkKept

LEMMA PollKeepsLink == Poll => Link' = Link
<1>1. Poll => UNCHANGED <<running, status>>
  BY DEF Poll, PollUnchanged, PollChanged
<1> QED
  BY <1>1, LinkKept

LEMMA ServerInits == ServerInit => Init /\ Bus!Init
BY DEF ServerInit

LEMMA ServerSteps ==
  ASSUME [ServerNext]_serverVars
  PROVE  [Next]_vars /\ [Bus!Next]_(Bus!vars)
<1>1. CASE ServerStart
  BY <1>1 DEF ServerStart, Next, Bus!Next
<1>2. CASE ServerStop
  BY <1>2 DEF ServerStop, Next, Bus!Next
<1>3. CASE ServerPoll
  <2>1. Link' = Link
    BY <1>3, PollKeepsLink DEF ServerPoll
  <2> QED
    BY <1>3, <2>1 DEF ServerPoll, Next, Bus!Next, Bus!vars, bus
<1>4. CASE TimePasses /\ UNCHANGED <<bus, traffic>>
  <2>1. Link' = Link
    BY <1>4, LinkKept DEF TimePasses
  <2> QED
    BY <1>4, <2>1 DEF Next, Bus!vars, bus
<1>5. ASSUME NEW c \in Client, ClientChanges(c)
      PROVE  [Next]_vars /\ [Bus!Next]_(Bus!vars)
  BY <1>5 DEF ClientChanges, Next, Bus!Next, Bus!vars, bus
<1>6. ASSUME NEW c \in Client, ServerReads(c)
      PROVE  [Next]_vars /\ [Bus!Next]_(Bus!vars)
  <2>1. Callback(c)
    BY <1>6 DEF ServerReads, Callback
  <2>2. Link' = Link
    BY <2>1, CallbackKeepsLink
  <2> QED
    BY <1>6, <2>1, <2>2 DEF ServerReads, Next, Bus!vars, bus
<1>7. ASSUME NEW c \in Client, ServerRequests(c)
      PROVE  [Next]_vars /\ [Bus!Next]_(Bus!vars)
  <2>1. Callback(c)
    BY <1>7 DEF ServerRequests, Callback
  <2>2. Bus!Next
    BY <1>7 DEF ServerRequests, Bus!Next
  <2> QED
    BY <2>1, <2>2 DEF Next
<1>8. ASSUME NEW c \in Client, ServerRejects(c)
      PROVE  [Next]_vars /\ [Bus!Next]_(Bus!vars)
  <2>1. Callback(c)
    BY <1>8 DEF ServerRejects, Callback
  <2>2. Link' = Link
    BY <2>1, CallbackKeepsLink
  <2> QED
    BY <1>8, <2>1, <2>2 DEF ServerRejects, Next, Bus!vars, bus
<1>9. ASSUME NEW name \in Event, NEW data \in Data \cup {Empty}, NEW include \in BOOLEAN,
             ServerEmits(name, data, include)
      PROVE  [Next]_vars /\ [Bus!Next]_(Bus!vars)
  BY <1>9 DEF ServerEmits, Bus!Next
<1>10. ASSUME NEW name \in Event, ServerTimerFires(name)
       PROVE  [Next]_vars /\ [Bus!Next]_(Bus!vars)
  BY <1>10 DEF ServerTimerFires, Bus!Next
<1>11. CASE UNCHANGED serverVars
  <2>1. Link' = Link
    BY <1>11, LinkKept DEF serverVars, vars, locals
  <2> QED
    BY <1>11, <2>1 DEF serverVars, vars, Bus!vars, bus
<1> QED
  BY <1>1, <1>2, <1>3, <1>4, <1>5, <1>6, <1>7, <1>8, <1>9, <1>10, <1>11 DEF ServerNext

\* The server does nothing but what its read loop and its event bus do: what is proved
\* of either holds of the two composed over one listener, "exactly one client is
\* connected" being what send() asks of it.
THEOREM ServerComposes == ServerSpec => Spec /\ Bus!Spec
BY ServerInits, ServerSteps, PTL DEF ServerSpec, Spec, Bus!Spec

\* In the server as a whole too, the read bookkeeping is coherent.
THEOREM ServerReadsCoherently == ServerSpec => []ReadBookkeeping
BY ServerComposes, BookkeepingCoherent, PTL

\* In the server as a whole too, what is handled of a client is what RecordStream promises.
THEOREM ServerRefinesStream ==
  ASSUME Churn = "alone", MaxStarts <= 1, NoneJustTooLong
  PROVE  ServerSpec => StreamRefined
BY ServerComposes, ReadLoopRefinesStream, PTL

\* In the server as a whole, too, at most the ordinary and the recovery read are queued
\* on the socket of a client that is alone from connecting to disconnecting.
THEOREM ServerReadsBounded ==
  ASSUME Churn = "alone", MaxStarts <= 1
  PROVE  ServerSpec => []ReadsBounded
BY ServerComposes, ReadsStayBounded, PTL

-----------------------------------------------------------------------------
\* What a client gets is its own: at any time the bus has at most one owner.

\* The bus as the departure of the last client leaves it
Idle ==
    /\ \A p \in Pattern : subscriptions[p] = "none"
    /\ queue = <<>>
    /\ \A name \in Event : pending[name] = Nil

\* The read loop can take bytes of c only.
ReadsOnly(c) == Attached \subseteq {c} /\ TagsOf(reads, pendingReadTags, c)

\* All that the bus keeps is for c: it asked for what is subscribed, queued or pending.
Serves(c) ==
    /\ \A p \in Pattern : subscriptions[p] # "none" => <<c, p, client>> \in asked
    /\ \A k \in DOMAIN queue :
            AskedFor(asked, c, queue[k].event, queue[k].payload.for)
    /\ \A name \in Event :
            pending[name] # Nil => AskedFor(asked, c, name, pending[name].for)

OwnTyped ==
    /\ queue \in Seq(Bus!Message)
    /\ wire \in Seq(Bus!Message)
    /\ pending \in [Event -> Bus!Payload \cup {Nil}]
    /\ subscriptions \in [Pattern -> {"none", "data", "nodata"}]
    /\ sequence \in Nat
    /\ client \in Nat
    /\ log \in Seq(Bus!Entry)
    /\ to \in Seq(Client)
    /\ Len(to) = Len(wire)

\* c owns what the bus holds, and nobody does when no client is served.
OwnedBy(c) ==
    /\ OwnTyped
    /\ (running /\ connectionCount = 1) \/ Idle
    /\ ReadsOnly(c)
    /\ Serves(c)
    /\ OwnTraffic

OwnInv == \E c \in Client \cup {None} : OwnedBy(c)

LEMMA SplitAt ==
  ASSUME NEW S, NEW s \in Seq(S), NEW n \in 0 .. Len(s)
  PROVE  /\ SubSeq(s, 1, n) \in Seq(S)
         /\ Len(SubSeq(s, 1, n)) = n
         /\ \A i \in 1 .. n : i \in DOMAIN s /\ SubSeq(s, 1, n)[i] = s[i]
         /\ SubSeq(s, n + 1, Len(s)) \in Seq(S)
         /\ \A i \in DOMAIN SubSeq(s, n + 1, Len(s)) :
              n + i \in DOMAIN s /\ SubSeq(s, n + 1, Len(s))[i] = s[n + i]
OBVIOUS

LEMMA ConcatFrom ==
  ASSUME NEW S, NEW s \in Seq(S), NEW t \in Seq(S)
  PROVE  /\ s \o t \in Seq(S)
         /\ Len(s \o t) = Len(s) + Len(t)
         /\ \A i \in DOMAIN (s \o t) :
              \/ i \in DOMAIN s /\ (s \o t)[i] = s[i]
              \/ i - Len(s) \in DOMAIN t /\ i > Len(s) /\ (s \o t)[i] = t[i - Len(s)]
OBVIOUS

\* With one client connected, the owner of the bus receives.
LEMMA ReceiverIsOwner ==
  ASSUME NEW c, Attached \subseteq {c}, Connections = 1
  PROVE  c \in Client /\ Attached = {c} /\ Receiver = c
<1>1. PICK d \in Client : Attached = {d}
  BY OneConnection
<1>2. d = c
  BY <1>1
<1> QED
  BY <1>1, <1>2 DEF Receiver

LEMMA AskedGrows ==
  ASSUME NEW A, NEW B, A \subseteq B, NEW c, NEW name, NEW n, AskedFor(A, c, name, n)
  PROVE  AskedFor(B, c, name, n)
BY DEF AskedFor

\* What a flush writes goes to the owner of what is queued.
LEMMA FlushOwned ==
  ASSUME OwnTyped, OwnEvents, NEW c, Attached \subseteq {c}, asked \subseteq asked',
         NEW q \in Seq(Bus!Message), Bus!Flush(q), Written,
         \A k \in DOMAIN q : AskedFor(asked', c, q[k].event, q[k].payload.for)
  PROVE  /\ queue' \in Seq(Bus!Message)
         /\ wire' \in Seq(Bus!Message)
         /\ to' \in Seq(Client)
         /\ Len(to') = Len(wire')
         /\ \A k \in DOMAIN queue' :
                AskedFor(asked', c, queue'[k].event, queue'[k].payload.for)
         /\ \A k \in DOMAIN wire' :
                AskedFor(asked', to'[k], wire'[k].event, wire'[k].payload.for)
<1>1. PICK n \in 0 .. Len(q) :
        /\ Bus!MaySend(q, n)
        /\ wire' = wire \o SubSeq(q, 1, n)
        /\ queue' = SubSeq(q, n + 1, Len(q))
  BY DEF Bus!Flush
<1> DEFINE sent == SubSeq(q, 1, n)
           rcv == [k \in 1 .. n |-> Receiver]
<1>2. /\ sent \in Seq(Bus!Message) /\ Len(sent) = n
      /\ \A i \in 1 .. n : i \in DOMAIN q /\ sent[i] = q[i]
  BY SplitAt
<1>3. /\ queue' \in Seq(Bus!Message)
      /\ \A i \in DOMAIN queue' : n + i \in DOMAIN q /\ queue'[i] = q[n + i]
  BY <1>1, SplitAt
<1>4. wire \in Seq(Bus!Message) /\ to \in Seq(Client) /\ Len(to) = Len(wire)
  BY DEF OwnTyped
<1>5. n > 0 => Connections = 1
  BY <1>1 DEF Bus!MaySend, Link
<1>6. n > 0 => Receiver = c /\ c \in Client
  BY <1>5, ReceiverIsOwner
<1>7. rcv \in Seq(Client) /\ Len(rcv) = n
  <2>1. n \in Nat
    OBVIOUS
  <2>2. \A k \in 1 .. n : Receiver \in Client
    BY <1>6, <2>1
  <2>3. rcv \in [1 .. n -> Client]
    BY <2>2
  <2> QED
    BY <2>1, <2>3
<1> HIDE DEF sent
<1>8. /\ wire' = wire \o sent
      /\ wire' \in Seq(Bus!Message) /\ Len(wire') = Len(wire) + n
      /\ \A i \in DOMAIN wire' :
            \/ i \in DOMAIN wire /\ wire'[i] = wire[i]
            \/ i - Len(wire) \in DOMAIN sent /\ i > Len(wire) /\ wire'[i] = sent[i - Len(wire)]
  <2>1. wire' = wire \o sent
    BY <1>1 DEF sent
  <2>2. sent \in Seq(Bus!Message) /\ Len(sent) = n
    BY <1>2
  <2> DEFINE both == wire \o sent
  <2>3. /\ both \in Seq(Bus!Message) /\ Len(both) = Len(wire) + Len(sent)
        /\ \A i \in DOMAIN both :
            \/ i \in DOMAIN wire /\ both[i] = wire[i]
            \/ i - Len(wire) \in DOMAIN sent /\ i > Len(wire) /\ both[i] = sent[i - Len(wire)]
    BY <1>4, <2>2, ConcatFrom, Zenon
  <2>4. both = wire'
    BY <2>1
  <2> HIDE DEF both
  <2> QED
    BY <2>1, <2>2, <2>3, <2>4
<1>9. to' = to \o rcv
  <2>1. Len(wire') - Len(wire) = n
    BY <1>4, <1>8
  <2> QED
    BY <2>1 DEF Written
<1> HIDE DEF rcv
<1>10. /\ to' \in Seq(Client) /\ Len(to') = Len(to) + n
       /\ \A i \in DOMAIN to' :
            \/ i \in DOMAIN to /\ to'[i] = to[i]
            \/ i - Len(to) \in DOMAIN rcv /\ i > Len(to) /\ to'[i] = rcv[i - Len(to)]
  <2> DEFINE both == to \o rcv
  <2>1. /\ both \in Seq(Client) /\ Len(both) = Len(to) + Len(rcv)
        /\ \A i \in DOMAIN both :
            \/ i \in DOMAIN to /\ both[i] = to[i]
            \/ i - Len(to) \in DOMAIN rcv /\ i > Len(to) /\ both[i] = rcv[i - Len(to)]
    BY <1>4, <1>7, ConcatFrom, Zenon
  <2>2. both = to'
    BY <1>9
  <2> HIDE DEF both
  <2> QED
    BY <1>7, <2>1, <2>2
<1>11. Len(to') = Len(wire')
  BY <1>4, <1>8, <1>10
<1>12. ASSUME NEW k \in DOMAIN queue'
       PROVE  AskedFor(asked', c, queue'[k].event, queue'[k].payload.for)
  BY <1>3
<1>13. ASSUME NEW k \in DOMAIN wire'
       PROVE  AskedFor(asked', to'[k], wire'[k].event, wire'[k].payload.for)
  <2>1. k \in DOMAIN to'
    BY <1>8, <1>10, <1>11
  <2>2. k \in Nat /\ Len(wire) \in Nat
    BY <1>4, <1>8
  <2>3. CASE k \in DOMAIN wire /\ wire'[k] = wire[k]
    <3>1. k \in DOMAIN to /\ to'[k] = to[k]
      BY <1>4, <1>10, <2>1, <2>2, <2>3
    <3>2. AskedFor(asked, to[k], wire[k].event, wire[k].payload.for)
      BY <2>3 DEF OwnEvents
    <3> QED
      BY <2>3, <3>1, <3>2, AskedGrows
  <2>4. CASE k - Len(wire) \in DOMAIN sent /\ k > Len(wire) /\ wire'[k] = sent[k - Len(wire)]
    <3> DEFINE i == k - Len(wire)
    <3>1. i \in 1 .. n
      BY <1>2, <2>4
    <3>2. to'[k] = rcv[i]
      BY <1>4, <1>10, <2>1, <2>2, <2>4
    <3>3. rcv[i] = c
      BY <1>6, <3>1 DEF rcv
    <3>4. i \in DOMAIN q /\ wire'[k] = q[i]
      BY <1>2, <2>4, <3>1
    <3> QED
      BY <3>2, <3>3, <3>4
  <2> QED
    BY <1>8, <2>3, <2>4
<1> QED
  BY <1>3, <1>8, <1>10, <1>11, <1>12, <1>13

-----------------------------------------------------------------------------
\* The read loop

\* No step of the read loop but Attach gives it another client.
LEMMA ReadsStep ==
  ASSUME NEW c, TagInv, ReadsOnly(c),
         \/ Start \/ Stop \/ Poll \/ TimePasses
         \/ \E d \in Client : Depart(d) \/ Callback(d)
         \/ UNCHANGED vars
  PROVE  ReadsOnly(c)'
<1> USE DEF ReadsOnly
<1>1. CASE Start
  BY <1>1 DEF Start, Attached, TagsOf
<1>2. CASE Stop
  BY <1>2 DEF Stop, Attached, TagsOf
<1>3. CASE TimePasses \/ UNCHANGED vars
  BY <1>3 DEF TimePasses, vars, locals, Attached, TagsOf
<1>4. CASE Poll
  <2>1. Attached' = Attached
    BY <1>4 DEF Poll, PollUnchanged, PollChanged, Attached
  <2>2. PICK recovery, tags, recTag, startedAt :
            /\ ReadNext(recovery, tags, recTag, startedAt, reads)
            /\ tags \subseteq pendingReadTags
    <3> DEFINE aged == Connections = 1 /\ pendingReadStartedAt = "aged"
    <3>1. CASE PollUnchanged
      <4>1. ReadNext(aged, pendingReadTags, recoveryReadTag, pendingReadStartedAt, reads)
        BY <3>1 DEF PollUnchanged
      <4> HIDE DEF aged
      <4> QED
        BY <4>1
    <3>2. CASE PollChanged
      <4>1. ReadNext(FALSE, {}, None, "none", reads)
        BY <3>2 DEF PollChanged
      <4>2. {} \subseteq pendingReadTags
        OBVIOUS
      <4> DEFINE no == FALSE
      <4>3. ReadNext(no, {}, None, "none", reads)
        BY <4>1
      <4> HIDE DEF no
      <4> QED
        BY <4>2, <4>3
    <3> QED
      BY <1>4, <3>1, <3>2 DEF Poll
  <2>3. TagsOf(reads, tags, c)
    BY <2>2 DEF TagsOf
  <2>4. TagsOf(reads', pendingReadTags', c)
    BY <2>2, <2>3, ReadNextOwned DEF TagInv
  <2> QED
    BY <2>1, <2>4 DEF TagsOf
<1>5. ASSUME NEW d \in Client, Depart(d)
      PROVE  ReadsOnly(c)'
  <2>1. Attached' \subseteq Attached
    <3>1. \A e \in Client : status'[e] = "attached" => status[e] = "attached"
      BY <1>5 DEF Depart
    <3> QED
      BY <3>1 DEF Attached
  <2> QED
    BY <1>5, <2>1 DEF Depart, locals, TagsOf
<1>6. ASSUME NEW d \in Client, Callback(d)
      PROVE  ReadsOnly(c)'
  <2>1. Attached' = Attached /\ reads[d] # <<>>
    BY <1>6 DEF Callback, LateCallback, CrowdedCallback, DiscardByte, OversizedByte,
                StoreByte, CompleteRecord, AcceptByte, Delivers, Attached, locals
  <2>2. /\ TagsOf(Dequeued(d), pendingReadTags, c)
        /\ TagsOf(Dequeued(d), TagsAfter(Tag(d)), c)
    BY <2>1, DequeueOwned
  <2>3. TagsOf(reads', pendingReadTags', c)
    <3>1. CASE LateCallback(d)
      BY <2>2, <3>1 DEF LateCallback, locals
    <3>2. CASE CrowdedCallback(d)
      BY <2>2, <3>2 DEF CrowdedCallback
    <3>3. CASE AcceptByte(d)
      <4>1. DistinctTags(Dequeued(d), nextReadTag)
        BY <2>1, DequeueKeepsDistinct DEF TagInv
      <4> QED
        BY <2>2, <3>3, <4>1, ReadNextOwned DEF AcceptByte
    <3> QED
      BY <1>6, <3>1, <3>2, <3>3
         DEF Callback, DiscardByte, OversizedByte, StoreByte, CompleteRecord
  <2> QED
    BY <2>1, <2>3 DEF TagsOf
<1> QED
  BY <1>1, <1>2, <1>3, <1>4, <1>5, <1>6

-----------------------------------------------------------------------------
\* The bus

BusKept ==
    UNCHANGED <<queue, pending, subscriptions, client, sequence, wire, log, to, asked>>

\* Without a message written nobody has received one.
LEMMA NothingWritten ==
  ASSUME OwnTyped, Written, UNCHANGED wire
  PROVE  to' = to
<1>1. to \in Seq(Client) /\ Len(wire) \in Nat
  BY DEF OwnTyped
<1>2. Len(wire') - Len(wire) = 0
  BY <1>1
<1>3. to' = to \o [k \in 1 .. 0 |-> Receiver]
  BY <1>2 DEF Written
<1>4. [k \in 1 .. 0 |-> Receiver] = <<>>
  OBVIOUS
<1> QED
  BY <1>1, <1>3, <1>4

LEMMA KeptOwned ==
  ASSUME NEW c, OwnTyped, Serves(c), OwnEvents, BusKept
  PROVE  OwnTyped' /\ Serves(c)' /\ OwnEvents' /\ (Idle => Idle')
<1> USE DEF BusKept
<1>1. OwnTyped'
  BY DEF OwnTyped
<1>2. Serves(c)'
  BY DEF Serves, AskedFor
<1>3. OwnEvents'
  BY DEF OwnEvents, AskedFor
<1>4. Idle => Idle'
  BY DEF Idle
<1> QED
  BY <1>1, <1>2, <1>3, <1>4

\* client_disconnected and stop leave the bus idle.
LEMMA ForgetOwned ==
  ASSUME NEW c, OwnTyped, OwnEvents, Bus!ForgetClient, UNCHANGED <<sequence, wire, to, asked>>
  PROVE  OwnTyped' /\ Idle' /\ Serves(c)' /\ OwnEvents'
<1> USE DEF Bus!ForgetClient, Bus!ClearPending, Bus!NoSubscriptions
<1>1. OwnTyped'
  BY DEF OwnTyped
<1>2. Idle'
  BY DEF Idle
<1>3. Serves(c)'
  BY DEF Serves
<1>4. OwnEvents'
  BY DEF OwnEvents, AskedFor
<1> QED
  BY <1>1, <1>2, <1>3, <1>4

LEMMA EnqueueFrom ==
  ASSUME NEW S, NEW q \in Seq(S), NEW m \in S
  PROVE  /\ Bus!Enqueue(q, m) \in Seq(S)
         /\ \A k \in DOMAIN Bus!Enqueue(q, m) :
              \/ Bus!Enqueue(q, m)[k] = m
              \/ \E j \in DOMAIN q : Bus!Enqueue(q, m)[k] = q[j]
<1> DEFINE rest == IF Len(q) >= MaxQueueSize THEN Tail(q) ELSE q
<1>1. /\ rest \in Seq(S)
      /\ \A k \in DOMAIN rest : \E j \in DOMAIN q : rest[k] = q[j]
  <2>1. CASE Len(q) >= MaxQueueSize
    <3>1. q # <<>>
      BY <2>1, BusAssumption DEF Bus!SizeAssumption
    <3>2. /\ Tail(q) \in Seq(S)
          /\ \A k \in DOMAIN Tail(q) : k + 1 \in DOMAIN q /\ Tail(q)[k] = q[k + 1]
      BY <3>1
    <3> QED
      BY <2>1, <3>2
  <2>2. CASE ~(Len(q) >= MaxQueueSize)
    BY <2>2
  <2> QED
    BY <2>1, <2>2
<1> HIDE DEF rest
<1>2. /\ Append(rest, m) \in Seq(S)
      /\ \A k \in DOMAIN Append(rest, m) :
            \/ k \in DOMAIN rest /\ Append(rest, m)[k] = rest[k]
            \/ k = Len(rest) + 1 /\ Append(rest, m)[k] = m
  BY <1>1, AppendFrom, Zenon
<1>3. Bus!Enqueue(q, m) = Append(rest, m)
  BY DEF Bus!Enqueue, rest
<1> QED
  BY <1>1, <1>2, <1>3

\* A message of the owner is numbered, enqueued and perhaps written.
LEMMA NumberedOwned ==
  ASSUME NEW c, Attached \subseteq {c}, OwnTyped, OwnEvents, Serves(c),
         NEW name \in Event, NEW payload \in Bus!Payload,
         AskedFor(asked, c, name, payload.for),
         Bus!Flush(Bus!Enqueue(queue, Bus!Number(name, payload))),
         Written, UNCHANGED asked
  PROVE  /\ queue' \in Seq(Bus!Message)
         /\ wire' \in Seq(Bus!Message)
         /\ to' \in Seq(Client)
         /\ Len(to') = Len(wire')
         /\ \A k \in DOMAIN queue' :
                AskedFor(asked', c, queue'[k].event, queue'[k].payload.for)
         /\ OwnEvents'
<1> DEFINE m == Bus!Number(name, payload)
           q == Bus!Enqueue(queue, m)
<1>1. m \in Bus!Message /\ m.event = name /\ m.payload = payload
  BY DEF OwnTyped, Bus!Number, Bus!Message
<1> HIDE DEF m
<1>2. queue \in Seq(Bus!Message)
  BY DEF OwnTyped
<1>3. /\ q \in Seq(Bus!Message)
      /\ \A k \in DOMAIN q : q[k] = m \/ \E j \in DOMAIN queue : q[k] = queue[j]
  BY <1>1, <1>2, EnqueueFrom
<1>4. Bus!Flush(q)
  BY DEF m
<1> HIDE DEF q
<1>5. ASSUME NEW k \in DOMAIN q
      PROVE  AskedFor(asked', c, q[k].event, q[k].payload.for)
  <2>1. AskedFor(asked, c, q[k].event, q[k].payload.for)
    <3>1. CASE q[k] = m
      BY <1>1, <3>1
    <3>2. CASE \E j \in DOMAIN queue : q[k] = queue[j]
      BY <3>2 DEF Serves
    <3> QED
      BY <1>3, <3>1, <3>2
  <2> QED
    BY <2>1, AskedGrows
<1>6. asked \subseteq asked'
  OBVIOUS
<1> QED
  BY <1>3, <1>4, <1>5, <1>6, FlushOwned DEF OwnEvents

LEMMA EmitOwned ==
  ASSUME NEW c, Attached \subseteq {c}, OwnTyped, OwnEvents, Serves(c),
         NEW name \in Event, NEW data \in Data \cup {Empty}, NEW include \in BOOLEAN,
         ServerEmits(name, data, include)
  PROVE  ~Idle /\ OwnTyped' /\ Serves(c)' /\ OwnEvents'
<1>1. PICK p \in Pattern : subscriptions[p] # "none" /\ name \in Covers[p]
  BY DEF ServerEmits, Bus!Emit, Bus!Matches, Bus!MatchingPatterns
<1>2. ~Idle
  BY <1>1 DEF Idle
<1>3. AskedFor(asked, c, name, client)
  BY <1>1 DEF Serves, AskedFor
<1> DEFINE payload == Bus!NewPayload(name, data, include)
<1>4. payload \in Bus!Payload /\ payload.for = client
  BY DEF OwnTyped, Bus!NewPayload, Bus!Payload
<1> HIDE DEF payload
<1>5. Written /\ UNCHANGED <<subscriptions, client, log, asked>>
  BY DEF ServerEmits, Bus!Emit
<1>6. CASE Bus!EmitCoalesced(name, data, include)
  <2>1. /\ pending' = [pending EXCEPT ![name] = payload]
        /\ UNCHANGED <<queue, sequence, wire>>
    BY <1>6 DEF Bus!EmitCoalesced, payload
  <2>2. to' = to
    BY <1>5, <2>1, NothingWritten
  <2>3. OwnTyped'
    BY <1>4, <1>5, <2>1, <2>2 DEF OwnTyped
  <2>4. Serves(c)'
    <3>1. \A other \in Event : pending'[other] # Nil =>
              AskedFor(asked, c, other, pending'[other].for)
      BY <1>3, <1>4, <2>1 DEF OwnTyped, Serves
    <3> QED
      BY <1>5, <2>1, <3>1 DEF Serves, AskedFor
  <2>5. OwnEvents'
    BY <1>5, <2>1, <2>2 DEF OwnEvents, AskedFor
  <2> QED
    BY <1>2, <2>3, <2>4, <2>5
<1>7. CASE Bus!EmitAtOnce(name, data, include)
  <2>1. /\ Bus!Flush(Bus!Enqueue(queue, Bus!Number(name, payload)))
        /\ sequence' = sequence + 1
        /\ UNCHANGED pending
    BY <1>7 DEF Bus!EmitAtOnce, payload
  <2>2. /\ queue' \in Seq(Bus!Message)
        /\ wire' \in Seq(Bus!Message)
        /\ to' \in Seq(Client)
        /\ Len(to') = Len(wire')
        /\ \A k \in DOMAIN queue' :
                AskedFor(asked', c, queue'[k].event, queue'[k].payload.for)
        /\ OwnEvents'
    BY <1>3, <1>4, <1>5, <2>1, NumberedOwned
  <2>3. OwnTyped'
    BY <1>5, <2>1, <2>2 DEF OwnTyped
  <2>4. Serves(c)'
    BY <1>5, <2>1, <2>2 DEF Serves, AskedFor
  <2> QED
    BY <1>2, <2>2, <2>3, <2>4
<1> QED
  BY <1>6, <1>7 DEF ServerEmits, Bus!Emit

LEMMA TimerOwned ==
  ASSUME NEW c, Attached \subseteq {c}, OwnTyped, OwnEvents, Serves(c),
         NEW name \in Event, ServerTimerFires(name)
  PROVE  OwnTyped' /\ Serves(c)' /\ OwnEvents' /\ (Idle => Idle')
<1>1. /\ Written
      /\ pending' = [pending EXCEPT ![name] = Nil]
      /\ UNCHANGED <<subscriptions, client, log, asked>>
  BY DEF ServerTimerFires, Bus!TimerFires
<1>2. \A other \in Event : pending'[other] # Nil => pending'[other] = pending[other]
  BY <1>1 DEF OwnTyped
<1>3. pending' \in [Event -> Bus!Payload \cup {Nil}]
  BY <1>1 DEF OwnTyped
<1>4. CASE pending[name] # Nil
  <2>1. /\ Bus!Flush(Bus!Enqueue(queue, Bus!Number(name, pending[name])))
        /\ sequence' = sequence + 1
    BY <1>4 DEF ServerTimerFires, Bus!TimerFires
  <2>2. pending[name] \in Bus!Payload /\ AskedFor(asked, c, name, pending[name].for)
    BY <1>4 DEF OwnTyped, Serves
  <2>3. /\ queue' \in Seq(Bus!Message)
        /\ wire' \in Seq(Bus!Message)
        /\ to' \in Seq(Client)
        /\ Len(to') = Len(wire')
        /\ \A k \in DOMAIN queue' :
                AskedFor(asked', c, queue'[k].event, queue'[k].payload.for)
        /\ OwnEvents'
    BY <1>1, <2>1, <2>2, NumberedOwned
  <2>4. OwnTyped'
    BY <1>1, <1>3, <2>1, <2>3 DEF OwnTyped
  <2>5. Serves(c)'
    <3>1. \A other \in Event : pending'[other] # Nil =>
              AskedFor(asked, c, other, pending'[other].for)
      BY <1>2 DEF Serves
    <3> QED
      BY <1>1, <2>3, <3>1 DEF Serves, AskedFor
  <2>6. ~Idle
    BY <1>4 DEF Idle
  <2> QED
    BY <2>3, <2>4, <2>5, <2>6
<1>5. CASE pending[name] = Nil
  <2>1. UNCHANGED <<sequence, queue, wire>>
    BY <1>5 DEF ServerTimerFires, Bus!TimerFires
  <2>2. to' = to
    BY <1>1, <2>1, NothingWritten
  <2>3. pending' = pending
    BY <1>1, <1>5 DEF OwnTyped
  <2> QED
    BY <1>1, <2>1, <2>2, <2>3, KeptOwned DEF BusKept
<1> QED
  BY <1>4, <1>5

\* The items subscribe applies are what the client has asked for.
LEMMA ItemsAsked ==
  ASSUME NEW batch, NEW p \in Pattern, subscriptions \in [Pattern -> {"none", "data", "nodata"}],
         Bus!SubscribeItems(batch)[p] # "none"
  PROVE  subscriptions[p] # "none" \/ p \in PatternsOf(batch)
<1>1. CASE {k \in Bus!AppliedItems(batch) : batch[k].event = p} = {}
  BY <1>1 DEF Bus!SubscribeItems
<1>2. CASE {k \in Bus!AppliedItems(batch) : batch[k].event = p} # {}
  BY <1>2 DEF PatternsOf
<1> QED
  BY <1>1, <1>2

LEMMA ItemsTyped ==
  ASSUME subscriptions \in [Pattern -> {"none", "data", "nodata"}], NEW batch
  PROVE  /\ Bus!SubscribeItems(batch) \in [Pattern -> {"none", "data", "nodata"}]
         /\ Bus!UnsubscribeItems(batch) \in [Pattern -> {"none", "data", "nodata"}]
         /\ \A p \in Pattern :
                Bus!UnsubscribeItems(batch)[p] # "none" => subscriptions[p] # "none"
         /\ Bus!NoSubscriptions \in [Pattern -> {"none", "data", "nodata"}]
BY DEF Bus!SubscribeItems, Bus!UnsubscribeItems, Bus!NoSubscriptions, Bus!Policy

\* A complete record is the owner's, and so is the answer.
LEMMA RequesterIsOwner ==
  ASSUME NEW c, BookInv, TagInv, ReadsOnly(c), NEW d \in Client, CompleteRecord(d)
  PROVE  /\ d = c
         /\ Receiver = c
         /\ running /\ connectionCount = 1
         /\ running' = running /\ connectionCount' = connectionCount
<1>1. /\ Tag(d) \in pendingReadTags
      /\ reads[d] # <<>>
      /\ Connections = 1
      /\ running' = running /\ connectionCount' = connectionCount
  BY DEF CompleteRecord, AcceptByte, Delivers
<1>2. running /\ connectionCount = 1
  BY <1>1 DEF BookInv, ReadBookkeeping, PendingNeedsOneClient
<1>3. d = c
  <2>1. reads[d] \in Seq(Nat)
    BY DEF TagInv, DistinctTags
  <2>2. 1 \in DOMAIN reads[d] /\ Tag(d) = reads[d][1]
    BY <1>1, <2>1 DEF Tag
  <2> QED
    BY <1>1, <2>2 DEF ReadsOnly, TagsOf
<1>4. Receiver = c
  BY <1>1, ReceiverIsOwner DEF ReadsOnly
<1> QED
  BY <1>1, <1>2, <1>3, <1>4

LEMMA LogTyped ==
  ASSUME OwnTyped, NEW kind \in {"subscribe", "unsubscribe", "unsubscribeAll"},
         NEW batch \in Batches \cup {<<>>}, Bus!Logs(kind, batch)
  PROVE  log' \in Seq(Bus!Entry)
<1>1. [kind |-> kind, batch |-> batch] \in Bus!Entry
  BY DEF Bus!Entry
<1> QED
  BY <1>1 DEF OwnTyped, Bus!Logs

LEMMA RequestOwned ==
  ASSUME NEW c \in Client, OwnTyped, OwnEvents, Serves(c), Attached \subseteq {c},
         asked \subseteq asked', Bus!Request, Written,
         subscriptions' \in [Pattern -> {"none", "data", "nodata"}],
         log' \in Seq(Bus!Entry),
         \A p \in Pattern : subscriptions'[p] # "none" => <<c, p, client>> \in asked'
  PROVE  OwnTyped' /\ Serves(c)' /\ OwnEvents'
<1>1. Bus!Flush(queue) /\ UNCHANGED <<sequence, pending, client>>
  BY DEF Bus!Request
<1>2. queue \in Seq(Bus!Message)
  BY DEF OwnTyped
<1>3. ASSUME NEW k \in DOMAIN queue
      PROVE  AskedFor(asked', c, queue[k].event, queue[k].payload.for)
  <2>1. AskedFor(asked, c, queue[k].event, queue[k].payload.for)
    BY DEF Serves
  <2> QED
    BY <2>1, AskedGrows
<1>4. /\ queue' \in Seq(Bus!Message)
      /\ wire' \in Seq(Bus!Message)
      /\ to' \in Seq(Client)
      /\ Len(to') = Len(wire')
      /\ \A k \in DOMAIN queue' :
              AskedFor(asked', c, queue'[k].event, queue'[k].payload.for)
      /\ OwnEvents'
  BY <1>1, <1>2, <1>3, FlushOwned DEF OwnEvents
<1>5. OwnTyped'
  BY <1>1, <1>4 DEF OwnTyped
<1>6. \A name \in Event : pending'[name] # Nil =>
        AskedFor(asked', c, name, pending'[name].for)
  BY <1>1, AskedGrows DEF Serves
<1>7. Serves(c)'
  BY <1>1, <1>4, <1>6 DEF Serves, AskedFor
<1> QED
  BY <1>4, <1>5, <1>7

LEMMA RequestsOwned ==
  ASSUME NEW c, BookInv, TagInv, OwnedBy(c), NEW d \in Client, ServerRequests(d)
  PROVE  OwnedBy(c)'
<1> USE DEF OwnedBy
<1>1. CompleteRecord(d)
  BY DEF ServerRequests
<1>2. /\ d = c /\ Receiver = c
      /\ running' /\ connectionCount' = 1
  BY <1>1, RequesterIsOwner
<1>3. ReadsOnly(c)'
  BY <1>1, ReadsStep DEF Callback
<1>4. Written /\ answers' = answers \cup {<<d, Receiver>>}
  BY DEF ServerRequests
<1>5. OwnAnswers'
  BY <1>2, <1>4 DEF OwnTraffic, OwnAnswers
<1>6. Attached \subseteq {c} /\ OwnEvents
  BY DEF ReadsOnly, OwnTraffic
<1>7. subscriptions \in [Pattern -> {"none", "data", "nodata"}]
  BY DEF OwnTyped
<1>8. \A p \in Pattern : subscriptions[p] # "none" => <<c, p, client>> \in asked
  BY DEF Serves
<1> DEFINE Asks ==
        /\ asked \subseteq asked'
        /\ Bus!Request
        /\ subscriptions' \in [Pattern -> {"none", "data", "nodata"}]
        /\ log' \in Seq(Bus!Entry)
        /\ \A p \in Pattern : subscriptions'[p] # "none" => <<c, p, client>> \in asked'
<1>9. Asks
  <2>1. ASSUME NEW batch \in Batches, Bus!Subscribe(batch),
               asked' = asked \cup ({d} \X PatternsOf(batch) \X {client})
        PROVE  Asks
    <3>1. subscriptions' = Bus!SubscribeItems(batch) /\ Bus!Request
      BY <2>1 DEF Bus!Subscribe
    <3>2. ASSUME NEW p \in Pattern, subscriptions'[p] # "none"
          PROVE  <<c, p, client>> \in asked'
      <4>1. subscriptions[p] # "none" \/ p \in PatternsOf(batch)
        BY <1>7, <3>1, <3>2, ItemsAsked
      <4> QED
        BY <1>2, <1>8, <2>1, <4>1
    <3>3. log' \in Seq(Bus!Entry)
      BY <2>1, LogTyped DEF Bus!Subscribe
    <3> QED
      BY <1>7, <2>1, <3>1, <3>2, <3>3, ItemsTyped
  <2>2. ASSUME UNCHANGED asked,
               (\E batch \in Batches : Bus!Unsubscribe(batch))
                  \/ Bus!UnsubscribeAll \/ Bus!OtherRequest
        PROVE  Asks
    <3>1. /\ Bus!Request
          /\ \/ \E batch \in Batches : subscriptions' = Bus!UnsubscribeItems(batch)
             \/ subscriptions' = Bus!NoSubscriptions
             \/ subscriptions' = subscriptions
      BY <2>2 DEF Bus!Unsubscribe, Bus!UnsubscribeAll, Bus!OtherRequest
    <3>2. /\ subscriptions' \in [Pattern -> {"none", "data", "nodata"}]
          /\ \A p \in Pattern : subscriptions'[p] # "none" => subscriptions[p] # "none"
      BY <1>7, <3>1, ItemsTyped DEF Bus!NoSubscriptions
    <3>3. log' = log \/ \E kind \in {"unsubscribe", "unsubscribeAll"},
                           batch \in Batches \cup {<<>>} : Bus!Logs(kind, batch)
      BY <2>2 DEF Bus!Unsubscribe, Bus!UnsubscribeAll, Bus!OtherRequest
    <3>4. log' \in Seq(Bus!Entry)
      BY <3>3, LogTyped DEF OwnTyped
    <3> QED
      BY <1>8, <2>2, <3>1, <3>2, <3>4
  <2> QED
    BY <2>1, <2>2 DEF ServerRequests
<1>10. OwnTyped' /\ Serves(c)' /\ OwnEvents'
  BY <1>2, <1>4, <1>6, <1>9, RequestOwned
<1> QED
  BY <1>2, <1>3, <1>5, <1>10 DEF OwnTraffic

-----------------------------------------------------------------------------
\* Every step

\* A client that connects finds the bus idle.
LEMMA AttachOwned ==
  ASSUME Churn = "alone", BookInv, OwnInv, NEW d \in Client, Attach(d),
         BusKept, UNCHANGED answers
  PROVE  OwnInv'
<1>1. PICK c \in Client \cup {None} : OwnedBy(c)
  BY DEF OwnInv
<1>2. Attached = {} /\ connectionCount = Connections
  BY DEF Attach, MayAttach, Settled
<1>3. Connections = 0
  BY <1>2, FS_EmptySet DEF Connections
<1>4. Idle /\ pendingReadTags = {}
  BY <1>1, <1>2, <1>3
     DEF OwnedBy, BookInv, ReadBookkeeping, PendingNeedsOneClient
<1>5. Attached' \subseteq {d}
  <2>1. \A e \in Client : status'[e] = "attached" => e = d \/ status[e] = "attached"
    BY DEF Attach
  <2> QED
    BY <1>2, <2>1 DEF Attached
<1>6. ReadsOnly(d)'
  BY <1>4, <1>5 DEF Attach, locals, ReadsOnly, TagsOf
<1>7. Serves(d)
  BY <1>4 DEF Idle, Serves
<1>8. OwnTyped' /\ Serves(d)' /\ OwnEvents' /\ Idle'
  BY <1>1, <1>4, <1>7, KeptOwned DEF OwnedBy, OwnTraffic
<1>9. OwnAnswers'
  BY <1>1 DEF OwnedBy, OwnTraffic, OwnAnswers
<1>10. OwnedBy(d)'
  BY <1>6, <1>8, <1>9 DEF OwnedBy, OwnTraffic
<1> QED
  BY <1>10 DEF OwnInv

LEMMA PollOwned ==
  ASSUME NEW c, OwnedBy(c), ServerPoll
  PROVE  /\ OwnTyped' /\ Serves(c)' /\ OwnEvents'
         /\ (running' /\ connectionCount' = 1) \/ Idle'
<1> USE DEF OwnedBy
<1>1. OwnEvents
  BY DEF OwnTraffic
<1>2. running /\ running' = running
  BY DEF ServerPoll, Poll, PollUnchanged, PollChanged
<1>3. CASE Connections # connectionCount /\ Connections = 0
  <2>1. Bus!ForgetClient /\ UNCHANGED <<sequence, wire, to, asked>>
    BY <1>3 DEF ServerPoll, Bus!ClientDisconnected, traffic
  <2> QED
    BY <1>1, <2>1, ForgetOwned
<1>4. CASE ~(Connections # connectionCount /\ Connections = 0)
  <2>1. BusKept
    BY <1>4 DEF ServerPoll, bus, traffic, BusKept
  <2>2. OwnTyped' /\ Serves(c)' /\ OwnEvents' /\ (Idle => Idle')
    BY <1>1, <2>1, KeptOwned
  <2>3. CASE Connections = connectionCount
    <3>1. connectionCount' = connectionCount
      BY <2>3 DEF ServerPoll, Poll, PollUnchanged, PollChanged
    <3> QED
      BY <1>2, <2>2, <3>1
  <2>4. CASE Connections # connectionCount
    <3>1. connectionCount' = Connections
      BY <2>4 DEF ServerPoll, Poll, PollUnchanged, PollChanged
    <3>2. Attached # {}
      BY <1>4, <2>4, FS_EmptySet DEF Connections
    <3>3. c \in Client /\ Attached = {c}
      BY <3>2 DEF ReadsOnly, Attached
    <3>4. Connections = 1
      BY <3>3, OneConnection
    <3> QED
      BY <1>2, <2>2, <3>1, <3>4
  <2> QED
    BY <2>3, <2>4
<1> QED
  BY <1>3, <1>4

\* At first nobody is the owner.
LEMMA OwnInit == ServerInit => OwnInv
<1> SUFFICES ASSUME ServerInit PROVE OwnedBy(None)
  BY DEF OwnInv
<1>1. Bus!Init /\ Init
  BY DEF ServerInit
<1>2. Idle
  BY <1>1 DEF Bus!Init, Bus!NoSubscriptions, Idle
<1>3. OwnTyped
  BY <1>1 DEF ServerInit, Bus!Init, Bus!NoSubscriptions, OwnTyped
<1>4. ReadsOnly(None)
  BY <1>1 DEF Init, ReadsOnly, Attached, TagsOf
<1>5. Serves(None)
  BY <1>2 DEF Idle, Serves
<1>6. OwnTraffic
  BY <1>1 DEF ServerInit, Bus!Init, OwnTraffic, OwnEvents, OwnAnswers
<1> QED
  BY <1>2, <1>3, <1>4, <1>5, <1>6 DEF OwnedBy

LEMMA OwnStep ==
  ASSUME Churn = "alone", BookInv, TagInv, OwnInv, [ServerNext]_serverVars
  PROVE  OwnInv'
<1>1. PICK c \in Client \cup {None} : OwnedBy(c)
  BY DEF OwnInv
<1>2. SUFFICES OwnedBy(c)' \/ OwnInv'
  BY DEF OwnInv
<1>3. /\ OwnTyped /\ Serves(c) /\ OwnEvents /\ OwnAnswers /\ ReadsOnly(c)
      /\ Attached \subseteq {c}
      /\ (running /\ connectionCount = 1) \/ Idle
  BY <1>1 DEF OwnedBy, OwnTraffic, ReadsOnly
<1>4. ASSUME BusKept, ReadsOnly(c)', OwnAnswers', UNCHANGED <<running, connectionCount>>
      PROVE  OwnedBy(c)'
  BY <1>3, <1>4, KeptOwned DEF OwnedBy, OwnTraffic
<1>5. CASE ServerStart
  <2>1. ReadsOnly(c)'
    BY <1>3, <1>5, ReadsStep DEF ServerStart
  <2>2. BusKept /\ OwnAnswers'
    BY <1>3, <1>5 DEF ServerStart, Bus!BusInit, traffic, BusKept, OwnAnswers
  <2>3. Idle
    BY <1>3, <1>5 DEF ServerStart, Start
  <2> QED
    BY <1>3, <2>1, <2>2, <2>3, KeptOwned DEF OwnedBy, OwnTraffic
<1>6. CASE ServerStop
  <2>1. ReadsOnly(c)'
    BY <1>3, <1>6, ReadsStep DEF ServerStop
  <2>2. Bus!ForgetClient /\ UNCHANGED <<sequence, wire, to, asked>> /\ OwnAnswers'
    BY <1>3, <1>6 DEF ServerStop, Bus!BusStop, traffic, OwnAnswers
  <2> QED
    BY <1>3, <2>1, <2>2, ForgetOwned DEF OwnedBy, OwnTraffic
<1>7. CASE ServerPoll
  <2>1. ReadsOnly(c)'
    BY <1>3, <1>7, ReadsStep DEF ServerPoll
  <2>2. OwnAnswers'
    BY <1>3, <1>7 DEF ServerPoll, traffic, OwnAnswers
  <2> QED
    BY <1>1, <1>7, <2>1, <2>2, PollOwned DEF OwnedBy, OwnTraffic
<1>8. CASE TimePasses /\ UNCHANGED <<bus, traffic>>
  <2>1. ReadsOnly(c)'
    BY <1>3, <1>8, ReadsStep
  <2>2. BusKept /\ OwnAnswers' /\ UNCHANGED <<running, connectionCount>>
    BY <1>3, <1>8 DEF TimePasses, bus, traffic, BusKept, OwnAnswers
  <2> QED
    BY <1>4, <2>1, <2>2
<1>9. ASSUME NEW d \in Client, ClientChanges(d)
      PROVE  OwnedBy(c)' \/ OwnInv'
  <2>1. BusKept /\ UNCHANGED answers
    BY <1>9 DEF ClientChanges, Bus!LinkChanges, bus, traffic, BusKept
  <2>2. CASE Attach(d)
    BY <2>1, <2>2, AttachOwned
  <2>3. CASE Depart(d)
    <3>1. ReadsOnly(c)' /\ UNCHANGED <<running, connectionCount>>
      BY <1>3, <2>3, ReadsStep DEF Depart, locals
    <3>2. OwnAnswers'
      BY <1>3, <2>1 DEF OwnAnswers
    <3> QED
      BY <1>4, <2>1, <3>1, <3>2
  <2> QED
    BY <1>9, <2>2, <2>3 DEF ClientChanges
<1>10. ASSUME NEW d \in Client, ServerReads(d)
       PROVE  OwnedBy(c)'
  <2>1. Callback(d)
    BY <1>10 DEF ServerReads, Callback
  <2>2. ReadsOnly(c)'
    BY <1>3, <2>1, ReadsStep
  <2>3. BusKept /\ OwnAnswers'
    BY <1>3, <1>10 DEF ServerReads, bus, traffic, BusKept, OwnAnswers
  <2>4. UNCHANGED <<running, connectionCount>>
    BY <1>10 DEF ServerReads, LateCallback, CrowdedCallback, DiscardByte, OversizedByte,
                 StoreByte, AcceptByte, locals
  <2> QED
    BY <1>4, <2>2, <2>3, <2>4
<1>11. ASSUME NEW d \in Client, ServerRequests(d)
       PROVE  OwnedBy(c)'
  BY <1>1, <1>11, RequestsOwned
<1>12. ASSUME NEW d \in Client, ServerRejects(d)
       PROVE  OwnedBy(c)'
  <2>1. CompleteRecord(d)
    BY <1>12 DEF ServerRejects
  <2>2. ReadsOnly(c)'
    BY <1>3, <2>1, ReadsStep DEF Callback
  <2>3. d = c /\ Receiver = c /\ UNCHANGED <<running, connectionCount>>
    BY <1>3, <2>1, RequesterIsOwner
  <2>4. BusKept /\ OwnAnswers'
    BY <1>3, <1>12, <2>3 DEF ServerRejects, bus, BusKept, OwnAnswers
  <2> QED
    BY <1>4, <2>2, <2>3, <2>4
<1>13. ASSUME UNCHANGED <<vars, answers>>
       PROVE  /\ ReadsOnly(c)' /\ OwnAnswers'
              /\ UNCHANGED <<running, connectionCount>>
  BY <1>3, <1>13, ReadsStep DEF vars, locals, OwnAnswers
<1>14. ASSUME NEW name \in Event, NEW data \in Data \cup {Empty}, NEW include \in BOOLEAN,
              ServerEmits(name, data, include)
       PROVE  OwnedBy(c)'
  <2>1. ~Idle /\ OwnTyped' /\ Serves(c)' /\ OwnEvents'
    BY <1>3, <1>14, EmitOwned
  <2>2. UNCHANGED <<vars, answers>>
    BY <1>14 DEF ServerEmits
  <2> QED
    BY <1>3, <1>13, <2>1, <2>2 DEF OwnedBy, OwnTraffic
<1>15. ASSUME NEW name \in Event, ServerTimerFires(name)
       PROVE  OwnedBy(c)'
  <2>1. OwnTyped' /\ Serves(c)' /\ OwnEvents' /\ (Idle => Idle')
    BY <1>3, <1>15, TimerOwned
  <2>2. UNCHANGED <<vars, answers>>
    BY <1>15 DEF ServerTimerFires
  <2> QED
    BY <1>3, <1>13, <2>1, <2>2 DEF OwnedBy, OwnTraffic
<1>16. CASE UNCHANGED serverVars
  <2>1. UNCHANGED <<vars, answers>> /\ BusKept
    BY <1>16 DEF serverVars, bus, traffic, BusKept
  <2> QED
    BY <1>4, <1>13, <2>1
<1> QED
  BY <1>5, <1>6, <1>7, <1>8, <1>9, <1>10, <1>11, <1>12, <1>14, <1>15, <1>16 DEF ServerNext

\* Where a client connects only when the poll has seen the last one go, what a client
\* gets is its own: no event the one before had subscribed to, and no answer to it,
\* though neither the read loop nor the bus knows which client it has.  (In one lifetime
\* of the listener: M.start numbers the reads from zero again.)
THEOREM TrafficIsOwn ==
  ASSUME Churn = "alone", MaxStarts <= 1
  PROVE  ServerSpec => []OwnTraffic
<1>1. OwnInv => OwnTraffic
  BY DEF OwnInv, OwnedBy
<1>2. ServerInit => BookInv /\ TagInv /\ OwnInv
  BY BookInit, TagInit, OwnInit DEF ServerInit
<1>3. BookInv /\ TagInv /\ OwnInv /\ [ServerNext]_serverVars
        => (BookInv /\ TagInv /\ OwnInv)'
  BY BookStep, TagStep, OwnStep, ServerSteps
<1> QED
  BY <1>1, <1>2, <1>3, PTL DEF ServerSpec
=============================================================================
