------------------------- MODULE SubscriptionMemory -------------------------
(***************************************************************************)
(* The subscriptions a client remembers (namespaces/events.py), those the  *)
(* server serves (subscriptions.lua), and their replay after a reconnect   *)
(* (client.py, _on_connected).                                             *)
(*                                                                         *)
(* Requests reach the server in the order they were written, the server    *)
(* answers in that order, and the tasks that wait go on in that order: the *)
(* reader resolves one future after the other, and all wait alike.         *)
(***************************************************************************)
EXTENDS Naturals, Sequences

CONSTANTS
    Pattern,    \* event names and patterns
    Op,         \* calls of the application, each made once
    None,
    Eager,      \* the application also calls during the handshake
    Timeouts,   \* a call may time out or be cancelled
    Noticed,    \* the server notices every loss of the connection
    MaxLosses   \* bound on the losses of the connection

ASSUME MemoryAssumption ==
    /\ {Eager, Timeouts, Noticed} \subseteq BOOLEAN
    /\ MaxLosses \in Nat
    /\ None \notin Op /\ {"capabilities", "restore"} \cap Op = {}

Caller == Op \cup {"capabilities", "restore"}

VARIABLES
    memory,     \* EventsClient._subscriptions
    registry,   \* the server's subscriptions
    link,       \* "down", "negotiating", "restoring" or "up"
    wire,       \* requests the server has still to handle
    answered,   \* callers whose response came, not yet resumed, with the result
    op,         \* of each call: "idle", "sent", "done" or "failed"
    last,       \* history: of each pattern, the last call about it
    kindOf,     \* history: the method of each call
    losses

vars == <<memory, registry, link, wire, answered, op, last, kindOf, losses>>

-----------------------------------------------------------------------------
\* The methods events.*

\* The server's subscriptions after it has handled a request
Served(kind, items) ==
    CASE kind = "subscribe"      -> registry \cup items
      [] kind = "unsubscribe"    -> registry \ items
      [] kind = "unsubscribeAll" -> {}
      [] OTHER                   -> registry

\* Mutants of Remembered: the cache keeps what was unsubscribed, or takes what
\* was asked for in place of the server's answer.
RememberedForGood(kind, items, result) ==
    CASE kind \in {"subscribe", "getSubscriptions"} -> result
      [] OTHER -> memory
RememberedAsAsked(kind, items, result) ==
    CASE kind = "subscribe"        -> items
      [] kind = "getSubscriptions" -> result
      [] kind = "unsubscribe"      -> memory \ items
      [] kind = "unsubscribeAll"   -> {}

\* The client's memory after the call has returned
Remembered(kind, items, result) ==
    CASE kind \in {"subscribe", "getSubscriptions"} -> result
      [] kind = "unsubscribe"                       -> memory \ items
      [] kind = "unsubscribeAll"                    -> {}

Methods ==
    ({"subscribe", "unsubscribe"} \X (SUBSET Pattern \ {{}}))
        \cup ({"unsubscribeAll"} \X {Pattern})
        \cup ({"getSubscriptions"} \X {{}})

Message(caller, kind, items) == [caller |-> caller, kind |-> kind, items |-> items]

Answer(m, result) ==
    [caller |-> m.caller, kind |-> m.kind, items |-> m.items, result |-> result]

Call(o) ==
    /\ op[o] = "idle"
    /\ link # "down" /\ (Eager \/ link = "up")
    /\ \E m \in Methods :
          /\ wire' = Append(wire, Message(o, m[1], m[2]))
          /\ last' = [p \in Pattern |-> IF p \in m[2] THEN o ELSE last[p]]
          /\ kindOf' = [kindOf EXCEPT ![o] = m[1]]
    /\ op' = [op EXCEPT ![o] = "sent"]
    /\ UNCHANGED <<memory, registry, link, answered, losses>>

Handle ==
    /\ wire # <<>>
    /\ LET m == Head(wire)
       IN /\ registry' = Served(m.kind, m.items)
          /\ answered' = Append(answered, Answer(m, registry'))
    /\ wire' = Tail(wire)
    /\ UNCHANGED <<memory, link, op, last, kindOf, losses>>

\* A call goes on with its response; it ignores it if it has given up.
Resume(o) ==
    /\ answered # <<>>
    /\ Head(answered).caller = o
    /\ answered' = Tail(answered)
    /\ IF op[o] = "sent"
       THEN LET m == Head(answered)
            IN /\ memory' = Remembered(m.kind, m.items, m.result)
               /\ op' = [op EXCEPT ![o] = "done"]
       ELSE UNCHANGED <<memory, op>>
    /\ UNCHANGED <<registry, link, wire, last, kindOf, losses>>

GiveUp(o) ==
    /\ Timeouts
    /\ op[o] = "sent"
    /\ op' = [op EXCEPT ![o] = "failed"]
    /\ UNCHANGED <<memory, registry, link, wire, answered, last, kindOf, losses>>

-----------------------------------------------------------------------------
\* _on_connected, restore_subscriptions

\* The tasks of the lost connection have all run when the next one is open.
Connect ==
    /\ link = "down"
    /\ answered = <<>>
    /\ link' = "negotiating"
    /\ wire' = <<Message("capabilities", "capabilities", {})>>
    /\ UNCHANGED <<memory, registry, answered, op, last, kindOf, losses>>

CapabilitiesCame ==
    /\ answered # <<>>
    /\ Head(answered).caller = "capabilities"
    /\ answered' = Tail(answered)
    /\ UNCHANGED <<memory, registry, op, last, kindOf, losses>>

Replay == wire' = Append(wire, Message("restore", "subscribe", memory))

\* Mutant of ResumeHandshake: nothing is replayed.
ResumeHandshakeOnly ==
    /\ CapabilitiesCame
    /\ link' = IF link = "negotiating" THEN "up" ELSE link
    /\ UNCHANGED wire

\* With nothing to remember the handshake is over.
ResumeHandshake ==
    /\ CapabilitiesCame
    /\ IF link # "negotiating" THEN UNCHANGED <<link, wire>>
       ELSE IF memory = {} THEN link' = "up" /\ UNCHANGED wire
       ELSE link' = "restoring" /\ Replay

ResumeRestore ==
    /\ answered # <<>>
    /\ Head(answered).caller = "restore"
    /\ answered' = Tail(answered)
    /\ memory' = Head(answered).result
    /\ link' = IF link = "restoring" THEN "up" ELSE link
    /\ UNCHANGED <<registry, wire, op, last, kindOf, losses>>

\* The connection is lost: the first n responses have been read, the others and
\* the requests have not.  Unnoticed by the server, whose poll saw one client
\* before and one after, its subscriptions stay.
Lose(n) ==
    /\ link # "down"
    /\ losses < MaxLosses
    /\ n \in 0 .. Len(answered)
    /\ losses' = losses + 1
    /\ link' = "down"
    /\ wire' = <<>>
    /\ answered' = SubSeq(answered, 1, n)
    /\ op' = [o \in Op |->
                IF op[o] = "sent" /\ \A i \in 1 .. n : answered[i].caller # o
                THEN "failed" ELSE op[o]]
    /\ registry' \in IF Noticed THEN {{}} ELSE {{}, registry}
    /\ UNCHANGED <<memory, last, kindOf>>

-----------------------------------------------------------------------------

Init ==
    /\ memory = {}
    /\ registry = {}
    /\ link = "down"
    /\ wire = <<>>
    /\ answered = <<>>
    /\ op = [o \in Op |-> "idle"]
    /\ last = [p \in Pattern |-> None]
    /\ kindOf = [o \in Op |-> None]
    /\ losses = 0

Next ==
    \/ \E o \in Op : Call(o) \/ Resume(o) \/ GiveUp(o)
    \/ Handle
    \/ Connect \/ ResumeHandshake \/ ResumeRestore
    \/ \E n \in 0 .. Len(answered) : Lose(n)

Spec == Init /\ [][Next]_vars

-----------------------------------------------------------------------------

Requests == [caller : Caller, items : SUBSET Pattern,
             kind : {"capabilities", "subscribe", "unsubscribe", "unsubscribeAll",
                     "getSubscriptions"}]

\* Nothing is written to a lost connection, and one handshake at a time is under
\* way: its requests are unanswered only while the link says so.
TypeOK ==
    /\ memory \subseteq Pattern /\ registry \subseteq Pattern
    /\ link \in {"down", "negotiating", "restoring", "up"}
    /\ wire \in Seq(Requests)
    /\ answered \in Seq({Answer(m, result) : m \in Requests, result \in SUBSET Pattern})
    /\ op \in [Op -> {"idle", "sent", "done", "failed"}]
    /\ last \in [Pattern -> Op \cup {None}]
    /\ kindOf \in [Op -> {m[1] : m \in Methods} \cup {None}]
    /\ losses \in 0 .. MaxLosses
    /\ link = "down" => wire = <<>>
    /\ \A i \in DOMAIN wire :
          /\ wire[i].caller = "capabilities" => link = "negotiating"
          /\ wire[i].caller = "restore" => link = "restoring"

\* The link is up and no request or response is under way.
Quiet == link = "up" /\ wire = <<>> /\ answered = <<>>

\* The last the application did about a pattern is a call that returned.
Ended(p, kinds) ==
    last[p] # None /\ op[last[p]] = "done" /\ kindOf[last[p]] \in kinds

\* As long as no call was given up or cut off, what the client remembers is what
\* the server serves, however often the connection was lost.  Calls during the handshake
\* are left out (Eager = FALSE): what they do to it is in MemoryForgotten and MemoryReplayed.
MemoryIsServed ==
    Quiet /\ (\A o \in Op : op[o] # "failed") => memory = registry

\* A pattern whose subscription was confirmed is served, and remembered, however
\* often the connection was lost since: "restores remembered event subscriptions".
SubscribedIsServed ==
    Quiet => \A p \in Pattern : Ended(p, {"subscribe"}) => p \in memory \cap registry

\* A pattern whose unsubscription was confirmed is no longer served nor remembered:
\* "Remove selected subscriptions from the server and local cache."
UnsubscribedIsOff ==
    Quiet => \A p \in Pattern :
        Ended(p, {"unsubscribe", "unsubscribeAll"}) => p \notin memory \cup registry

\* What was confirmed to a caller holds, whichever of the two it asked for.
ConfirmedHolds == SubscribedIsServed /\ UnsubscribedIsOff
=============================================================================
