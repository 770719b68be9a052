------------------------------ MODULE Requests ------------------------------
(***************************************************************************)
(* What becomes of a request on an established connection: protocol.lua    *)
(* decodes its record, dispatcher.lua runs the method, server.lua sends    *)
(* the reply and _reader_loop of connection.py hands it to the call with   *)
(* its id.  A record is described by what the checks of decode tell apart. *)
(***************************************************************************)
EXTENDS Naturals, Sequences, FiniteSets

CONSTANTS
    Call,       \* requests; the id of each is its name
    RawCall,    \* those written to the socket without the Python client
    None

ASSUME CallAssumption == RawCall \subseteq Call /\ None \notin Call

VARIABLES
    record,     \* of each request: what was written, or None
    wire,       \* the requests whose record the server has still to read
    replies,    \* what the client has still to read
    ended,      \* history: how the method of each request ended
    pending,    \* _pending, or what the other program keeps in its place
    outcome     \* of each request: None, "returned", an exception, "timeout"

vars == <<record, wire, replies, ended, pending, outcome>>

-----------------------------------------------------------------------------
\* protocol.decode.  A usable id is a string that is not empty.  The first flaw
\* found decides the message of the error, never the id.

Record == [json : {"object", "other", "invalid"},
           id : {"usable", "unusable"},
           flaw : {"none", "version", "type", "method", "params"}]

\* What call() can write: its method may be the empty string.
CallRecord == {[json |-> "object", id |-> "usable", flaw |-> f] : f \in {"none", "method"}}

IsRequest(r) == r = [json |-> "object", id |-> "usable", flaw |-> "none"]

\* Mutant of RecoveredId: the id is looked up only in a request that is valid.
RecoveredIdOfValid(c, r) == IF IsRequest(r) THEN c ELSE None

\* The id that decode returns with its error, if it has found one.
RecoveredId(c, r) == IF r.json = "object" /\ r.id = "usable" THEN c ELSE None

-----------------------------------------------------------------------------
\* The envelopes a request is answered with, where they differ for the client:
\* a response has a code or, on success, a result.

Results == {"valid", "mismatch", "oversized"}
Codes == {"METHOD_NOT_FOUND", "INVALID_PARAMS", "INTERNAL_ERROR"}

Success(c, result) == [id |-> c, type |-> "response", code |-> None, result |-> result]
Failure(c, code) == [id |-> c, type |-> "response", code |-> code, result |-> None]
ProtocolFailure(id) ==
    [id |-> id, type |-> "protocol_error", code |-> None, result |-> None]

\* dispatcher.handle.  The method is unknown, returns an error, raises, or has a
\* result: one of the type the caller asked for, of another, one too long for a
\* record, or one that cannot be encoded or written.

Ends == {"unknown", "error", "raises", "unsendable"} \cup Results

Response(c, end) ==
    CASE end = "unknown" -> Failure(c, "METHOD_NOT_FOUND")
      [] end = "error"   -> Failure(c, "INVALID_PARAMS")
      [] end = "raises"  -> Failure(c, "INTERNAL_ERROR")
      [] OTHER           -> Success(c, end)

\* Mutants of Reply: the return after METHOD_NOT_FOUND is missing, so that the
\* handler nil is called too; the error beside the result is not looked at.
ReplyFallsThrough(c, end) ==
    CASE end = "unsendable" -> <<>>
      [] end = "unknown"    -> <<Response(c, "unknown"), Response(c, "raises")>>
      [] OTHER              -> <<Response(c, end)>>
ReplyErrorIgnored(c, end) ==
    CASE end = "unsendable" -> <<>>
      [] end = "error"      -> <<Success(c, "valid")>>
      [] OTHER              -> <<Response(c, end)>>

\* What respond() and send() write
Reply(c, end) == IF end = "unsendable" THEN <<>> ELSE <<Response(c, end)>>

-----------------------------------------------------------------------------
\* What the client makes of a reply

\* rpc_exception
ErrorType(code) ==
    CASE code = "METHOD_NOT_FOUND" -> "MethodNotFoundError"
      [] code = "INVALID_PARAMS"   -> "InvalidParamsError"
      [] OTHER                     -> "RPCError"

\* A reply that is too long is not seen by the reader.
IsDecoded(reply) == reply.result # "oversized"

\* How call() ends with the reply: a result that is not of the type asked for is
\* an error of the protocol.
Outcome(reply) ==
    IF reply.type = "protocol_error" THEN "ProtocolError"
    ELSE IF reply.code # None THEN ErrorType(reply.code)
    ELSE IF reply.result = "valid" THEN "returned" ELSE "ProtocolError"

Outcomes == {"returned", "ProtocolError", "timeout"} \cup {ErrorType(k) : k \in Codes}

ASSUME NoneAssumption == None \notin Record \cup Results \cup Codes \cup Ends \cup Outcomes

-----------------------------------------------------------------------------

\* call(): the id is registered, then its record written.
Write(c) ==
    /\ record[c] = None
    /\ \E r \in IF c \in RawCall THEN Record ELSE CallRecord :
          record' = [record EXCEPT ![c] = r]
    /\ wire' = Append(wire, c)
    /\ pending' = pending \cup {c}
    /\ UNCHANGED <<replies, ended, outcome>>

\* callback(), for a record that is complete and not too long
Serve ==
    /\ wire # <<>>
    /\ wire' = Tail(wire)
    /\ LET c == Head(wire)
       IN \/ /\ IsRequest(record[c])
             /\ \E end \in Ends :
                   /\ replies' = replies \o Reply(c, end)
                   /\ ended' = [ended EXCEPT ![c] = end]
          \/ /\ ~IsRequest(record[c])
             /\ replies' = Append(replies, ProtocolFailure(RecoveredId(c, record[c])))
             /\ UNCHANGED ended
    /\ UNCHANGED <<record, pending, outcome>>

\* _reader_loop(): a reply without an id, or with one that is no longer pending,
\* is logged.
Read ==
    /\ replies # <<>>
    /\ replies' = Tail(replies)
    /\ LET reply == Head(replies)
       IN IF reply.id \in pending /\ IsDecoded(reply)
          THEN /\ pending' = pending \ {reply.id}
               /\ outcome' = [outcome EXCEPT ![reply.id] = Outcome(reply)]
          ELSE UNCHANGED <<pending, outcome>>
    /\ UNCHANGED <<record, wire, ended>>

\* The timeout of call()
TimeOut(c) ==
    /\ c \in pending
    /\ pending' = pending \ {c}
    /\ outcome' = [outcome EXCEPT ![c] = "timeout"]
    /\ UNCHANGED <<record, wire, replies, ended>>

Init ==
    /\ record = [c \in Call |-> None]
    /\ wire = <<>>
    /\ replies = <<>>
    /\ ended = [c \in Call |-> None]
    /\ pending = {}
    /\ outcome = [c \in Call |-> None]

Next ==
    \/ \E c \in Call : Write(c)
    \/ \E c \in Call : TimeOut(c)
    \/ Serve
    \/ Read

Spec == Init /\ [][Next]_vars

-----------------------------------------------------------------------------

\* The state has the right shape, and a call is pending until it has an outcome.
TypeOK ==
    /\ record \in [Call -> Record \cup {None}]
    /\ wire \in Seq(Call)
    /\ replies \in Seq([id : Call \cup {None}, type : {"response", "protocol_error"},
                        code : Codes \cup {None}, result : Results \cup {None}])
    /\ ended \in [Call -> Ends \cup {None}]
    /\ outcome \in [Call -> Outcomes \cup {None}]
    /\ pending = {c \in Call : record[c] # None /\ outcome[c] = None}

Count(c, s) == Cardinality({i \in DOMAIN s : s[i] = c})
Ids(s) == [i \in DOMAIN s |-> s[i].id]

\* handle() "invoke[s] the response callback exactly once": no request is
\* answered twice, whichever way its method ends.
AnsweredOnce ==
    \A c \in Call :
        Count(c, wire) + Count(c, Ids(replies))
            + (IF outcome[c] \in {None, "timeout"} THEN 0 ELSE 1) <= 1

\* A call is told how its own method ended, never how another did, and one that
\* fails before its method runs is told so.
IsTold(end, result) ==
    CASE result = "returned"            -> end = "valid"
      [] result = "InvalidParamsError"  -> end = "error"
      [] result = "RPCError"            -> end = "raises"
      [] result = "MethodNotFoundError" -> end = "unknown"
      [] result = "ProtocolError"       -> end \in {"mismatch", None}
      [] OTHER                          -> TRUE
OutcomeIsOwn == \A c \in Call : IsTold(ended[c], outcome[c])

\* "Malformed requests with a recoverable ID receive" a protocol error: but for
\* its timeout, a call waits in vain only if the server found no id in it or
\* has a result that does not reach the client.
WaitsInVain(c) == c \in pending /\ Count(c, wire) + Count(c, Ids(replies)) = 0
AnsweredIfPossible ==
    \A c \in Call : WaitsInVain(c) =>
        \/ ended[c] \in {"unsendable", "oversized"}
        \/ record[c].json # "object" \/ record[c].id = "unusable"

\* Violated (RequestsLimit.cfg).  "Records are limited to 16 MiB, including the newline": send()
\* does not look at the length of what it writes.
RecordsLimited == \A i \in DOMAIN replies : IsDecoded(replies[i])
=============================================================================
