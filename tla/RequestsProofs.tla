--------------------------- MODULE RequestsProofs ---------------------------
(***************************************************************************)
(* Proofs about Requests, for any number of calls.                         *)
(***************************************************************************)
EXTENDS Requests, TLAPS, FiniteSetTheorems

-----------------------------------------------------------------------------
\* The types of the state; a request has no outcome before it is written.

Envelope == [id : Call \cup {None}, type : {"response", "protocol_error"},
             code : Codes \cup {None}, result : Results \cup {None}]

Typed ==
    /\ TypeOK
    /\ \A c \in Call : record[c] = None => outcome[c] = None

LEMMA ResponseType ==
  ASSUME NEW c \in Call, NEW end \in Ends \ {"unsendable"}
  PROVE  Response(c, end) \in Envelope
BY DEF Response, Ends, Results, Codes, Success, Failure, Envelope

LEMMA ReplyType ==
  ASSUME NEW c \in Call, NEW end \in Ends
  PROVE  Reply(c, end) \in Seq(Envelope)
BY ResponseType DEF Reply

LEMMA ProtocolFailureType ==
  ASSUME NEW c \in Call, NEW r
  PROVE  ProtocolFailure(RecoveredId(c, r)) \in Envelope
BY DEF ProtocolFailure, RecoveredId, Envelope

LEMMA OutcomeType ==
  ASSUME NEW reply \in Envelope
  PROVE  Outcome(reply) \in Outcomes
<1>1. reply.code # None => ErrorType(reply.code) \in Outcomes
  BY DEF Envelope, Outcomes
<1> QED
  BY <1>1 DEF Outcome, Outcomes

LEMMA TypedInit == Init => Typed
BY NoneAssumption, CallAssumption DEF Init, Typed, TypeOK

LEMMA TypedStep == Typed /\ [Next]_vars => Typed'
<1> SUFFICES ASSUME Typed, [Next]_vars PROVE Typed'
  OBVIOUS
<1> USE NoneAssumption, CallAssumption DEF Typed, TypeOK
<1>0. replies \in Seq(Envelope)
  BY DEF Envelope
<1>1. ASSUME NEW c \in Call, Write(c) PROVE Typed'
  <2>0. CallRecord \subseteq Record
    BY DEF CallRecord, Record
  <2>1. PICK r \in Record : record' = [record EXCEPT ![c] = r]
    BY <1>1, <2>0 DEF Write
  <2>2. r # None /\ record[c] = None /\ outcome[c] = None
    BY <1>1 DEF Write
  <2>3. wire' \in Seq(Call)
    BY <1>1 DEF Write
  <2>4. pending' = {d \in Call : record'[d] # None /\ outcome'[d] = None}
    BY <1>1, <2>1, <2>2 DEF Write
  <2> QED
    BY <1>1, <2>1, <2>2, <2>3, <2>4 DEF Write
<1>2. ASSUME NEW c \in Call, TimeOut(c) PROVE Typed'
  <2>1. "timeout" \in Outcomes /\ "timeout" # None
    BY DEF Outcomes
  <2>2. outcome' = [outcome EXCEPT ![c] = "timeout"] /\ c \in pending
        /\ pending' = pending \ {c} /\ UNCHANGED <<record, wire, replies, ended>>
    BY <1>2 DEF TimeOut
  <2>3. outcome' \in [Call -> Outcomes \cup {None}]
    BY <2>1, <2>2
  <2>4. pending' = {d \in Call : record'[d] # None /\ outcome'[d] = None}
    BY <2>1, <2>2
  <2>5. \A d \in Call : record'[d] = None => outcome'[d] = None
    BY <2>2
  <2> QED
    BY <2>2, <2>3, <2>4, <2>5
<1>3. CASE Serve
  <2>1. Head(wire) \in Call /\ Tail(wire) \in Seq(Call)
    BY <1>3 DEF Serve
  <2>2. replies' \in Seq(Envelope)
    <3>1. CASE \E end \in Ends : replies' = replies \o Reply(Head(wire), end)
      BY <1>0, <2>1, <3>1, ReplyType
    <3>2. CASE replies' = Append(replies, ProtocolFailure(
                                RecoveredId(Head(wire), record[Head(wire)])))
      BY <1>0, <2>1, <3>2, ProtocolFailureType
    <3> QED
      BY <1>3, <3>1, <3>2 DEF Serve
  <2>3. ended' \in [Call -> Ends \cup {None}]
    BY <1>3, <2>1 DEF Serve
  <2> QED
    BY <1>3, <2>1, <2>2, <2>3 DEF Serve, Envelope
<1>4. CASE Read
  <2> DEFINE reply == Head(replies)
  <2>1. reply \in Envelope /\ Tail(replies) \in Seq(Envelope)
    BY <1>0, <1>4 DEF Read
  <2>2. CASE reply.id \in pending /\ IsDecoded(reply)
    <3>1. /\ pending' = pending \ {reply.id}
          /\ outcome' = [outcome EXCEPT ![reply.id] = Outcome(reply)]
          /\ replies' = Tail(replies)
          /\ UNCHANGED <<record, wire, ended>>
      BY <1>4, <2>2 DEF Read
    <3>2. Outcome(reply) \in Outcomes /\ Outcome(reply) # None
      BY <2>1, OutcomeType
    <3>3. reply.id \in Call
      BY <2>2
    <3> HIDE DEF reply
    <3>4. outcome' \in [Call -> Outcomes \cup {None}]
      BY <3>1, <3>2
    <3>5. pending' = {d \in Call : record'[d] # None /\ outcome'[d] = None}
      BY <3>1, <3>2, <3>3
    <3>6. \A d \in Call : record'[d] = None => outcome'[d] = None
      BY <2>2, <3>1
    <3> QED
      BY <2>1, <3>1, <3>4, <3>5, <3>6 DEF Envelope
  <2>3. CASE ~(reply.id \in pending /\ IsDecoded(reply))
    BY <1>4, <2>1, <2>3 DEF Read, Envelope
  <2> QED
    BY <2>2, <2>3
<1>5. CASE UNCHANGED vars
  BY <1>5 DEF vars
<1> QED
  BY <1>1, <1>2, <1>3, <1>4, <1>5 DEF Next

\* The state has its type; in particular a call is in _pending from the moment it
\* is written until it has an outcome, whichever of a response, an error and its
\* timeout comes first.
THEOREM RequestsTyped == Spec => []TypeOK
<1>1. Typed => TypeOK
  BY DEF Typed
<1> QED
  BY <1>1, TypedInit, TypedStep, PTL DEF Spec
-----------------------------------------------------------------------------
\* One answer for each request, and its own.

\* A reply says how the method of its request ended.
IsOwn(reply, end) ==
    \/ reply.id = None
    \/ reply = ProtocolFailure(reply.id) /\ end = None
    \/ end \in Ends \ {"unsendable"} /\ reply = Response(reply.id, end)

IsUnanswered(result) == result = None \/ result = "timeout"

\* A request on the wire has no end, outcome or reply yet.
WireFresh ==
    /\ \A i, j \in DOMAIN wire : wire[i] = wire[j] => i = j
    /\ \A i \in DOMAIN wire :
          /\ record[wire[i]] # None
          /\ ended[wire[i]] = None
          /\ IsUnanswered(outcome[wire[i]])
          /\ \A k \in DOMAIN replies : replies[k].id # wire[i]

RepliesFresh ==
    /\ \A j, k \in DOMAIN replies :
          replies[j].id = replies[k].id => j = k \/ replies[j].id = None
    /\ \A k \in DOMAIN replies :
          /\ replies[k].id # None => IsUnanswered(outcome[replies[k].id])
          /\ IsOwn(replies[k], ended[replies[k].id])

Unwritten ==
    \A c \in Call : record[c] = None =>
        ended[c] = None /\ \A k \in DOMAIN replies : replies[k].id # c

AnswerInv ==
    /\ Typed
    /\ WireFresh
    /\ RepliesFresh
    /\ Unwritten
    /\ OutcomeIsOwn

LEMMA TailFrom ==
  ASSUME NEW S, NEW s \in Seq(S), s # <<>>
  PROVE  \A i \in DOMAIN Tail(s) :
            i \in Nat \ {0} /\ i + 1 \in DOMAIN s /\ Tail(s)[i] = s[i + 1]
OBVIOUS

LEMMA AppendFrom ==
  ASSUME NEW S, NEW s \in Seq(S), NEW e \in S
  PROVE  \A i \in DOMAIN Append(s, e) :
            \/ i \in DOMAIN s /\ Append(s, e)[i] = s[i]
            \/ i = Len(s) + 1 /\ Append(s, e)[i] = e
OBVIOUS

\* What the caller is told follows from how its method ended.
LEMMA OwnOutcome ==
  ASSUME NEW reply \in Envelope, reply.id \in Call, NEW end,
         IsOwn(reply, end), IsDecoded(reply)
  PROVE  IsTold(end, Outcome(reply))
<1> USE NoneAssumption, CallAssumption
<1>1. CASE reply = ProtocolFailure(reply.id) /\ end = None
  <2>1. reply.type = "protocol_error" /\ reply.code = None /\ reply.result = None
    BY <1>1 DEF ProtocolFailure
  <2>2. Outcome(reply) = "ProtocolError"
    BY <2>1 DEF Outcome, Results
  <2> QED
    BY <1>1, <2>2 DEF IsTold
<1>2. CASE end \in Ends \ {"unsendable"} /\ reply = Response(reply.id, end)
  <2>1. CASE end \in {"unknown", "error", "raises"}
    <3> DEFINE code == CASE end = "unknown" -> "METHOD_NOT_FOUND"
                         [] end = "error"   -> "INVALID_PARAMS"
                         [] OTHER           -> "INTERNAL_ERROR"
    <3>1. Response(reply.id, end) = Failure(reply.id, code)
      BY <2>1 DEF Response
    <3>2. reply.type = "response" /\ reply.code = code /\ reply.result = None
      BY <1>2, <3>1 DEF Failure
    <3>3. code \in Codes /\ code # None
      BY <2>1 DEF Codes
    <3>4. Outcome(reply) = ErrorType(code)
      <4> HIDE DEF code
      <4> QED  BY <3>2, <3>3 DEF Outcome, Results
    <3>5. CASE end = "unknown"
      <4>1. code = "METHOD_NOT_FOUND"
        BY <3>5
      <4>2. Outcome(reply) = "MethodNotFoundError"
        BY <3>4, <4>1 DEF ErrorType
      <4> QED
        BY <3>5, <4>2 DEF IsTold
    <3>6. CASE end = "error"
      <4>1. code = "INVALID_PARAMS"
        BY <3>6
      <4>2. Outcome(reply) = "InvalidParamsError"
        BY <3>4, <4>1 DEF ErrorType
      <4> QED
        BY <3>6, <4>2 DEF IsTold
    <3>7. CASE end = "raises"
      <4>1. code = "INTERNAL_ERROR"
        BY <3>7
      <4>2. Outcome(reply) = "RPCError"
        BY <3>4, <4>1 DEF ErrorType
      <4> QED
        BY <3>7, <4>2 DEF IsTold
    <3> QED
      BY <2>1, <3>5, <3>6, <3>7
  <2>2. CASE end \in Results
    <3>1. Response(reply.id, end) = Success(reply.id, end)
      BY <2>2 DEF Response, Results
    <3>2. reply.type = "response" /\ reply.code = None /\ reply.result = end
      BY <1>2, <3>1 DEF Success
    <3>3. Outcome(reply) = IF end = "valid" THEN "returned" ELSE "ProtocolError"
      BY <3>2 DEF Outcome
    <3>4. end \in {"valid", "mismatch"}
      BY <2>2, <3>2 DEF IsDecoded, Results
    <3> QED
      BY <3>3, <3>4 DEF IsTold
  <2> QED
    BY <1>2, <2>1, <2>2 DEF Ends
<1> QED
  BY <1>1, <1>2 DEF IsOwn

LEMMA NoneIsNoOutcome ==
  None \notin {"returned", "ProtocolError", "timeout", "MethodNotFoundError",
               "InvalidParamsError", "RPCError"}
<1>1. /\ ErrorType("METHOD_NOT_FOUND") = "MethodNotFoundError"
      /\ ErrorType("INVALID_PARAMS") = "InvalidParamsError"
      /\ ErrorType("INTERNAL_ERROR") = "RPCError"
  BY DEF ErrorType
<1> QED
  BY <1>1, NoneAssumption DEF Outcomes, Codes

LEMMA AnswerInit == Init => AnswerInv
<1> SUFFICES ASSUME Init PROVE AnswerInv
  OBVIOUS
<1>1. Typed
  BY TypedInit
<1>2. WireFresh /\ RepliesFresh /\ Unwritten
  BY DEF Init, WireFresh, RepliesFresh, Unwritten
<1>3. OutcomeIsOwn
  BY NoneIsNoOutcome DEF Init, OutcomeIsOwn, IsTold
<1> QED
  BY <1>1, <1>2, <1>3 DEF AnswerInv
LEMMA ReplyIds ==
  ASSUME TypeOK
  PROVE  \A k \in DOMAIN replies : replies[k].id \in Call \cup {None}
<1>1. replies \in Seq(Envelope)
  BY DEF TypeOK, Envelope
<1>2. \A k \in DOMAIN replies : replies[k] \in Envelope
  BY <1>1
<1> QED
  BY <1>2 DEF Envelope

LEMMA WriteKeeps ==
  ASSUME AnswerInv, NEW c \in Call, Write(c)
  PROVE  WireFresh' /\ RepliesFresh' /\ Unwritten' /\ OutcomeIsOwn'
<1> USE DEF AnswerInv, Typed, TypeOK
<1>1. /\ record[c] = None /\ wire' = Append(wire, c)
      /\ UNCHANGED <<replies, ended, outcome>>
  BY DEF Write
<1>2. /\ record'[c] # None
      /\ \A d \in Call \ {c} : record'[d] = record[d]
  <2>1. CallRecord \subseteq Record
    BY DEF CallRecord, Record
  <2>2. PICK r \in Record : record' = [record EXCEPT ![c] = r]
    BY <2>1 DEF Write
  <2> QED
    BY <2>2, NoneAssumption
<1>3. \A i \in DOMAIN wire : wire[i] \in Call /\ wire[i] # c
  BY <1>1 DEF WireFresh
<1>4. ended[c] = None /\ IsUnanswered(outcome[c]) /\ \A k \in DOMAIN replies : replies[k].id # c
  BY <1>1 DEF Unwritten, IsUnanswered
<1>5. \A i \in DOMAIN wire' :
        \/ i \in DOMAIN wire /\ wire'[i] = wire[i]
        \/ i = Len(wire) + 1 /\ wire'[i] = c
  BY <1>1, AppendFrom
<1>6. WireFresh'
  BY <1>1, <1>2, <1>3, <1>4, <1>5 DEF WireFresh, IsUnanswered
<1> QED
  BY <1>1, <1>2, <1>6 DEF RepliesFresh, IsOwn, IsUnanswered, Unwritten, OutcomeIsOwn

LEMMA TimeOutKeeps ==
  ASSUME AnswerInv, NEW c \in Call, TimeOut(c)
  PROVE  WireFresh' /\ RepliesFresh' /\ Unwritten' /\ OutcomeIsOwn'
<1> USE DEF AnswerInv, Typed, TypeOK
<1>1. /\ outcome' = [outcome EXCEPT ![c] = "timeout"]
      /\ UNCHANGED <<record, wire, replies, ended>>
  BY DEF TimeOut
<1>2. \A d \in Call : IsUnanswered(outcome[d]) => IsUnanswered(outcome'[d])
  BY <1>1 DEF IsUnanswered
<1>3. WireFresh'
  BY <1>1, <1>2 DEF WireFresh
<1>4. RepliesFresh'
  <2>1. \A k \in DOMAIN replies : replies[k].id # None => replies[k].id \in Call
    BY ReplyIds
  <2> QED
    BY <1>1, <1>2, <2>1 DEF RepliesFresh, IsOwn
<1>5. OutcomeIsOwn'
  <2>1. \A d \in Call : IsTold(ended'[d], outcome'[d])
    <3>1. IsTold(ended[c], "timeout")
      BY DEF IsTold
    <3> QED
      BY <1>1, <3>1 DEF OutcomeIsOwn
  <2> QED
    BY <1>1, <2>1 DEF OutcomeIsOwn, IsTold
<1> QED
  BY <1>1, <1>3, <1>4, <1>5 DEF Unwritten

LEMMA ServeKeeps ==
  ASSUME AnswerInv, Serve
  PROVE  WireFresh' /\ RepliesFresh' /\ Unwritten' /\ OutcomeIsOwn'
<1> USE DEF AnswerInv, Typed, TypeOK
<1> DEFINE c == Head(wire)
<1>1. /\ wire # <<>> /\ wire' = Tail(wire)
      /\ UNCHANGED <<record, pending, outcome>>
  BY DEF Serve
<1>2. /\ c \in Call /\ record[c] # None /\ ended[c] = None /\ IsUnanswered(outcome[c])
      /\ \A k \in DOMAIN replies : replies[k].id # c
  BY <1>1 DEF WireFresh
<1>3. \A i \in DOMAIN wire' :
        i \in Nat \ {0} /\ i + 1 \in DOMAIN wire /\ wire'[i] = wire[i + 1]
  BY <1>1, TailFrom
<1>4. \A i \in DOMAIN wire' : wire'[i] # c
  <2>1. 1 \in DOMAIN wire /\ c = wire[1]
    BY <1>1
  <2> QED
    BY <1>3, <2>1 DEF WireFresh
\* What is served: a reply or none, and how the method ended.
<1>5. PICK e \in Envelope :
        /\ replies' = replies \/ replies' = Append(replies, e)
        /\ e.id = c \/ e.id = None
        /\ \A d \in Call \ {c} : ended'[d] = ended[d]
        /\ replies' # replies =>
              \/ e.id = None
              \/ e = ProtocolFailure(e.id) /\ ended'[c] = None
              \/ ended'[c] \in Ends \ {"unsendable"} /\ e = Response(c, ended'[c])
  <2>1. ASSUME NEW end \in Ends, replies' = replies \o Reply(c, end),
               ended' = [ended EXCEPT ![c] = end]
        PROVE  \E e \in Envelope :
                 /\ replies' = replies \/ replies' = Append(replies, e)
                 /\ e.id = c \/ e.id = None
                 /\ \A d \in Call \ {c} : ended'[d] = ended[d]
                 /\ replies' # replies =>
                      \/ e.id = None
                      \/ e = ProtocolFailure(e.id) /\ ended'[c] = None
                      \/ /\ ended'[c] \in Ends \ {"unsendable"}
                         /\ e = Response(c, ended'[c])
    <3>1. CASE end = "unsendable"
      <4>1. replies' = replies
        BY <2>1, <3>1 DEF Reply
      <4>2. ProtocolFailure(None) \in Envelope /\ ProtocolFailure(None).id = None
        BY DEF ProtocolFailure, Envelope
      <4> HIDE DEF c
      <4> QED
        BY <1>2, <2>1, <4>1, <4>2
    <3>2. CASE end # "unsendable"
      <4>1. Response(c, end) \in Envelope
        BY <1>2, <3>2, ResponseType
      <4>2. Response(c, end).id = c
        BY DEF Response, Success, Failure, Ends
      <4>3. replies' = Append(replies, Response(c, end))
        BY <2>1, <3>2, <4>1 DEF Reply, Envelope
      <4>4. ended'[c] = end /\ \A d \in Call \ {c} : ended'[d] = ended[d]
        BY <1>2, <2>1
      <4> HIDE DEF c
      <4> QED
        BY <3>2, <4>1, <4>2, <4>3, <4>4
    <3> QED
      BY <3>1, <3>2
  <2>2. CASE replies' = Append(replies, ProtocolFailure(RecoveredId(c, record[c])))
             /\ UNCHANGED ended
    <3> DEFINE e == ProtocolFailure(RecoveredId(c, record[c]))
    <3>1. e \in Envelope
      BY <1>2, ProtocolFailureType
    <3>2. e.id = c \/ e.id = None
      BY DEF ProtocolFailure, RecoveredId
    <3>3. e = ProtocolFailure(e.id)
      BY DEF ProtocolFailure
    <3> HIDE DEF e, c
    <3> QED
      BY <1>2, <2>2, <3>1, <3>2, <3>3 DEF e
  <2> QED
    BY <2>1, <2>2 DEF Serve
<1> HIDE DEF c
<1>6. replies \in Seq(Envelope)
  BY DEF Envelope
<1>7. \A k \in DOMAIN replies' :
        \/ k \in DOMAIN replies /\ replies'[k] = replies[k]
        \/ /\ k = Len(replies) + 1 /\ replies'[k] = e
           /\ replies' # replies
  <2>1. Append(replies, e) # replies
    BY <1>6
  <2>2. CASE replies' = replies
    BY <2>2
  <2>3. CASE replies' = Append(replies, e)
    BY <1>6, <2>1, <2>3, AppendFrom
  <2> QED
    BY <1>5, <2>2, <2>3
<1>8. \A k \in DOMAIN replies : replies[k].id \in (Call \ {c}) \cup {None}
  BY <1>2, ReplyIds
<1>9. WireFresh'
  <2>1. ASSUME NEW i \in DOMAIN wire'
        PROVE  /\ wire'[i] \in Call \ {c}
               /\ record'[wire'[i]] # None /\ ended'[wire'[i]] = None
               /\ IsUnanswered(outcome'[wire'[i]])
               /\ \A k \in DOMAIN replies' : replies'[k].id # wire'[i]
    <3>1. wire'[i] \in Call /\ wire'[i] # c
      BY <1>3, <1>4
    <3>2. wire'[i] # None
      BY <3>1, CallAssumption
    <3> QED
      BY <1>1, <1>3, <1>5, <1>7, <3>1, <3>2 DEF WireFresh, IsUnanswered
  <2>2. \A i, j \in DOMAIN wire' : wire'[i] = wire'[j] => i = j
    BY <1>3 DEF WireFresh
  <2> QED
    BY <2>1, <2>2 DEF WireFresh
<1>10. RepliesFresh'
  <2>1. ASSUME NEW k \in DOMAIN replies'
        PROVE  /\ replies'[k].id # None => IsUnanswered(outcome'[replies'[k].id])
               /\ IsOwn(replies'[k], ended'[replies'[k].id])
    <3>1. CASE k \in DOMAIN replies /\ replies'[k] = replies[k]
      <4>1. ended'[replies[k].id] = ended[replies[k].id] \/ replies[k].id = None
        BY <1>5, <1>8, <3>1
      <4> QED
        BY <1>1, <3>1, <4>1 DEF RepliesFresh, IsOwn, IsUnanswered
    <3>2. CASE replies'[k] = e /\ replies' # replies
      BY <1>1, <1>2, <1>5, <3>2 DEF IsOwn, IsUnanswered
    <3> QED
      BY <1>7, <3>1, <3>2
  <2>2. \A j, k \in DOMAIN replies' :
          replies'[j].id = replies'[k].id => j = k \/ replies'[j].id = None
    BY <1>5, <1>7, <1>8 DEF RepliesFresh
  <2> QED
    BY <2>1, <2>2 DEF RepliesFresh
<1>11. Unwritten'
  BY <1>1, <1>2, <1>5, <1>7, CallAssumption DEF Unwritten
<1>12. OutcomeIsOwn'
  <2>1. ASSUME NEW d \in Call PROVE IsTold(ended'[d], outcome'[d])
    <3>1. CASE d = c
      BY <1>1, <1>2, <3>1, NoneIsNoOutcome DEF IsTold, IsUnanswered
    <3>2. CASE d # c
      BY <1>1, <1>5, <3>2 DEF OutcomeIsOwn
    <3> QED
      BY <3>1, <3>2
  <2> QED
    BY <2>1 DEF OutcomeIsOwn, IsTold
<1> QED
  BY <1>9, <1>10, <1>11, <1>12
LEMMA ReadKeeps ==
  ASSUME AnswerInv, Read
  PROVE  WireFresh' /\ RepliesFresh' /\ Unwritten' /\ OutcomeIsOwn'
<1> USE DEF AnswerInv, Typed, TypeOK
<1> DEFINE reply == Head(replies)
<1>1. /\ replies # <<>> /\ replies' = Tail(replies)
      /\ UNCHANGED <<record, wire, ended>>
  BY DEF Read
<1>2. replies \in Seq(Envelope)
  BY DEF Envelope
<1>3. 1 \in DOMAIN replies /\ reply = replies[1] /\ reply \in Envelope
  BY <1>1, <1>2
<1>4. \A k \in DOMAIN replies' :
        k \in Nat \ {0} /\ k + 1 \in DOMAIN replies /\ replies'[k] = replies[k + 1]
  BY <1>1, <1>2, TailFrom
\* Only the call that the reply is for, if any, has another outcome.
<1>5. /\ \A d \in Call : d # reply.id => outcome'[d] = outcome[d]
      /\ \/ outcome' = outcome
         \/ /\ reply.id \in Call /\ IsDecoded(reply)
            /\ outcome'[reply.id] = Outcome(reply)
  <2>1. CASE reply.id \in pending /\ IsDecoded(reply)
    <3>1. outcome' = [outcome EXCEPT ![reply.id] = Outcome(reply)] /\ reply.id \in Call
      BY <2>1 DEF Read
    <3> HIDE DEF reply
    <3> QED
      BY <2>1, <3>1
  <2>2. CASE ~(reply.id \in pending /\ IsDecoded(reply))
    <3>1. outcome' = outcome
      BY <2>2 DEF Read
    <3> HIDE DEF reply
    <3> QED
      BY <3>1
  <2> QED
    BY <2>1, <2>2
<1> HIDE DEF reply
<1>6. \A k \in DOMAIN replies' :
        replies'[k].id \in Call \cup {None} /\ (replies'[k].id = reply.id => reply.id = None)
  BY <1>3, <1>4, ReplyIds DEF RepliesFresh
<1>7. WireFresh'
  <2>1. \A i \in DOMAIN wire : wire[i] \in Call /\ wire[i] # reply.id
    BY <1>3 DEF WireFresh
  <2> QED
    BY <1>1, <1>4, <1>5, <2>1 DEF WireFresh
<1>8. RepliesFresh'
  <2>1. \A k \in DOMAIN replies' : replies'[k].id # None =>
          replies'[k].id \in Call /\ outcome'[replies'[k].id] = outcome[replies'[k].id]
    BY <1>5, <1>6
  <2>2. \A j, k \in DOMAIN replies' :
          replies'[j].id = replies'[k].id => j = k \/ replies'[j].id = None
    BY <1>4 DEF RepliesFresh
  <2> QED
    BY <1>1, <1>4, <2>1, <2>2 DEF RepliesFresh
<1>9. Unwritten'
  BY <1>1, <1>4 DEF Unwritten
<1>10. OutcomeIsOwn'
  <2>1. IsOwn(reply, ended[reply.id])
    BY <1>3 DEF RepliesFresh
  <2>2. reply.id \in Call /\ IsDecoded(reply) => IsTold(ended[reply.id], Outcome(reply))
    BY <1>3, <2>1, OwnOutcome
  <2>3. \A d \in Call : IsTold(ended[d], outcome'[d])
    BY <1>5, <2>2 DEF OutcomeIsOwn
  <2> QED
    BY <1>1, <2>3 DEF OutcomeIsOwn, IsTold
<1> QED
  BY <1>7, <1>8, <1>9, <1>10

LEMMA AnswerStep == AnswerInv /\ [Next]_vars => AnswerInv'
<1> SUFFICES ASSUME AnswerInv, [Next]_vars PROVE AnswerInv'
  OBVIOUS
<1>1. Typed'
  BY TypedStep DEF AnswerInv
<1>2. WireFresh' /\ RepliesFresh' /\ Unwritten' /\ OutcomeIsOwn'
  <2>1. CASE Next
    BY <2>1, WriteKeeps, TimeOutKeeps, ServeKeeps, ReadKeeps DEF Next
  <2>2. CASE UNCHANGED vars
    BY <2>2 DEF vars, AnswerInv, WireFresh, RepliesFresh, Unwritten, OutcomeIsOwn,
                IsTold, IsOwn
  <2> QED
    BY <2>1, <2>2
<1> QED
  BY <1>1, <1>2 DEF AnswerInv

\* Whatever the other requests do and whichever replies come after the timeout of
\* their call, a call is told how its own method ended, and how it really ended.
THEOREM OutcomesAreOwn == Spec => []OutcomeIsOwn
<1>1. AnswerInv => OutcomeIsOwn
  BY DEF AnswerInv
<1> QED
  BY <1>1, AnswerInit, AnswerStep, PTL DEF Spec

-----------------------------------------------------------------------------
\* Counting the answers of a request.

LEMMA CountOfDistinct ==
  ASSUME NEW c, NEW S, NEW s \in Seq(S),
         \A i, j \in DOMAIN s : s[i] = c /\ s[j] = c => i = j
  PROVE  /\ Count(c, s) \in {0, 1}
         /\ (\A i \in DOMAIN s : s[i] # c) => Count(c, s) = 0
         /\ (\E i \in DOMAIN s : s[i] = c) => Count(c, s) = 1
<1> DEFINE Places == {i \in DOMAIN s : s[i] = c}
<1>1. CASE Places = {}
  BY <1>1, FS_EmptySet DEF Count
<1>2. CASE Places # {}
  <2>1. PICK i \in DOMAIN s : Places = {i}
    BY <1>2
  <2>2. Cardinality({i}) = 1
    BY FS_Singleton
  <2> QED
    BY <1>2, <2>1, <2>2 DEF Count
<1> QED
  BY <1>1, <1>2

LEMMA AnswerInvCounts == AnswerInv => AnsweredOnce
<1> SUFFICES ASSUME AnswerInv, NEW c \in Call
             PROVE  Count(c, wire) + Count(c, Ids(replies))
                      + (IF outcome[c] \in {None, "timeout"} THEN 0 ELSE 1) <= 1
  BY DEF AnsweredOnce
<1> USE DEF AnswerInv, Typed, TypeOK
<1> DEFINE ids == Ids(replies)
<1>1. /\ ids \in Seq(Call \cup {None}) /\ DOMAIN ids = DOMAIN replies
      /\ \A k \in DOMAIN replies : ids[k] = replies[k].id
  BY ReplyIds DEF Ids
<1>2. c # None
  BY CallAssumption
<1> HIDE DEF ids
<1>3. Count(c, wire) \in {0, 1}
      /\ ((\A i \in DOMAIN wire : wire[i] # c) => Count(c, wire) = 0)
  BY CountOfDistinct DEF WireFresh
<1>4. Count(c, ids) \in {0, 1}
      /\ ((\A k \in DOMAIN ids : ids[k] # c) => Count(c, ids) = 0)
  <2>1. \A j, k \in DOMAIN ids : ids[j] = c /\ ids[k] = c => j = k
    BY <1>1, <1>2 DEF RepliesFresh
  <2> QED
    BY <1>1, <2>1, CountOfDistinct
<1>5. CASE \E i \in DOMAIN wire : wire[i] = c
  <2>1. Count(c, ids) = 0 /\ IsUnanswered(outcome[c])
    BY <1>1, <1>4, <1>5 DEF WireFresh
  <2> QED
    BY <1>3, <2>1 DEF IsUnanswered, ids
<1>6. CASE \E k \in DOMAIN replies : replies[k].id = c
  <2>1. Count(c, wire) = 0
    BY <1>3, <1>6 DEF WireFresh
  <2>2. IsUnanswered(outcome[c])
    BY <1>2, <1>6 DEF RepliesFresh
  <2> QED
    BY <1>4, <2>1, <2>2 DEF IsUnanswered, ids
<1>7. CASE /\ \A i \in DOMAIN wire : wire[i] # c
           /\ \A k \in DOMAIN replies : replies[k].id # c
  BY <1>1, <1>3, <1>4, <1>7 DEF ids
<1> QED
  BY <1>5, <1>6, <1>7

\* Every request is answered at most once: while it is on the wire, or its reply
\* is, it has no outcome but its timeout, and it is never in both places.
THEOREM OneAnswer == Spec => []AnsweredOnce
BY AnswerInit, AnswerStep, AnswerInvCounts, PTL DEF Spec

-----------------------------------------------------------------------------
\* No call waits for an answer that the server could give.

\* Why no answer of a request reaches its caller
Excused(c) ==
    \/ ended[c] \in {"unsendable", "oversized"}
    \/ record[c].json # "object" \/ record[c].id = "unusable"

UnderWay(c) ==
    \/ \E i \in DOMAIN wire : wire[i] = c
    \/ \E k \in DOMAIN replies : replies[k].id = c

WaitsForSomething == \A c \in pending : UnderWay(c) \/ Excused(c)

\* The places of a sequence with one element more, or one less.
LEMMA AppendHas ==
  ASSUME NEW S, NEW s \in Seq(S), NEW e \in S
  PROVE  /\ \A i \in DOMAIN s : i \in DOMAIN Append(s, e) /\ Append(s, e)[i] = s[i]
         /\ Len(s) + 1 \in DOMAIN Append(s, e) /\ Append(s, e)[Len(s) + 1] = e
OBVIOUS

LEMMA TailHas ==
  ASSUME NEW S, NEW s \in Seq(S), s # <<>>
  PROVE  /\ 1 \in DOMAIN s /\ Head(s) = s[1]
         /\ \A i \in DOMAIN s :
              \/ i = 1
              \/ i - 1 \in DOMAIN Tail(s) /\ Tail(s)[i - 1] = s[i]
OBVIOUS

\* Only a result that is too long is not decoded.
LEMMA OversizedIsOwn ==
  ASSUME NEW reply, reply.id # None, NEW end, IsOwn(reply, end), ~IsDecoded(reply)
  PROVE  end = "oversized"
<1>1. None # "oversized"
  BY NoneAssumption DEF Results
<1>2. reply.result = "oversized"
  BY DEF IsDecoded
<1>3. reply # ProtocolFailure(reply.id)
  BY <1>1, <1>2 DEF ProtocolFailure
<1>4. end \in Ends \ {"unsendable"} /\ reply = Response(reply.id, end)
  BY <1>3 DEF IsOwn
<1>5. end \notin {"unknown", "error", "raises"}
  BY <1>1, <1>2, <1>4 DEF Response, Failure
<1> QED
  BY <1>2, <1>4, <1>5 DEF Response, Success, Ends, Results

LEMMA WriteWaits ==
  ASSUME AnswerInv, WaitsForSomething, NEW c \in Call, Write(c)
  PROVE  WaitsForSomething'
<1> USE DEF AnswerInv, Typed, TypeOK
<1>1. /\ wire' = Append(wire, c) /\ pending' = pending \cup {c}
      /\ UNCHANGED <<replies, ended, outcome>>
      /\ \A d \in Call \ {c} : record'[d] = record[d]
  BY DEF Write
<1>2. /\ \A i \in DOMAIN wire : i \in DOMAIN wire' /\ wire'[i] = wire[i]
      /\ Len(wire) + 1 \in DOMAIN wire' /\ wire'[Len(wire) + 1] = c
  BY <1>1, AppendHas
<1>3. \A d \in Call : UnderWay(d) => UnderWay(d)'
  BY <1>1, <1>2 DEF UnderWay
<1>4. UnderWay(c)'
  BY <1>2 DEF UnderWay
<1>5. \A d \in Call \ {c} : Excused(d) => Excused(d)'
  BY <1>1 DEF Excused
<1> QED
  BY <1>1, <1>3, <1>4, <1>5 DEF WaitsForSomething

LEMMA ServeWaits ==
  ASSUME AnswerInv, WaitsForSomething, Serve
  PROVE  WaitsForSomething'
<1> USE DEF AnswerInv, Typed, TypeOK
<1>0. PICK c \in Call : c = Head(wire)
  <2>1. Head(wire) \in Call
    BY DEF Serve
  <2> QED
    BY <2>1
<1>1. /\ wire # <<>> /\ wire' = Tail(wire)
      /\ UNCHANGED <<record, pending, outcome>>
  BY DEF Serve
<1>2. /\ c \in Call
      /\ \A i \in DOMAIN wire :
            wire[i] = c \/ (i - 1 \in DOMAIN wire' /\ wire'[i - 1] = wire[i])
  <2>1. /\ 1 \in DOMAIN wire /\ c = wire[1]
        /\ \A i \in DOMAIN wire :
              i = 1 \/ (i - 1 \in DOMAIN wire' /\ wire'[i - 1] = wire[i])
    BY <1>0, <1>1, TailHas
  <2> QED
    BY <2>1
<1>3. replies \in Seq(Envelope)
  BY DEF Envelope
<1>4. /\ \A d \in Call \ {c} : ended'[d] = ended[d]
      /\ \A k \in DOMAIN replies : k \in DOMAIN replies' /\ replies'[k] = replies[k]
      /\ UnderWay(c)' \/ Excused(c)'
  <2>1. ASSUME NEW end \in Ends, replies' = replies \o Reply(c, end),
               ended' = [ended EXCEPT ![c] = end]
        PROVE  /\ \A d \in Call \ {c} : ended'[d] = ended[d]
               /\ \A k \in DOMAIN replies : k \in DOMAIN replies' /\ replies'[k] = replies[k]
               /\ UnderWay(c)' \/ Excused(c)'
    <3>0. ended'[c] = end /\ \A d \in Call \ {c} : ended'[d] = ended[d]
      BY <1>2, <2>1
    <3>1. CASE end = "unsendable"
      <4>1. replies' = replies
        BY <2>1, <3>1, <1>3 DEF Reply
      <4> QED
        BY <3>0, <3>1, <4>1 DEF Excused
    <3>2. CASE end # "unsendable"
      <4>1. Response(c, end) \in Envelope /\ Response(c, end).id = c
        BY <1>2, <3>2, ResponseType DEF Response, Success, Failure, Ends
      <4>2. replies' = Append(replies, Response(c, end))
        BY <2>1, <3>2, <4>1 DEF Reply, Envelope
      <4> QED
        BY <1>3, <3>0, <4>1, <4>2, AppendHas DEF UnderWay
    <3> QED
      BY <3>1, <3>2
  <2>2. ASSUME replies' = Append(replies, ProtocolFailure(RecoveredId(c, record[c]))),
               UNCHANGED ended
        PROVE  /\ \A d \in Call \ {c} : ended'[d] = ended[d]
               /\ \A k \in DOMAIN replies : k \in DOMAIN replies' /\ replies'[k] = replies[k]
               /\ UnderWay(c)' \/ Excused(c)'
    <3> DEFINE e == ProtocolFailure(RecoveredId(c, record[c]))
    <3>1. e \in Envelope
      BY <1>2, ProtocolFailureType
    <3>2. e.id = c \/ Excused(c)
      <4>1. record[c] # None => record[c].id \in {"usable", "unusable"}
        BY <1>2 DEF Record
      <4>2. record[c] # None
        BY <1>0, <1>1 DEF WireFresh
      <4> QED
        BY <4>1, <4>2 DEF ProtocolFailure, RecoveredId, Excused
    <3>3. Excused(c) => Excused(c)'
      BY <1>1, <2>2 DEF Excused
    <3> HIDE DEF e
    <3>4. /\ \A k \in DOMAIN replies : k \in DOMAIN replies' /\ replies'[k] = replies[k]
          /\ Len(replies) + 1 \in DOMAIN replies' /\ replies'[Len(replies) + 1] = e
      BY <1>3, <2>2, <3>1, AppendHas DEF e
    <3> QED
      BY <2>2, <3>2, <3>3, <3>4 DEF UnderWay
  <2> QED
    BY <2>1, <2>2, <1>0 DEF Serve
<1>5. ASSUME NEW d \in pending PROVE UnderWay(d)' \/ Excused(d)'
  <2>1. CASE d = c
    BY <2>1, <1>4
  <2>2. CASE d # c
    <3>1. UnderWay(d) => UnderWay(d)'
      BY <2>2, <1>2, <1>4 DEF UnderWay
    <3>2. Excused(d) => Excused(d)'
      BY <2>2, <1>1, <1>4 DEF Excused
    <3> QED
      BY <3>1, <3>2 DEF WaitsForSomething
  <2> QED
    BY <2>1, <2>2
<1> QED
  BY <1>1, <1>5 DEF WaitsForSomething

LEMMA ReadWaits ==
  ASSUME AnswerInv, WaitsForSomething, Read
  PROVE  WaitsForSomething'
<1> USE DEF AnswerInv, Typed, TypeOK
<1> DEFINE reply == Head(replies)
<1>1. /\ replies # <<>> /\ replies' = Tail(replies)
      /\ UNCHANGED <<record, wire, ended>>
  BY DEF Read
<1>2. replies \in Seq(Envelope)
  BY DEF Envelope
<1>3. /\ 1 \in DOMAIN replies /\ reply = replies[1]
      /\ \A k \in DOMAIN replies :
            k = 1 \/ (k - 1 \in DOMAIN replies' /\ replies'[k - 1] = replies[k])
  BY <1>1, <1>2, TailHas
<1>4. /\ pending' \subseteq pending
      /\ reply.id \in pending' => ~IsDecoded(reply)
  <2>1. CASE reply.id \in pending /\ IsDecoded(reply)
    <3>1. pending' = pending \ {reply.id}
      BY <2>1 DEF Read
    <3> QED
      BY <3>1
  <2>2. CASE ~(reply.id \in pending /\ IsDecoded(reply))
    <3>1. pending' = pending
      BY <2>2 DEF Read
    <3> QED
      BY <2>2, <3>1
  <2> QED
    BY <2>1, <2>2
<1>5. reply.id \in pending' => Excused(reply.id)
  <2> SUFFICES ASSUME reply.id \in pending' PROVE Excused(reply.id)
    OBVIOUS
  <2>1. reply.id # None /\ IsOwn(reply, ended[reply.id]) /\ ~IsDecoded(reply)
    BY <1>3, <1>4, CallAssumption DEF RepliesFresh
  <2> HIDE DEF reply
  <2> QED
    BY <2>1, OversizedIsOwn DEF Excused
<1> HIDE DEF reply
<1>6. ASSUME NEW d \in pending' PROVE UnderWay(d)' \/ Excused(d)'
  <2>1. Excused(d) => Excused(d)'
    BY <1>1 DEF Excused
  <2>2. CASE d = reply.id
    BY <2>1, <2>2, <1>5, <1>6
  <2>3. CASE d # reply.id
    <3>1. UnderWay(d) => UnderWay(d)'
      BY <2>3, <1>1, <1>3 DEF UnderWay
    <3> QED
      BY <3>1, <2>1, <1>4 DEF WaitsForSomething
  <2> QED
    BY <2>2, <2>3
<1> QED
  BY <1>6 DEF WaitsForSomething

LEMMA WaitsStep == AnswerInv /\ WaitsForSomething /\ [Next]_vars => WaitsForSomething'
<1> SUFFICES ASSUME AnswerInv, WaitsForSomething, [Next]_vars PROVE WaitsForSomething'
  OBVIOUS
<1>1. ASSUME NEW c \in Call, Write(c) PROVE WaitsForSomething'
  BY <1>1, WriteWaits
<1>2. ASSUME NEW c \in Call, TimeOut(c) PROVE WaitsForSomething'
  BY <1>2 DEF TimeOut, WaitsForSomething, UnderWay, Excused
<1>3. CASE Serve
  BY <1>3, ServeWaits
<1>4. CASE Read
  BY <1>4, ReadWaits
<1>5. CASE UNCHANGED vars
  BY <1>5 DEF vars, WaitsForSomething, UnderWay, Excused
<1> QED
  BY <1>1, <1>2, <1>3, <1>4, <1>5 DEF Next

LEMMA WaitsAnswered == AnswerInv /\ WaitsForSomething => AnsweredIfPossible
<1> SUFFICES ASSUME AnswerInv, WaitsForSomething, NEW c \in Call, WaitsInVain(c)
             PROVE  Excused(c)
  BY DEF AnsweredIfPossible, Excused
<1> USE DEF AnswerInv, Typed, TypeOK
<1> DEFINE ids == Ids(replies)
<1>1. /\ ids \in Seq(Call \cup {None}) /\ DOMAIN ids = DOMAIN replies
      /\ \A k \in DOMAIN replies : ids[k] = replies[k].id
  BY ReplyIds DEF Ids
<1>2. c # None /\ c \in pending /\ Count(c, wire) + Count(c, ids) = 0
  BY CallAssumption DEF WaitsInVain
<1> HIDE DEF ids
<1>3. Count(c, wire) \in {0, 1}
      /\ ((\E i \in DOMAIN wire : wire[i] = c) => Count(c, wire) = 1)
  BY CountOfDistinct DEF WireFresh
<1>4. Count(c, ids) \in {0, 1}
      /\ ((\E k \in DOMAIN ids : ids[k] = c) => Count(c, ids) = 1)
  <2>1. \A j, k \in DOMAIN ids : ids[j] = c /\ ids[k] = c => j = k
    BY <1>1, <1>2 DEF RepliesFresh
  <2> QED
    BY <1>1, <2>1, CountOfDistinct
<1>5. ~UnderWay(c)
  BY <1>1, <1>2, <1>3, <1>4 DEF UnderWay
<1> QED
  BY <1>2, <1>5 DEF WaitsForSomething

\* For any calls, flaws and ends of methods, and whatever times out meanwhile, a
\* call that waits has its request or a reply under way, unless the server found no
\* id in it (protocol.lua) or its result cannot reach the client (server.lua, send).
THEOREM AnsweredWherePossible == Spec => []AnsweredIfPossible
<1>1. Init => AnswerInv /\ WaitsForSomething
  BY AnswerInit DEF Init, WaitsForSomething
<1>2. (AnswerInv /\ WaitsForSomething) /\ [Next]_vars => (AnswerInv /\ WaitsForSomething)'
  BY AnswerStep, WaitsStep
<1> QED
  BY <1>1, <1>2, WaitsAnswered, PTL DEF Spec
=============================================================================
