---------------------- MODULE SubscriptionMemoryProofs ----------------------
(***************************************************************************)
(* Proofs about SubscriptionMemory, for any patterns, calls and losses.    *)
(***************************************************************************)
EXTENDS SubscriptionMemory, TLAPS

-----------------------------------------------------------------------------
\* At most one handshake is under way: its requests and their answers are not
\* doubled, and an answer is late only while the link is down.

Handshake == {"capabilities", "restore"}
LinkDuring(who) == IF who = "capabilities" THEN "negotiating" ELSE "restoring"

Answers == {Answer(m, result) : m \in Requests, result \in SUBSET Pattern}

AtMostOne(who, s) ==
    \A i, j \in DOMAIN s : s[i].caller = who /\ s[j].caller = who => i = j

OneHandshake ==
    \A who \in Handshake :
        /\ AtMostOne(who, wire)
        /\ AtMostOne(who, answered)
        /\ \A i \in DOMAIN wire, j \in DOMAIN answered :
              ~(wire[i].caller = who /\ answered[j].caller = who)
        /\ \A j \in DOMAIN answered :
              answered[j].caller = who => link \in {"down", LinkDuring(who)}

\* The calls of the application are never capability requests.
OwnKinds(s) ==
    \A i \in DOMAIN s : s[i].caller \in Op => s[i].kind # "capabilities"

MemoryInv == TypeOK /\ OneHandshake /\ OwnKinds(wire) /\ OwnKinds(answered)

-----------------------------------------------------------------------------

LEMMA TailFrom ==
  ASSUME NEW S, NEW s \in Seq(S), s # <<>>
  PROVE  /\ Tail(s) \in Seq(S)
         /\ Head(s) \in S /\ 1 \in DOMAIN s /\ Head(s) = s[1]
         /\ \A i \in DOMAIN Tail(s) :
              i \in Nat \ {0} /\ i + 1 \in DOMAIN s /\ Tail(s)[i] = s[i + 1]
OBVIOUS

LEMMA AppendFrom ==
  ASSUME NEW S, NEW s \in Seq(S), NEW e \in S
  PROVE  /\ Append(s, e) \in Seq(S)
         /\ \A i \in DOMAIN Append(s, e) :
              \/ i \in DOMAIN s /\ Append(s, e)[i] = s[i]
              \/ i = Len(s) + 1 /\ i \notin DOMAIN s /\ Append(s, e)[i] = e
OBVIOUS

LEMMA PrefixFrom ==
  ASSUME NEW S, NEW s \in Seq(S), NEW n \in 0 .. Len(s)
  PROVE  /\ SubSeq(s, 1, n) \in Seq(S)
         /\ \A i \in DOMAIN SubSeq(s, 1, n) :
              i \in DOMAIN s /\ SubSeq(s, 1, n)[i] = s[i]
OBVIOUS

LEMMA AnswerFields ==
  ASSUME NEW a \in Answers
  PROVE  /\ a.caller \in Caller /\ a.items \in SUBSET Pattern
         /\ a.result \in SUBSET Pattern
         /\ a.kind \in {"capabilities", "subscribe", "unsubscribe",
                        "unsubscribeAll", "getSubscriptions"}
BY DEF Answers, Answer, Requests

LEMMA ServedType ==
  ASSUME TypeOK, NEW m \in Requests
  PROVE  Served(m.kind, m.items) \subseteq Pattern
<1>1. registry \subseteq Pattern /\ m.items \subseteq Pattern
  BY DEF TypeOK, Requests
<1> QED
  BY <1>1 DEF Served

LEMMA RememberedType ==
  ASSUME TypeOK, NEW a \in Answers, a.kind # "capabilities"
  PROVE  Remembered(a.kind, a.items, a.result) \subseteq Pattern
<1>1. memory \subseteq Pattern
  BY DEF TypeOK
<1> QED
  BY <1>1, AnswerFields DEF Remembered

LEMMA MemoryInit == Init => MemoryInv
<1> SUFFICES ASSUME Init PROVE MemoryInv
  OBVIOUS
<1>1. TypeOK
  BY MemoryAssumption DEF Init, TypeOK
<1>2. OneHandshake /\ OwnKinds(wire) /\ OwnKinds(answered)
  BY DEF Init, OneHandshake, AtMostOne, OwnKinds
<1> QED
  BY <1>1, <1>2 DEF MemoryInv

\* What a response leaves behind when its caller goes on.
LEMMA AfterHead ==
  ASSUME MemoryInv, answered # <<>>
  PROVE  /\ Head(answered) \in Answers
         /\ Tail(answered) \in Seq(Answers)
         /\ OwnKinds(Tail(answered))
         /\ Head(answered).caller \in Op => Head(answered).kind # "capabilities"
         /\ \A who \in Handshake :
              /\ AtMostOne(who, Tail(answered))
              /\ \A j \in DOMAIN Tail(answered) : Tail(answered)[j].caller = who =>
                    /\ Head(answered).caller # who
                    /\ link \in {"down", LinkDuring(who)}
                    /\ \A i \in DOMAIN wire : wire[i].caller # who
              /\ Head(answered).caller = who =>
                    /\ link \in {"down", LinkDuring(who)}
                    /\ \A i \in DOMAIN wire : wire[i].caller # who
<1> USE DEF MemoryInv, OneHandshake, AtMostOne, OwnKinds
<1>1. answered \in Seq(Answers)
  BY DEF TypeOK, Answers
<1>2. /\ Tail(answered) \in Seq(Answers)
      /\ Head(answered) \in Answers
      /\ 1 \in DOMAIN answered /\ Head(answered) = answered[1]
      /\ \A i \in DOMAIN Tail(answered) :
            /\ i \in Nat \ {0} /\ i + 1 \in DOMAIN answered
            /\ Tail(answered)[i] = answered[i + 1]
  BY <1>1, TailFrom
<1>3. ASSUME NEW who \in Handshake
      PROVE  /\ AtMostOne(who, Tail(answered))
             /\ \A j \in DOMAIN Tail(answered) : Tail(answered)[j].caller = who =>
                    Head(answered).caller # who
  BY <1>2
<1>4. ASSUME NEW who \in Handshake, NEW j \in DOMAIN answered,
             answered[j].caller = who
      PROVE  /\ link \in {"down", LinkDuring(who)}
             /\ \A i \in DOMAIN wire : wire[i].caller # who
  BY <1>4
<1> QED
  BY <1>2, <1>3, <1>4

-----------------------------------------------------------------------------
\* The steps, one lemma per action that writes, answers or reads.

LEMMA CallKeeps ==
  ASSUME MemoryInv, NEW o \in Op, Call(o)
  PROVE  MemoryInv'
<1> USE DEF MemoryInv
<1>1. PICK m \in Methods : /\ wire' = Append(wire, Message(o, m[1], m[2]))
                           /\ last' = [p \in Pattern |-> IF p \in m[2] THEN o ELSE last[p]]
                           /\ kindOf' = [kindOf EXCEPT ![o] = m[1]]
  BY DEF Call
<1> DEFINE e == Message(o, m[1], m[2])
<1>2. /\ e \in Requests /\ e.caller = o /\ o \notin Handshake
      /\ e.kind # "capabilities"
  <2>1. m[1] \in {"subscribe", "unsubscribe", "unsubscribeAll", "getSubscriptions"}
        /\ m[2] \in SUBSET Pattern
    BY DEF Methods
  <2>2. o \in Caller /\ o \notin Handshake
    BY MemoryAssumption DEF Caller, Handshake
  <2> QED
    BY <2>1, <2>2 DEF Message, Requests
<1>3. wire \in Seq(Requests)
  BY DEF TypeOK
<1>4. /\ wire' \in Seq(Requests)
      /\ \A i \in DOMAIN wire' :
            \/ i \in DOMAIN wire /\ wire'[i] = wire[i]
            \/ wire'[i] = e
  BY <1>1, <1>2, <1>3, AppendFrom
<1> HIDE DEF e
<1>5. TypeOK'
  <2>1. op' \in [Op -> {"idle", "sent", "done", "failed"}]
    BY DEF TypeOK, Call
  <2>2. last' \in [Pattern -> Op \cup {None}]
    BY <1>1 DEF TypeOK
  <2>4. kindOf' \in [Op -> {x[1] : x \in Methods} \cup {None}]
    BY <1>1 DEF TypeOK
  <2>3. \A i \in DOMAIN wire' :
          /\ wire'[i].caller = "capabilities" => link' = "negotiating"
          /\ wire'[i].caller = "restore" => link' = "restoring"
    BY <1>2, <1>4 DEF TypeOK, Call, Handshake
  <2> QED
    BY <2>1, <2>2, <2>3, <2>4, <1>4 DEF TypeOK, Call
<1>6. OneHandshake'
  <2> SUFFICES ASSUME NEW who \in Handshake
               PROVE  /\ AtMostOne(who, wire')
                      /\ AtMostOne(who, answered')
                      /\ \A i \in DOMAIN wire', j \in DOMAIN answered' :
                            ~(wire'[i].caller = who /\ answered'[j].caller = who)
                      /\ \A j \in DOMAIN answered' :
                            answered'[j].caller = who => link' \in {"down", LinkDuring(who)}
    BY DEF OneHandshake, AtMostOne
  <2>1. \A i \in DOMAIN wire' :
          wire'[i].caller = who => i \in DOMAIN wire /\ wire'[i] = wire[i]
    BY <1>2, <1>4
  <2> QED
    BY <2>1 DEF OneHandshake, AtMostOne, Call
<1>7. OwnKinds(wire)' /\ OwnKinds(answered)'
  BY <1>2, <1>4 DEF OwnKinds, Call
<1> QED
  BY <1>5, <1>6, <1>7

LEMMA HandleKeeps ==
  ASSUME MemoryInv, Handle
  PROVE  MemoryInv'
<1> USE DEF MemoryInv
<1> DEFINE m == Head(wire)
           a == Answer(m, registry')
<1>1. wire \in Seq(Requests) /\ wire # <<>> /\ answered \in Seq(Answers)
  BY DEF TypeOK, Answers, Handle
<1>2. /\ wire' = Tail(wire)
      /\ answered' = Append(answered, a)
      /\ registry' = Served(m.kind, m.items)
      /\ UNCHANGED <<memory, link, op, last, kindOf, losses>>
  BY DEF Handle
<1>3. /\ wire' \in Seq(Requests)
      /\ m \in Requests /\ 1 \in DOMAIN wire /\ m = wire[1]
      /\ \A i \in DOMAIN wire' :
            i \in Nat \ {0} /\ i + 1 \in DOMAIN wire /\ wire'[i] = wire[i + 1]
  BY <1>1, <1>2, TailFrom
<1>4. registry' \subseteq Pattern
  BY <1>2, <1>3, ServedType
<1>5. a \in Answers /\ a.caller = m.caller /\ a.kind = m.kind
  <2>1. \A x \in Requests, result \in SUBSET Pattern : Answer(x, result) \in Answers
    BY DEF Answers
  <2>2. a \in Answers
    BY <1>3, <1>4, <2>1
  <2> QED
    BY <2>2 DEF Answer
<1>6. /\ answered' \in Seq(Answers)
      /\ \A j \in DOMAIN answered' :
            \/ j \in DOMAIN answered /\ answered'[j] = answered[j]
            \/ j = Len(answered) + 1 /\ answered'[j] = a
  BY <1>1, <1>2, <1>5, AppendFrom
<1> HIDE DEF m, a
<1>7. TypeOK'
  <2>1. link' = "down" => wire' = <<>>
    BY <1>1, <1>2 DEF TypeOK
  <2>2. \A i \in DOMAIN wire' :
          /\ wire'[i].caller = "capabilities" => link' = "negotiating"
          /\ wire'[i].caller = "restore" => link' = "restoring"
    BY <1>2, <1>3 DEF TypeOK
  <2> QED
    BY <1>2, <1>3, <1>4, <1>6, <2>1, <2>2 DEF TypeOK, Answers
<1>8. OneHandshake'
  <2> SUFFICES ASSUME NEW who \in Handshake
               PROVE  /\ AtMostOne(who, wire')
                      /\ AtMostOne(who, answered')
                      /\ \A i \in DOMAIN wire', j \in DOMAIN answered' :
                            ~(wire'[i].caller = who /\ answered'[j].caller = who)
                      /\ \A j \in DOMAIN answered' :
                            answered'[j].caller = who => link' \in {"down", LinkDuring(who)}
    BY DEF OneHandshake, AtMostOne
  <2>1. AtMostOne(who, wire')
    BY <1>3 DEF OneHandshake, AtMostOne
  <2>2. \A j \in DOMAIN answered :
          answered[j].caller = who => \A i \in DOMAIN wire : wire[i].caller # who
    BY DEF OneHandshake
  <2>3. m.caller = who => \A i \in DOMAIN wire' : wire'[i].caller # who
    <3> SUFFICES ASSUME m.caller = who, NEW i \in DOMAIN wire', wire'[i].caller = who
                 PROVE  FALSE
      OBVIOUS
    <3>1. i + 1 \in DOMAIN wire /\ wire[i + 1].caller = who /\ wire[1].caller = who
      BY <1>3
    <3>2. i + 1 = 1
      BY <3>1, <1>3 DEF OneHandshake, AtMostOne
    <3> QED
      BY <3>2, <1>3
  <2>4. AtMostOne(who, answered')
    BY <1>3, <1>5, <1>6, <2>2 DEF OneHandshake, AtMostOne
  <2>5. \A i \in DOMAIN wire', j \in DOMAIN answered' :
          ~(wire'[i].caller = who /\ answered'[j].caller = who)
    BY <1>3, <1>5, <1>6, <2>2, <2>3
  <2>6. m.caller = who => link = LinkDuring(who)
    BY <1>3 DEF TypeOK, LinkDuring, Handshake
  <2>7. \A j \in DOMAIN answered' :
          answered'[j].caller = who => link' \in {"down", LinkDuring(who)}
    BY <1>2, <1>5, <1>6, <2>6 DEF OneHandshake
  <2> QED
    BY <2>1, <2>4, <2>5, <2>7
<1>9. OwnKinds(wire)' /\ OwnKinds(answered)'
  BY <1>3, <1>5, <1>6 DEF OwnKinds
<1> QED
  BY <1>7, <1>8, <1>9

LEMMA ResumeKeeps ==
  ASSUME MemoryInv, NEW o \in Op, Resume(o)
  PROVE  MemoryInv'
<1> USE DEF MemoryInv
<1>1. /\ answered # <<>> /\ Head(answered).caller = o
      /\ answered' = Tail(answered)
      /\ UNCHANGED <<registry, link, wire, last, kindOf, losses>>
  BY DEF Resume
<1>2. /\ Head(answered) \in Answers
      /\ Tail(answered) \in Seq(Answers)
      /\ OwnKinds(Tail(answered))
      /\ Head(answered).kind # "capabilities"
      /\ \A who \in Handshake :
            /\ AtMostOne(who, Tail(answered))
            /\ \A j \in DOMAIN Tail(answered) : Tail(answered)[j].caller = who =>
                  /\ link \in {"down", LinkDuring(who)}
                  /\ \A i \in DOMAIN wire : wire[i].caller # who
  BY <1>1, AfterHead
<1>3. /\ memory' \subseteq Pattern
      /\ op' \in [Op -> {"idle", "sent", "done", "failed"}]
  <2>1. CASE op[o] = "sent"
    <3>1. memory' = Remembered(Head(answered).kind, Head(answered).items,
                               Head(answered).result)
      BY <2>1 DEF Resume
    <3>2. op' = [op EXCEPT ![o] = "done"]
      BY <2>1 DEF Resume
    <3> QED
      BY <1>2, <3>1, <3>2, RememberedType DEF TypeOK
  <2>2. CASE op[o] # "sent"
    BY <2>2 DEF Resume, TypeOK
  <2> QED
    BY <2>1, <2>2
<1>4. TypeOK'
  BY <1>1, <1>2, <1>3 DEF TypeOK, Answers
<1>5. OneHandshake'
  BY <1>1, <1>2 DEF OneHandshake, AtMostOne
<1>6. OwnKinds(wire)' /\ OwnKinds(answered)'
  BY <1>1, <1>2 DEF OwnKinds
<1> QED
  BY <1>4, <1>5, <1>6

LEMMA ResumeHandshakeKeeps ==
  ASSUME MemoryInv, ResumeHandshake
  PROVE  MemoryInv'
<1> USE DEF MemoryInv
<1>1. /\ answered # <<>> /\ Head(answered).caller = "capabilities"
      /\ answered' = Tail(answered)
      /\ UNCHANGED <<memory, registry, op, last, kindOf, losses>>
  BY DEF ResumeHandshake, CapabilitiesCame
<1>2. /\ Tail(answered) \in Seq(Answers)
      /\ OwnKinds(Tail(answered))
      /\ \A who \in Handshake :
            /\ AtMostOne(who, Tail(answered))
            /\ \A j \in DOMAIN Tail(answered) : Tail(answered)[j].caller = who =>
                  /\ who = "restore"
                  /\ link \in {"down", "restoring"}
                  /\ \A i \in DOMAIN wire : wire[i].caller # who
      /\ \A i \in DOMAIN wire : wire[i].caller # "capabilities"
  BY <1>1, AfterHead DEF Handshake, LinkDuring
<1>3. CASE link # "negotiating"
  <2>1. UNCHANGED <<link, wire>>
    BY <1>3 DEF ResumeHandshake
  <2>2. TypeOK'
    BY <1>1, <1>2, <2>1 DEF TypeOK, Answers
  <2>3. OneHandshake'
    BY <1>1, <1>2, <2>1 DEF OneHandshake, AtMostOne, LinkDuring
  <2> QED
    BY <1>1, <1>2, <2>1, <2>2, <2>3 DEF OwnKinds
<1>4. ASSUME link = "negotiating"
      PROVE  /\ \A i \in DOMAIN wire : wire[i].caller \notin Handshake
             /\ \A j \in DOMAIN answered' : answered'[j].caller \notin Handshake
  BY <1>1, <1>2, <1>4 DEF TypeOK, Handshake
<1>5. CASE link = "negotiating" /\ memory = {}
  <2>1. link' = "up" /\ wire' = wire
    BY <1>5 DEF ResumeHandshake
  <2>2. TypeOK'
    BY <1>1, <1>2, <1>4, <1>5, <2>1 DEF TypeOK, Answers, Handshake
  <2>3. OneHandshake'
    BY <1>1, <1>4, <1>5, <2>1 DEF OneHandshake, AtMostOne
  <2> QED
    BY <1>1, <1>2, <2>1, <2>2, <2>3 DEF OwnKinds
<1>6. CASE link = "negotiating" /\ memory # {}
  <2> DEFINE e == Message("restore", "subscribe", memory)
  <2>1. link' = "restoring" /\ wire' = Append(wire, e)
    BY <1>6 DEF ResumeHandshake, Replay
  <2>2. e \in Requests /\ e.caller = "restore" /\ e.kind = "subscribe"
    BY DEF Message, Requests, Caller, TypeOK
  <2>3. wire \in Seq(Requests)
    BY DEF TypeOK
  <2>4. /\ wire' \in Seq(Requests)
        /\ \A i \in DOMAIN wire' :
              \/ i \in DOMAIN wire /\ wire'[i] = wire[i]
              \/ i = Len(wire) + 1 /\ wire'[i] = e
    BY <2>1, <2>2, <2>3, AppendFrom
  <2> HIDE DEF e
  <2>5. TypeOK'
    <3>1. \A i \in DOMAIN wire' : wire'[i].caller # "capabilities"
      BY <1>4, <1>6, <2>2, <2>4 DEF Handshake
    <3> QED
      BY <1>1, <1>2, <2>1, <2>4, <3>1 DEF TypeOK, Answers
  <2>6. OneHandshake'
    BY <1>1, <1>4, <1>6, <2>2, <2>4 DEF OneHandshake, AtMostOne
  <2>7. OwnKinds(wire)' /\ OwnKinds(answered)'
    BY <1>1, <1>2, <2>2, <2>4 DEF OwnKinds
  <2> QED
    BY <2>5, <2>6, <2>7
<1> QED
  BY <1>3, <1>5, <1>6

LEMMA ResumeRestoreKeeps ==
  ASSUME MemoryInv, ResumeRestore
  PROVE  MemoryInv'
<1> USE DEF MemoryInv
<1>1. /\ answered # <<>> /\ Head(answered).caller = "restore"
      /\ answered' = Tail(answered)
      /\ memory' = Head(answered).result
      /\ link' = IF link = "restoring" THEN "up" ELSE link
      /\ UNCHANGED <<registry, wire, op, last, kindOf, losses>>
  BY DEF ResumeRestore
<1>2. /\ Head(answered) \in Answers
      /\ Tail(answered) \in Seq(Answers)
      /\ OwnKinds(Tail(answered))
      /\ link \in {"down", "restoring"}
      /\ \A i \in DOMAIN wire : wire[i].caller # "restore"
      /\ \A who \in Handshake :
            /\ AtMostOne(who, Tail(answered))
            /\ \A j \in DOMAIN Tail(answered) : Tail(answered)[j].caller = who =>
                  /\ who = "capabilities"
                  /\ link = "down"
                  /\ \A i \in DOMAIN wire : wire[i].caller # who
  BY <1>1, AfterHead DEF Handshake, LinkDuring
<1>3. TypeOK'
  <2>1. memory' \subseteq Pattern
    BY <1>1, <1>2, AnswerFields
  <2> QED
    BY <1>1, <1>2, <2>1 DEF TypeOK, Answers
<1>4. OneHandshake'
  <2>1. \A who \in Handshake : AtMostOne(who, wire)
    BY DEF OneHandshake
  <2> QED
    BY <1>1, <1>2, <2>1 DEF OneHandshake, AtMostOne
<1>5. OwnKinds(wire)' /\ OwnKinds(answered)'
  BY <1>1, <1>2 DEF OwnKinds
<1> QED
  BY <1>3, <1>4, <1>5

LEMMA ConnectKeeps ==
  ASSUME MemoryInv, Connect
  PROVE  MemoryInv'
<1> USE DEF MemoryInv
<1> DEFINE e == Message("capabilities", "capabilities", {})
<1>1. /\ wire' = <<e>> /\ link' = "negotiating" /\ answered' = <<>>
      /\ UNCHANGED <<memory, registry, op, last, kindOf, losses>>
  BY DEF Connect
<1>2. e \in Requests /\ e.caller = "capabilities"
  BY DEF Message, Requests, Caller
<1>3. wire' \in Seq(Requests) /\ \A i \in DOMAIN wire' : i = 1 /\ wire'[i] = e
  BY <1>1, <1>2
<1> HIDE DEF e
<1>4. TypeOK'
  BY <1>1, <1>2, <1>3 DEF TypeOK
<1>5. OneHandshake'
  BY <1>1, <1>3 DEF OneHandshake, AtMostOne
<1>6. OwnKinds(wire)' /\ OwnKinds(answered)'
  <2>1. "capabilities" \notin Op
    BY MemoryAssumption
  <2> QED
    BY <1>1, <1>2, <1>3, <2>1 DEF OwnKinds
<1> QED
  BY <1>4, <1>5, <1>6

LEMMA LoseKeeps ==
  ASSUME MemoryInv, NEW n \in 0 .. Len(answered), Lose(n)
  PROVE  MemoryInv'
<1> USE DEF MemoryInv
<1>1. /\ wire' = <<>> /\ link' = "down"
      /\ answered' = SubSeq(answered, 1, n)
      /\ UNCHANGED <<memory, last, kindOf>>
  BY DEF Lose
<1>2. answered \in Seq(Answers)
  BY DEF TypeOK, Answers
<1>3. /\ answered' \in Seq(Answers)
      /\ \A i \in DOMAIN answered' :
            i \in DOMAIN answered /\ answered'[i] = answered[i]
  BY <1>1, <1>2, PrefixFrom
<1>4. TypeOK'
  <2>1. registry' \subseteq Pattern
    BY DEF Lose, TypeOK
  <2>2. op' \in [Op -> {"idle", "sent", "done", "failed"}]
    BY DEF Lose, TypeOK
  <2>3. losses' \in 0 .. MaxLosses
    BY MemoryAssumption DEF Lose, TypeOK
  <2> QED
    BY <1>1, <1>3, <2>1, <2>2, <2>3 DEF TypeOK, Answers
<1>5. OneHandshake'
  BY <1>1, <1>3 DEF OneHandshake, AtMostOne
<1>6. OwnKinds(wire)' /\ OwnKinds(answered)'
  BY <1>1, <1>3 DEF OwnKinds
<1> QED
  BY <1>4, <1>5, <1>6

LEMMA MemoryStep == MemoryInv /\ [Next]_vars => MemoryInv'
<1> SUFFICES ASSUME MemoryInv, [Next]_vars PROVE MemoryInv'
  OBVIOUS
<1>1. ASSUME NEW o \in Op, Call(o) PROVE MemoryInv'
  BY <1>1, CallKeeps
<1>2. ASSUME NEW o \in Op, Resume(o) PROVE MemoryInv'
  BY <1>2, ResumeKeeps
<1>3. ASSUME NEW o \in Op, GiveUp(o) PROVE MemoryInv'
  <2>1. op' \in [Op -> {"idle", "sent", "done", "failed"}]
    BY <1>3 DEF GiveUp, MemoryInv, TypeOK
  <2>2. UNCHANGED <<memory, registry, link, wire, answered, last, kindOf, losses>>
    BY <1>3 DEF GiveUp
  <2> QED
    BY <2>1, <2>2 DEF MemoryInv, TypeOK, OneHandshake, AtMostOne, OwnKinds
<1>4. CASE Handle
  BY <1>4, HandleKeeps
<1>5. CASE Connect
  BY <1>5, ConnectKeeps
<1>6. CASE ResumeHandshake
  BY <1>6, ResumeHandshakeKeeps
<1>7. CASE ResumeRestore
  BY <1>7, ResumeRestoreKeeps
<1>8. ASSUME NEW n \in 0 .. Len(answered), Lose(n) PROVE MemoryInv'
  BY <1>8, LoseKeeps
<1>9. CASE UNCHANGED vars
  BY <1>9 DEF vars, MemoryInv, TypeOK, OneHandshake, AtMostOne, OwnKinds
<1> QED
  BY <1>1, <1>2, <1>3, <1>4, <1>5, <1>6, <1>7, <1>8, <1>9 DEF Next

\* The types hold, and of the handshake (client.py:141-148) the server has only
\* requests of the phase the link is in, none while the link is down.
THEOREM MemoryTyped == Spec => []TypeOK
<1>1. MemoryInv => TypeOK
  BY DEF MemoryInv
<1> QED
  BY <1>1, MemoryInit, MemoryStep, PTL DEF Spec

\* However the connection is lost and calls are given up, the capability request
\* and the replay of the subscriptions are under way once at most, the answer late
\* from a lost connection included: no replay is doubled or left over to the next.
THEOREM HandshakeOnce == Spec => []OneHandshake
<1>1. MemoryInv => OneHandshake
  BY DEF MemoryInv
<1> QED
  BY <1>1, MemoryInit, MemoryStep, PTL DEF Spec

-----------------------------------------------------------------------------
\* What the client remembers is what the server serves.  Nothing about a pattern
\* overtakes the last call about it: while its request is on the wire no later
\* request mentions the pattern, once it is answered every result from there on
\* tells what it did, and once it has returned memory, registry and all that is
\* under way agree (On, Off).

\* A call is in flight once, from when it is sent until its answer is taken up.
InFlight(who) ==
    \/ \E i \in DOMAIN wire : wire[i].caller = who
    \/ \E j \in DOMAIN answered : answered[j].caller = who

CallsOnce ==
    \A o \in Op :
        /\ AtMostOne(o, wire) /\ AtMostOne(o, answered)
        /\ \A i \in DOMAIN wire, j \in DOMAIN answered :
              ~(wire[i].caller = o /\ answered[j].caller = o)
        /\ op[o] \in {"idle", "done"} => ~InFlight(o)
        /\ op[o] = "sent" => InFlight(o)

\* What is under way says what its caller asked for.
Asked(s) ==
    \A i \in DOMAIN s :
        /\ s[i].caller = "capabilities" => s[i].kind = "capabilities" /\ s[i].items = {}
        /\ s[i].caller = "restore" => s[i].kind = "subscribe"
        /\ s[i].caller \in Op =>
              /\ link \in {"up", "down"}
              /\ s[i].kind = kindOf[s[i].caller]
              /\ s[i].kind = "unsubscribeAll" => s[i].items = Pattern
              /\ s[i].kind = "getSubscriptions" => s[i].items = {}

LastOK ==
    \A p \in Pattern : last[p] # None =>
        /\ op[last[p]] # "idle"
        /\ kindOf[last[p]] \in {"subscribe", "unsubscribe", "unsubscribeAll"}

Unheard(p) == \A i \in DOMAIN wire : wire[i].caller \in Op => p \notin wire[i].items

On(p) ==
    /\ p \in memory
    /\ Unheard(p)
    /\ \A i \in DOMAIN wire : wire[i].caller = "restore" => p \in wire[i].items
    /\ \A j \in DOMAIN answered :
          /\ answered[j].caller # "capabilities" => p \in answered[j].result
          /\ answered[j].caller \in Op => p \notin answered[j].items
          /\ answered[j].caller = "restore" /\ link = "restoring" => p \in registry
    /\ link = "up" => p \in registry

Off(p) ==
    /\ p \notin memory /\ p \notin registry
    /\ \A i \in DOMAIN wire : p \notin wire[i].items
    /\ \A j \in DOMAIN answered : p \notin answered[j].result

OnWire(p) ==
    \A i \in DOMAIN wire : wire[i].caller = last[p] =>
        /\ p \in wire[i].items
        /\ \A j \in DOMAIN wire : i < j => p \notin wire[j].items

IsAnswered(p) ==
    \A i \in DOMAIN answered : answered[i].caller = last[p] =>
        /\ Unheard(p)
        /\ p \in answered[i].items
        /\ answered[i].kind = "subscribe" =>
              /\ \A j \in DOMAIN answered :
                    /\ i <= j => p \in answered[j].result
                    /\ i < j => p \notin answered[j].items
              /\ link = "up" => p \in registry
        /\ answered[i].kind # "subscribe" =>
              /\ \A j \in DOMAIN answered : i <= j => p \notin answered[j].result
              /\ p \notin registry

PatternOK(p) ==
    /\ last[p] = None => Off(p)
    /\ Ended(p, {"subscribe"}) => On(p)
    /\ Ended(p, {"unsubscribe", "unsubscribeAll"}) => Off(p)
    /\ last[p] # None => OnWire(p) /\ IsAnswered(p)

ServedInv ==
    /\ CallsOnce /\ Asked(wire) /\ Asked(answered) /\ LastOK
    /\ \A p \in Pattern : PatternOK(p)

-----------------------------------------------------------------------------

LEMMA ServedInit == Init => ServedInv
<1> SUFFICES ASSUME Init PROVE ServedInv
  OBVIOUS
<1>1. CallsOnce /\ Asked(wire) /\ Asked(answered)
  BY DEF Init, CallsOnce, AtMostOne, InFlight, Asked
<1>2. LastOK /\ \A p \in Pattern : PatternOK(p)
  BY MemoryAssumption DEF Init, LastOK, PatternOK, Off, Ended, OnWire, IsAnswered
<1> QED
  BY <1>1, <1>2 DEF ServedInv

LEMMA KindOfMessage ==
  ASSUME NEW r \in Requests
  PROVE  /\ r.caller \in Caller /\ r.items \in SUBSET Pattern
         /\ r.kind \in {"capabilities", "subscribe", "unsubscribe",
                        "unsubscribeAll", "getSubscriptions"}
BY DEF Requests

\* While the link is up only calls of the application are under way.
LEMMA OnlyCallsWhenUp ==
  ASSUME MemoryInv, link = "up"
  PROVE  /\ \A i \in DOMAIN wire : wire[i].caller \in Op
         /\ \A j \in DOMAIN answered : answered[j].caller \in Op
<1>1. \A i \in DOMAIN wire : wire[i] \in Requests
  BY DEF MemoryInv, TypeOK
<1>2. \A j \in DOMAIN answered : answered[j] \in Answers
  BY DEF MemoryInv, TypeOK, Answers
<1>3. \A i \in DOMAIN wire : wire[i].caller \notin Handshake
  BY DEF MemoryInv, TypeOK, Handshake
<1>4. \A j \in DOMAIN answered : answered[j].caller \notin Handshake
  BY DEF MemoryInv, OneHandshake, LinkDuring, Handshake
<1> QED
  BY <1>1, <1>2, <1>3, <1>4, KindOfMessage, AnswerFields DEF Caller, Handshake

LEMMA CallServes ==
  ASSUME ~Eager, MemoryInv, ServedInv, NEW o \in Op, Call(o)
  PROVE  ServedInv'
<1> USE DEF ServedInv
<1>1. PICK m \in Methods : /\ wire' = Append(wire, Message(o, m[1], m[2]))
                           /\ last' = [p \in Pattern |-> IF p \in m[2] THEN o ELSE last[p]]
                           /\ kindOf' = [kindOf EXCEPT ![o] = m[1]]
  BY DEF Call
<1> DEFINE e == Message(o, m[1], m[2])
<1>2. /\ link = "up" /\ op[o] = "idle" /\ op' = [op EXCEPT ![o] = "sent"]
      /\ UNCHANGED <<memory, registry, link, answered, losses>>
  BY DEF Call
<1>3. /\ e \in Requests /\ e.caller = o /\ o \notin Handshake
      /\ e.kind = m[1] /\ e.items = m[2]
      /\ m[1] \in {"subscribe", "unsubscribe", "unsubscribeAll", "getSubscriptions"}
      /\ m[2] \in SUBSET Pattern
      /\ m[1] = "unsubscribeAll" => m[2] = Pattern
      /\ m[1] = "getSubscriptions" => m[2] = {}
  <2>1. /\ m[1] \in {"subscribe", "unsubscribe", "unsubscribeAll", "getSubscriptions"}
        /\ m[2] \in SUBSET Pattern
        /\ m[1] = "unsubscribeAll" => m[2] = Pattern
        /\ m[1] = "getSubscriptions" => m[2] = {}
    BY DEF Methods
  <2>2. o \in Caller /\ o \notin Handshake
    BY MemoryAssumption DEF Caller, Handshake
  <2> QED
    BY <2>1, <2>2 DEF Message, Requests
<1>4. wire \in Seq(Requests) /\ answered \in Seq(Answers)
  BY DEF MemoryInv, TypeOK, Answers
<1>5. \A i \in DOMAIN wire' :
         \/ i \in DOMAIN wire /\ wire'[i] = wire[i]
         \/ i = Len(wire) + 1 /\ i \notin DOMAIN wire /\ wire'[i] = e
  BY <1>1, <1>3, <1>4, AppendFrom
<1>6. /\ \A i \in DOMAIN wire : i \in DOMAIN wire' /\ wire'[i] = wire[i] /\ i < Len(wire) + 1
      /\ Len(wire) + 1 \in DOMAIN wire' /\ wire'[Len(wire) + 1] = e
      /\ Len(wire) \in Nat
      /\ DOMAIN wire \subseteq Nat /\ DOMAIN wire' \subseteq Nat
  BY <1>1, <1>3, <1>4
<1>7. /\ \A i \in DOMAIN wire : wire[i].caller # o /\ wire[i].caller \in Op
      /\ \A j \in DOMAIN answered : answered[j].caller # o /\ answered[j].caller \in Op
      /\ \A p \in Pattern : last[p] # o
  BY <1>2, OnlyCallsWhenUp, MemoryAssumption DEF CallsOnce, InFlight, LastOK
<1>0. /\ op \in [Op -> {"idle", "sent", "done", "failed"}]
      /\ last \in [Pattern -> Op \cup {None}]
      /\ kindOf \in [Op -> {x[1] : x \in Methods} \cup {None}]
      /\ DOMAIN kindOf = Op
  BY DEF MemoryInv, TypeOK
<1> HIDE DEF e
<1>8. CallsOnce'
  <2> SUFFICES ASSUME NEW q \in Op
               PROVE  /\ AtMostOne(q, wire') /\ AtMostOne(q, answered')
                      /\ \A i \in DOMAIN wire', j \in DOMAIN answered' :
                            ~(wire'[i].caller = q /\ answered'[j].caller = q)
                      /\ op'[q] \in {"idle", "done"} => ~InFlight(q)'
                      /\ op'[q] = "sent" => InFlight(q)'
    BY DEF CallsOnce, AtMostOne
  <2>1. AtMostOne(q, wire') /\ AtMostOne(q, answered')
    BY <1>2, <1>3, <1>5, <1>7 DEF CallsOnce, AtMostOne
  <2>2. \A i \in DOMAIN wire', j \in DOMAIN answered' :
           ~(wire'[i].caller = q /\ answered'[j].caller = q)
    BY <1>2, <1>3, <1>5, <1>7 DEF CallsOnce
  <2>3. op'[q] \in {"idle", "done"} => ~InFlight(q)'
    BY <1>2, <1>3, <1>5, <1>7, <1>0 DEF CallsOnce, InFlight
  <2>4. op'[q] = "sent" => InFlight(q)'
    BY <1>2, <1>3, <1>6, <1>7, <1>0 DEF CallsOnce, InFlight
  <2> QED
    BY <2>1, <2>2, <2>3, <2>4
<1>9. Asked(wire)' /\ Asked(answered)'
  BY <1>0, <1>1, <1>2, <1>3, <1>5, <1>7, MemoryAssumption DEF Asked, Handshake
<1>10. LastOK'
  BY <1>0, <1>1, <1>2, <1>3, <1>7, MemoryAssumption DEF LastOK
<1>11. ASSUME NEW p \in Pattern PROVE PatternOK(p)'
  <2>0. PatternOK(p)
    OBVIOUS
  <2>1. last'[p] = IF p \in m[2] THEN o ELSE last[p]
    BY <1>1
  <2>2. kindOf'[o] = m[1] /\ \A q \in Op : q # o => kindOf'[q] = kindOf[q] /\ op'[q] = op[q]
    BY <1>0, <1>1, <1>2
  <2>3. op'[o] = "sent"
    BY <1>0, <1>2
  <2>4. CASE p \in m[2]
    <3>1. last'[p] = o /\ o # None
      BY <2>1, <2>4, MemoryAssumption
    <3>2. OnWire(p)'
      BY <3>1, <2>4, <1>3, <1>5, <1>6, <1>7 DEF OnWire
    <3>3. IsAnswered(p)'
      BY <3>1, <1>2, <1>7 DEF IsAnswered
    <3> QED
      BY <3>1, <3>2, <3>3, <2>3 DEF PatternOK, Ended
  <2>5. CASE p \notin m[2]
    <3>1. /\ last'[p] = last[p]
          /\ last[p] # None => /\ last[p] # o /\ last[p] \in Op
                               /\ kindOf'[last[p]] = kindOf[last[p]]
                               /\ op'[last[p]] = op[last[p]]
      BY <2>1, <2>2, <2>5, <1>7, <1>0
    <3>2. Off(p) => Off(p)'
      BY <2>5, <1>2, <1>3, <1>5 DEF Off
    <3>3. On(p) => On(p)'
      BY <2>5, <1>2, <1>3, <1>5, MemoryAssumption DEF On, Unheard
    <3>4. last[p] # None => OnWire(p)'
      BY <3>1, <2>0, <2>5, <1>3, <1>5, <1>6, <1>7 DEF OnWire, PatternOK
    <3>5. last[p] # None => IsAnswered(p)'
      BY <3>1, <2>0, <2>5, <1>2, <1>3, <1>5, <1>6, <1>7 DEF IsAnswered, PatternOK, Unheard
    <3> QED
      BY <3>1, <3>2, <3>3, <3>4, <3>5, <2>0 DEF PatternOK, Ended
  <2> QED
    BY <2>4, <2>5
<1> QED
  BY <1>8, <1>9, <1>10, <1>11

LEMMA HandleServes ==
  ASSUME MemoryInv, ServedInv, Handle
  PROVE  ServedInv'
<1> USE DEF ServedInv
<1> DEFINE m == Head(wire)
           a == Answer(m, registry')
<1>1. wire \in Seq(Requests) /\ wire # <<>> /\ answered \in Seq(Answers)
  BY DEF MemoryInv, TypeOK, Answers, Handle
<1>2. /\ wire' = Tail(wire)
      /\ answered' = Append(answered, a)
      /\ registry' = Served(m.kind, m.items)
      /\ UNCHANGED <<memory, link, op, last, kindOf, losses>>
  BY DEF Handle
<1>3. /\ m \in Requests /\ 1 \in DOMAIN wire /\ m = wire[1]
      /\ \A i \in DOMAIN wire' :
            i \in Nat \ {0} /\ i + 1 \in DOMAIN wire /\ wire'[i] = wire[i + 1]
      /\ \A i \in DOMAIN wire : i = 1 \/ (i - 1 \in DOMAIN wire' /\ wire'[i - 1] = wire[i])
      /\ DOMAIN wire \subseteq Nat \ {0}
  BY <1>1, <1>2, TailFrom
<1>4. registry' \subseteq Pattern
  BY <1>2, <1>3, ServedType DEF MemoryInv
<1>5. /\ a \in Answers /\ a.caller = m.caller /\ a.kind = m.kind
      /\ a.items = m.items /\ a.result = registry'
  <2>1. \A x \in Requests, result \in SUBSET Pattern : Answer(x, result) \in Answers
    BY DEF Answers
  <2>2. a \in Answers
    BY <1>3, <1>4, <2>1
  <2> QED
    BY <2>2 DEF Answer
<1>6. /\ \A j \in DOMAIN answered' :
            \/ j \in DOMAIN answered /\ answered'[j] = answered[j]
            \/ j = Len(answered) + 1 /\ j \notin DOMAIN answered /\ answered'[j] = a
      /\ \A j \in DOMAIN answered :
            j \in DOMAIN answered' /\ answered'[j] = answered[j] /\ j < Len(answered) + 1
      /\ Len(answered) + 1 \in DOMAIN answered' /\ answered'[Len(answered) + 1] = a
      /\ Len(answered) \in Nat
      /\ DOMAIN answered \subseteq Nat /\ DOMAIN answered' \subseteq Nat
  <2>1. \A j \in DOMAIN answered' :
            \/ j \in DOMAIN answered /\ answered'[j] = answered[j]
            \/ j = Len(answered) + 1 /\ j \notin DOMAIN answered /\ answered'[j] = a
    BY <1>1, <1>2, <1>5, AppendFrom
  <2> HIDE DEF a
  <2> QED
    BY <1>1, <1>2, <2>1
<1>7. /\ m.kind \in {"capabilities", "subscribe", "unsubscribe",
                     "unsubscribeAll", "getSubscriptions"}
      /\ m.caller \in Op \cup Handshake
      /\ m.items \subseteq Pattern
  BY <1>3, KindOfMessage DEF Caller, Handshake
<1>8. link # "down"
  BY <1>1 DEF MemoryInv, TypeOK
<1>9. /\ m.caller \in Op => /\ link = "up" /\ m.kind = kindOf[m.caller]
                            /\ m.kind = "unsubscribeAll" => m.items = Pattern
                            /\ m.kind = "getSubscriptions" => m.items = {}
                            /\ m.kind # "capabilities"
                            /\ \A j \in DOMAIN answered : answered[j].caller \in Op
                            /\ \A i \in DOMAIN wire : wire[i].caller \in Op
      /\ m.caller = "capabilities" =>
            link = "negotiating" /\ m.kind = "capabilities" /\ m.items = {}
      /\ m.caller = "restore" => link = "restoring" /\ m.kind = "subscribe"
  BY <1>3, <1>8, OnlyCallsWhenUp DEF MemoryInv, TypeOK, Asked, OwnKinds
<1>10. \A i \in DOMAIN wire' : wire'[i].caller = m.caller => FALSE
  <2>1. AtMostOne(m.caller, wire)
    BY <1>7 DEF MemoryInv, OneHandshake, CallsOnce
  <2> QED
    BY <1>3, <2>1 DEF AtMostOne
<1>11. \A j \in DOMAIN answered : answered[j].caller # m.caller
  BY <1>3, <1>7 DEF MemoryInv, OneHandshake, CallsOnce
<1>12. \A p \in Pattern :
          /\ p \notin m.items => (p \in registry' => p \in registry)
          /\ p \notin m.items /\ m.kind # "unsubscribeAll" =>
                (p \in registry => p \in registry')
          /\ p \in m.items /\ m.kind = "subscribe" => p \in registry'
          /\ p \in m.items /\ m.kind \in {"unsubscribe", "unsubscribeAll"} =>
                p \notin registry'
          /\ m.kind = "subscribe" => (p \in registry => p \in registry')
  BY <1>2 DEF Served
<1>0. /\ op \in [Op -> {"idle", "sent", "done", "failed"}]
      /\ last \in [Pattern -> Op \cup {None}]
      /\ None \notin Op /\ None \notin {}
  BY MemoryAssumption DEF MemoryInv, TypeOK
<1> HIDE DEF m, a
<1>13. CallsOnce'
  <2> SUFFICES ASSUME NEW q \in Op
               PROVE  /\ AtMostOne(q, wire') /\ AtMostOne(q, answered')
                      /\ \A i \in DOMAIN wire', j \in DOMAIN answered' :
                            ~(wire'[i].caller = q /\ answered'[j].caller = q)
                      /\ op'[q] \in {"idle", "done"} => ~InFlight(q)'
                      /\ op'[q] = "sent" => InFlight(q)'
    BY DEF CallsOnce, AtMostOne
  <2>1. AtMostOne(q, wire') /\ AtMostOne(q, answered')
    BY <1>3, <1>5, <1>6, <1>11 DEF CallsOnce, AtMostOne
  <2>2. \A i \in DOMAIN wire', j \in DOMAIN answered' :
           ~(wire'[i].caller = q /\ answered'[j].caller = q)
    BY <1>3, <1>5, <1>6, <1>10 DEF CallsOnce
  <2>3. op'[q] \in {"idle", "done"} => ~InFlight(q)'
    BY <1>2, <1>3, <1>5, <1>6 DEF CallsOnce, InFlight
  <2>4. InFlight(q) => InFlight(q)'
    <3>1. ASSUME NEW i \in DOMAIN wire, wire[i].caller = q
          PROVE  InFlight(q)'
      <4>1. CASE i = 1
        BY <3>1, <4>1, <1>3, <1>5, <1>6 DEF InFlight
      <4>2. CASE i # 1
        BY <3>1, <4>2, <1>3 DEF InFlight
      <4> QED
        BY <4>1, <4>2
    <3>2. ASSUME NEW j \in DOMAIN answered, answered[j].caller = q
          PROVE  InFlight(q)'
      BY <3>2, <1>6 DEF InFlight
    <3> QED
      BY <3>1, <3>2 DEF InFlight
  <2>5. op'[q] = "sent" => InFlight(q)'
    BY <2>4, <1>2 DEF CallsOnce
  <2> QED
    BY <2>1, <2>2, <2>3, <2>5
<1>14. Asked(wire)' /\ Asked(answered)'
  BY <1>2, <1>3, <1>5, <1>6, <1>8, <1>9 DEF Asked
<1>15. LastOK'
  BY <1>2 DEF LastOK
<1>16. ASSUME NEW p \in Pattern PROVE PatternOK(p)'
  <2>0. PatternOK(p)
    OBVIOUS
  <2>1. Off(p) => Off(p)'
    BY <1>2, <1>3, <1>5, <1>6, <1>12 DEF Off
  <2>2. ASSUME On(p) PROVE On(p)'
    <3>1. m.caller \in Op => p \notin m.items /\ m.kind # "unsubscribeAll"
      BY <2>2, <1>3, <1>9 DEF On, Unheard
    <3>2. m.kind # "unsubscribeAll" /\ (m.caller = "restore" => p \in registry')
      BY <2>2, <3>1, <1>3, <1>7, <1>9, <1>12 DEF On, Handshake
    <3>3. m.caller # "capabilities" => p \in registry'
      BY <2>2, <3>1, <3>2, <1>7, <1>9, <1>12 DEF On, Handshake
    <3>4. link' = "up" => p \in registry'
      BY <2>2, <3>1, <3>3, <1>2, <1>9
    <3>5. p \in memory' /\ Unheard(p)'
      BY <2>2, <1>2, <1>3 DEF On, Unheard
    <3>6. \A i \in DOMAIN wire' : wire'[i].caller = "restore" => p \in wire'[i].items
      BY <2>2, <1>3 DEF On
    <3>7. ASSUME NEW j \in DOMAIN answered'
          PROVE  /\ answered'[j].caller # "capabilities" => p \in answered'[j].result
                 /\ answered'[j].caller \in Op => p \notin answered'[j].items
                 /\ answered'[j].caller = "restore" /\ link' = "restoring" =>
                       p \in registry'
      <4>1. CASE answered'[j] = a
        BY <4>1, <3>1, <3>2, <3>3, <1>5
      <4>2. CASE j \in DOMAIN answered /\ answered'[j] = answered[j]
        BY <4>2, <2>2, <3>3, <1>2, <1>9, <1>7 DEF On, Handshake
      <4> QED
        BY <4>1, <4>2, <1>6
    <3> QED
      BY <3>4, <3>5, <3>6, <3>7 DEF On
  <2>3. last[p] # None => OnWire(p)'
    BY <2>0, <1>2, <1>3 DEF OnWire, PatternOK
  <2>4. ASSUME last[p] # None,
               NEW i \in DOMAIN answered', answered'[i].caller = last'[p]
        PROVE  /\ Unheard(p)'
               /\ p \in answered'[i].items
               /\ answered'[i].kind = "subscribe" =>
                     /\ \A j \in DOMAIN answered' :
                           /\ i <= j => p \in answered'[j].result
                           /\ i < j => p \notin answered'[j].items
                     /\ link' = "up" => p \in registry'
               /\ answered'[i].kind # "subscribe" =>
                     /\ \A j \in DOMAIN answered' : i <= j => p \notin answered'[j].result
                     /\ p \notin registry'
    <3>1. CASE i = Len(answered) + 1
      <4>1. answered'[i] = a /\ m.caller = last[p] /\ last[p] \in Op
        BY <3>1, <2>4, <1>0, <1>2, <1>5, <1>6
      <4>2. /\ p \in m.items
            /\ m.kind \in {"subscribe", "unsubscribe", "unsubscribeAll"}
            /\ \A j \in DOMAIN wire : 1 < j => p \notin wire[j].items
        BY <4>1, <2>0, <1>0, <1>3, <1>9 DEF OnWire, PatternOK, LastOK
      <4>3. Unheard(p)'
        BY <4>2, <1>3 DEF Unheard
      <4> QED
        BY <3>1, <4>1, <4>2, <4>3, <1>5, <1>6, <1>12
    <3>2. CASE i \in DOMAIN answered
      <4>1. /\ answered[i].caller = last[p] /\ answered'[i] = answered[i]
            /\ Unheard(p)
        BY <3>2, <2>0, <2>4, <1>2, <1>6 DEF IsAnswered, PatternOK
      <4>2. m.caller \in Op => p \notin m.items
        BY <4>1, <1>3 DEF Unheard
      <4>3. Unheard(p)'
        BY <4>1, <1>3 DEF Unheard
      <4>4. last[p] \in Op
        BY <2>4, <1>0
      <4>5. answered[i].caller \in Op
        BY <4>1, <4>4
      <4>6. link = "up"
        BY <3>2, <4>5, <1>8 DEF Asked
      <4>7. m.caller \in Op
        BY <4>6, <1>3, OnlyCallsWhenUp
      <4>8. p \notin m.items /\ m.kind # "unsubscribeAll"
        BY <4>2, <4>7, <1>9
      <4>9. p \in registry' <=> p \in registry
        BY <4>8, <1>12
      <4>10. IsAnswered(p)
        BY <2>0, <2>4 DEF PatternOK
      <4>11. ASSUME NEW j \in DOMAIN answered', i <= j
             PROVE  /\ answered[i].kind = "subscribe" =>
                          /\ p \in answered'[j].result
                          /\ i < j => p \notin answered'[j].items
                    /\ answered[i].kind # "subscribe" => p \notin answered'[j].result
        <5>1. CASE j \in DOMAIN answered /\ answered'[j] = answered[j]
          BY <5>1, <4>11, <3>2, <4>1, <4>10 DEF IsAnswered
        <5>2. CASE answered'[j] = a
          BY <5>2, <3>2, <4>1, <4>6, <4>8, <4>9, <4>10, <1>5 DEF IsAnswered
        <5> QED
          BY <5>1, <5>2, <1>6
      <4> QED
        BY <3>2, <4>1, <4>3, <4>6, <4>9, <4>10, <4>11, <1>2, <1>6 DEF IsAnswered
    <3> QED
      BY <3>1, <3>2, <1>6
  <2>5. last[p] # None => IsAnswered(p)'
    BY <2>4 DEF IsAnswered
  <2> QED
    BY <2>0, <2>1, <2>2, <2>3, <2>5, <1>2 DEF PatternOK, Ended
<1> QED
  BY <1>13, <1>14, <1>15, <1>16

\* The answer that is taken up, and those that stay.
LEMMA TakenUp ==
  ASSUME MemoryInv, answered # <<>>
  PROVE  /\ Head(answered) \in Answers
         /\ 1 \in DOMAIN answered /\ Head(answered) = answered[1]
         /\ \A i \in DOMAIN Tail(answered) :
               /\ i \in Nat \ {0} /\ i + 1 \in DOMAIN answered
               /\ Tail(answered)[i] = answered[i + 1]
         /\ \A i \in DOMAIN answered :
               \/ i = 1
               \/ i - 1 \in DOMAIN Tail(answered) /\ Tail(answered)[i - 1] = answered[i]
<1>1. answered \in Seq(Answers)
  BY DEF MemoryInv, TypeOK, Answers
<1> QED
  BY <1>1, TailFrom

LEMMA ResumeServes ==
  ASSUME MemoryInv, ServedInv, NEW o \in Op, Resume(o)
  PROVE  ServedInv'
<1> USE DEF ServedInv
<1> DEFINE h == Head(answered)
<1>1. /\ answered # <<>> /\ h.caller = o
      /\ answered' = Tail(answered)
      /\ UNCHANGED <<registry, link, wire, last, kindOf, losses>>
  BY DEF Resume
<1>2. /\ h \in Answers
      /\ 1 \in DOMAIN answered /\ h = answered[1]
      /\ \A i \in DOMAIN answered' :
            i \in Nat \ {0} /\ i + 1 \in DOMAIN answered /\ answered'[i] = answered[i + 1]
      /\ \A i \in DOMAIN answered :
            i = 1 \/ (i - 1 \in DOMAIN answered' /\ answered'[i - 1] = answered[i])
  BY <1>1, TakenUp
<1>3. /\ h.kind \in {"subscribe", "unsubscribe", "unsubscribeAll", "getSubscriptions"}
      /\ h.kind = kindOf[o] /\ link \in {"up", "down"}
      /\ h.kind = "unsubscribeAll" => h.items = Pattern
      /\ h.items \subseteq Pattern /\ h.result \subseteq Pattern
  BY <1>1, <1>2, AnswerFields DEF Asked, MemoryInv, OwnKinds
<1>4. /\ \A i \in DOMAIN wire : wire[i].caller # o /\ wire[i].caller # "restore"
      /\ \A i \in DOMAIN answered' : answered'[i].caller # o
  BY <1>1, <1>2, <1>3 DEF CallsOnce, AtMostOne, MemoryInv, TypeOK
<1>0. /\ op \in [Op -> {"idle", "sent", "done", "failed"}]
      /\ last \in [Pattern -> Op \cup {None}]
      /\ memory \subseteq Pattern
      /\ op[o] \notin {"idle", "done"}
  BY <1>1, <1>2 DEF MemoryInv, TypeOK, CallsOnce, InFlight
<1>5. /\ op[o] = "sent" => /\ op' = [op EXCEPT ![o] = "done"]
                           /\ memory' = Remembered(h.kind, h.items, h.result)
      /\ op[o] # "sent" => op' = op /\ memory' = memory
  BY DEF Resume
<1> HIDE DEF h
<1>6. \A p \in Pattern :
         /\ p \notin memory /\ p \notin h.result => p \notin memory'
         /\ p \in memory /\ p \in h.result /\ p \notin h.items => p \in memory'
         /\ op[o] = "sent" /\ h.kind = "subscribe" /\ p \in h.result => p \in memory'
         /\ op[o] = "sent" /\ h.kind \in {"unsubscribe", "unsubscribeAll"} /\ p \in h.items
               => p \notin memory'
  BY <1>3, <1>5 DEF Remembered
<1>7. \A q \in Op : q # o => op'[q] = op[q]
  BY <1>0, <1>5
<1>8. op'[o] = (IF op[o] = "sent" THEN "done" ELSE op[o])
  BY <1>0, <1>5
<1>13. CallsOnce'
  <2> SUFFICES ASSUME NEW q \in Op
               PROVE  /\ AtMostOne(q, wire') /\ AtMostOne(q, answered')
                      /\ \A i \in DOMAIN wire', j \in DOMAIN answered' :
                            ~(wire'[i].caller = q /\ answered'[j].caller = q)
                      /\ op'[q] \in {"idle", "done"} => ~InFlight(q)'
                      /\ op'[q] = "sent" => InFlight(q)'
    BY DEF CallsOnce, AtMostOne
  <2>1. AtMostOne(q, wire') /\ AtMostOne(q, answered')
    BY <1>1, <1>2 DEF CallsOnce, AtMostOne
  <2>2. \A i \in DOMAIN wire', j \in DOMAIN answered' :
           ~(wire'[i].caller = q /\ answered'[j].caller = q)
    BY <1>1, <1>2 DEF CallsOnce
  <2>3. InFlight(q)' => InFlight(q)
    BY <1>1, <1>2 DEF InFlight
  <2>4. ~InFlight(o)'
    BY <1>1, <1>4 DEF InFlight
  <2>5. q # o /\ InFlight(q) => InFlight(q)'
    BY <1>1, <1>2 DEF InFlight
  <2> QED
    BY <2>1, <2>2, <2>3, <2>4, <2>5, <1>7, <1>8 DEF CallsOnce
<1>14. Asked(wire)' /\ Asked(answered)'
  BY <1>1, <1>2 DEF Asked
<1>15. LastOK'
  BY <1>0, <1>1, <1>7, <1>8 DEF LastOK
<1>16. ASSUME NEW p \in Pattern PROVE PatternOK(p)'
  <2>0. PatternOK(p)
    OBVIOUS
  <2>1. Off(p) => Off(p)'
    BY <1>1, <1>2, <1>6 DEF Off
  <2>2. On(p) => On(p)'
    <3> SUFFICES ASSUME On(p) PROVE On(p)'
      OBVIOUS
    <3>1. p \notin h.items /\ p \in h.result /\ p \in memory
      BY <1>1, <1>2, MemoryAssumption DEF On
    <3>2. p \in memory'
      BY <3>1, <1>6
    <3> QED
      BY <3>2, <1>1, <1>2 DEF On, Unheard
  <2>3. last[p] # None => OnWire(p)'
    BY <2>0, <1>1 DEF OnWire, PatternOK
  <2>4. last[p] # None => IsAnswered(p)'
    <3> SUFFICES ASSUME last[p] # None, NEW i \in DOMAIN answered',
                        answered'[i].caller = last[p]
        PROVE  /\ Unheard(p)'
               /\ p \in answered'[i].items
               /\ answered'[i].kind = "subscribe" =>
                     /\ \A j \in DOMAIN answered' :
                           /\ i <= j => p \in answered'[j].result
                           /\ i < j => p \notin answered'[j].items
                     /\ link' = "up" => p \in registry'
               /\ answered'[i].kind # "subscribe" =>
                     /\ \A j \in DOMAIN answered' : i <= j => p \notin answered'[j].result
                     /\ p \notin registry'
      BY <1>1 DEF IsAnswered
    <3>1. IsAnswered(p) /\ i + 1 \in DOMAIN answered /\ answered[i + 1].caller = last[p]
      BY <2>0, <1>2 DEF PatternOK
    <3> QED
      BY <3>1, <1>1, <1>2 DEF IsAnswered, Unheard
  <2>5. CASE last[p] = o /\ op[o] = "sent"
    <3>1. IsAnswered(p) /\ answered[1].caller = last[p]
      BY <2>5, <2>0, <1>1, <1>2, MemoryAssumption DEF PatternOK
    <3>2. /\ Unheard(p) /\ p \in h.items
          /\ h.kind \in {"subscribe", "unsubscribe", "unsubscribeAll"}
      BY <2>5, <3>1, <1>2, <1>3, MemoryAssumption DEF IsAnswered, LastOK
    <3>3. CASE h.kind = "subscribe"
      <4>1. /\ \A j \in DOMAIN answered' :
                  p \in answered'[j].result /\ p \notin answered'[j].items
            /\ p \in h.result /\ (link = "up" => p \in registry)
        BY <3>1, <3>3, <1>2 DEF IsAnswered
      <4>2. p \in memory'
        BY <4>1, <2>5, <3>3, <1>6
      <4>3. On(p)'
        BY <4>1, <4>2, <3>2, <1>1, <1>3, <1>4 DEF On, Unheard
      <4> QED
        BY <4>3, <3>3, <2>3, <2>4, <2>5, <1>1, <1>3, MemoryAssumption DEF PatternOK, Ended
    <3>4. CASE h.kind # "subscribe"
      <4>1. /\ \A j \in DOMAIN answered' : p \notin answered'[j].result
            /\ p \notin registry
        BY <3>1, <3>4, <1>2 DEF IsAnswered
      <4>2. p \notin memory'
        BY <2>5, <3>2, <3>4, <1>6
      <4>3. \A i \in DOMAIN wire : p \notin wire[i].items
        <5>1. \A i \in DOMAIN wire : wire[i] \in Requests
          BY DEF MemoryInv, TypeOK
        <5> QED
          BY <5>1, <3>2, <1>4, KindOfMessage DEF Unheard, Asked, Caller
      <4>4. Off(p)'
        BY <4>1, <4>2, <4>3, <1>1 DEF Off
      <4> QED
        BY <4>4, <3>4, <2>3, <2>4, <2>5, <1>1, <1>3, MemoryAssumption DEF PatternOK, Ended
    <3> QED
      BY <3>3, <3>4
  <2>6. CASE ~(last[p] = o /\ op[o] = "sent")
    <3>1. last[p] # None => op'[last[p]] = op[last[p]]
      BY <2>6, <1>0, <1>7, <1>8
    <3> QED
      BY <3>1, <2>0, <2>1, <2>2, <2>3, <2>4, <1>1 DEF PatternOK, Ended
  <2> QED
    BY <2>5, <2>6
<1> QED
  BY <1>13, <1>14, <1>15, <1>16

LEMMA GiveUpServes ==
  ASSUME MemoryInv, ServedInv, NEW o \in Op, GiveUp(o)
  PROVE  ServedInv'
<1> USE DEF ServedInv
<1>1. /\ op[o] = "sent" /\ op' = [op EXCEPT ![o] = "failed"]
      /\ UNCHANGED <<memory, registry, link, wire, answered, last, kindOf, losses>>
  BY DEF GiveUp
<1>2. op'[o] = "failed" /\ \A q \in Op : q # o => op'[q] = op[q]
  BY <1>1 DEF MemoryInv, TypeOK
<1>3. last \in [Pattern -> Op \cup {None}]
  BY DEF MemoryInv, TypeOK
<1>4. CallsOnce' /\ Asked(wire)' /\ Asked(answered)' /\ LastOK'
  BY <1>1, <1>2, <1>3 DEF CallsOnce, AtMostOne, InFlight, Asked, LastOK
<1>5. ASSUME NEW p \in Pattern PROVE PatternOK(p)'
  <2>1. PatternOK(p)
    OBVIOUS
  <2>2. \A kinds : Ended(p, kinds)' => Ended(p, kinds)
    BY <1>1, <1>2, <1>3 DEF Ended
  <2> QED
    BY <2>1, <1>1, <1>2, <1>3 DEF PatternOK, Ended, On, Off, OnWire, IsAnswered, Unheard
<1> QED
  BY <1>4, <1>5

LEMMA ConnectServes ==
  ASSUME MemoryInv, ServedInv, Connect
  PROVE  ServedInv'
<1> USE DEF ServedInv
<1> DEFINE e == Message("capabilities", "capabilities", {})
<1>1. /\ wire' = <<e>> /\ link' = "negotiating" /\ answered' = <<>> /\ answered = <<>>
      /\ wire = <<>>
      /\ UNCHANGED <<memory, registry, op, last, kindOf, losses>>
  BY DEF Connect, MemoryInv, TypeOK
<1>2. /\ e.caller = "capabilities" /\ e.kind = "capabilities" /\ e.items = {}
      /\ e.caller \notin Op
  BY MemoryAssumption DEF Message
<1>3. \A i \in DOMAIN wire' : i = 1 /\ wire'[i] = e
  BY <1>1
<1>0. last \in [Pattern -> Op \cup {None}]
  BY DEF MemoryInv, TypeOK
<1> HIDE DEF e
<1>4. CallsOnce'
  BY <1>1, <1>2, <1>3 DEF CallsOnce, AtMostOne, InFlight
<1>5. Asked(wire)' /\ Asked(answered)' /\ LastOK'
  BY <1>1, <1>2, <1>3 DEF Asked, LastOK
<1>6. ASSUME NEW p \in Pattern PROVE PatternOK(p)'
  <2>1. PatternOK(p) /\ (On(p) => On(p)') /\ (Off(p) => Off(p)')
    BY <1>1, <1>2, <1>3 DEF On, Off, Unheard
  <2>2. last[p] # None => OnWire(p)' /\ IsAnswered(p)'
    BY <1>0, <1>1, <1>2, <1>3 DEF OnWire, IsAnswered
  <2> QED
    BY <2>1, <2>2, <1>1 DEF PatternOK, Ended
<1> QED
  BY <1>4, <1>5, <1>6

LEMMA NothingIn ==
  ASSUME NEW S, NEW s \in Seq(S), \A i \in DOMAIN s : FALSE
  PROVE  s = <<>>
<1>1. Len(s) \in Nat /\ DOMAIN s = 1 .. Len(s)
  OBVIOUS
<1>2. Len(s) = 0
  BY <1>1
<1> QED
  BY <1>2

LEMMA ResumeHandshakeServes ==
  ASSUME MemoryInv, ServedInv, ResumeHandshake
  PROVE  ServedInv'
<1> USE DEF ServedInv
<1>1. /\ answered # <<>> /\ Head(answered).caller = "capabilities"
      /\ answered' = Tail(answered)
      /\ UNCHANGED <<memory, registry, op, last, kindOf, losses>>
  BY DEF ResumeHandshake, CapabilitiesCame
<1>2. /\ 1 \in DOMAIN answered /\ answered[1].caller \notin Op
      /\ \A i \in DOMAIN answered' :
            i \in Nat \ {0} /\ i + 1 \in DOMAIN answered /\ answered'[i] = answered[i + 1]
      /\ \A i \in DOMAIN answered :
            i = 1 \/ (i - 1 \in DOMAIN answered' /\ answered'[i - 1] = answered[i])
  BY <1>1, TakenUp, MemoryAssumption
<1>0. last \in [Pattern -> Op \cup {None}]
  BY DEF MemoryInv, TypeOK
<1>3. ASSUME NEW p \in Pattern, last[p] # None, IsAnswered(p),
             UNCHANGED <<wire, link>>
      PROVE  IsAnswered(p)'
  <2> SUFFICES ASSUME NEW i \in DOMAIN answered', answered'[i].caller = last[p]
        PROVE  /\ Unheard(p)'
               /\ p \in answered'[i].items
               /\ answered'[i].kind = "subscribe" =>
                     /\ \A j \in DOMAIN answered' :
                           /\ i <= j => p \in answered'[j].result
                           /\ i < j => p \notin answered'[j].items
                     /\ link' = "up" => p \in registry'
               /\ answered'[i].kind # "subscribe" =>
                     /\ \A j \in DOMAIN answered' : i <= j => p \notin answered'[j].result
                     /\ p \notin registry'
    BY <1>1 DEF IsAnswered
  <2>1. i + 1 \in DOMAIN answered /\ answered[i + 1].caller = last[p]
    BY <1>2
  <2> QED
    BY <2>1, <1>1, <1>2, <1>3 DEF IsAnswered, Unheard
<1>4. CASE link # "negotiating"
  <2>1. UNCHANGED <<link, wire>>
    BY <1>4 DEF ResumeHandshake
  <2>2. CallsOnce'
    <3> SUFFICES ASSUME NEW q \in Op
                 PROVE  /\ AtMostOne(q, wire') /\ AtMostOne(q, answered')
                        /\ \A i \in DOMAIN wire', j \in DOMAIN answered' :
                              ~(wire'[i].caller = q /\ answered'[j].caller = q)
                        /\ op'[q] \in {"idle", "done"} => ~InFlight(q)'
                        /\ op'[q] = "sent" => InFlight(q)'
      BY DEF CallsOnce, AtMostOne
    <3>1. AtMostOne(q, wire') /\ AtMostOne(q, answered')
      BY <2>1, <1>2 DEF CallsOnce, AtMostOne
    <3>2. InFlight(q)' <=> InFlight(q)
      BY <2>1, <1>2 DEF InFlight
    <3> QED
      BY <3>1, <3>2, <2>1, <1>1, <1>2 DEF CallsOnce
  <2>3. Asked(wire)' /\ Asked(answered)' /\ LastOK'
    BY <2>1, <1>1, <1>2 DEF Asked, LastOK
  <2>4. ASSUME NEW p \in Pattern PROVE PatternOK(p)'
    <3>1. PatternOK(p) /\ (On(p) => On(p)') /\ (Off(p) => Off(p)')
      BY <2>1, <1>1, <1>2 DEF On, Off, Unheard
    <3>2. last[p] # None => OnWire(p)' /\ IsAnswered(p)'
      BY <3>1, <2>1, <1>1, <1>3 DEF OnWire, PatternOK
    <3> QED
      BY <3>1, <3>2, <1>1 DEF PatternOK, Ended
  <2> QED
    BY <2>2, <2>3, <2>4
<1>5. ASSUME link = "negotiating"
      PROVE  /\ wire = <<>>
             /\ \A j \in DOMAIN answered : answered[j].caller \notin Op
             /\ answered' = <<>>
  <2>1. /\ wire \in Seq(Requests) /\ answered \in Seq(Answers)
    BY DEF MemoryInv, TypeOK, Answers
  <2>2. /\ \A i \in DOMAIN wire : wire[i] \in Requests
        /\ \A j \in DOMAIN answered : answered[j] \in Answers
    BY <2>1
  <2>3. \A i \in DOMAIN wire : wire[i].caller \in Op \cup Handshake
    BY <2>2, KindOfMessage DEF Caller, Handshake
  <2>4. \A j \in DOMAIN answered : answered[j].caller \in Op \cup Handshake
    BY <2>2, AnswerFields DEF Caller, Handshake
  <2>5. \A i \in DOMAIN wire : wire[i].caller \notin Op \cup Handshake
    BY <1>1, <1>2, <1>5 DEF Asked, MemoryInv, TypeOK, OneHandshake, Handshake
  <2>6. \A i \in DOMAIN wire : FALSE
    BY <2>3, <2>5
  <2>7. \A j \in DOMAIN answered : answered[j].caller = "capabilities"
    BY <2>4, <1>5 DEF Asked, MemoryInv, OneHandshake, LinkDuring, Handshake
  <2>8. \A j \in DOMAIN answered : j = 1
    <3>1. AtMostOne("capabilities", answered)
      BY DEF MemoryInv, OneHandshake, Handshake
    <3> QED
      BY <3>1, <2>7, <1>2 DEF AtMostOne
  <2>9. answered' \in Seq(Answers) /\ \A j \in DOMAIN answered' : FALSE
    BY <2>8, <1>1, <1>2, AfterHead
  <2>10. wire = <<>> /\ answered' = <<>>
    BY <2>1, <2>6, <2>9, NothingIn
  <2> QED
    BY <2>7, <2>10, MemoryAssumption
<1>6. CASE link = "negotiating" /\ memory = {}
  <2>1. link' = "up" /\ wire' = wire
    BY <1>6 DEF ResumeHandshake
  <2>2. \A i \in DOMAIN wire' : FALSE
    BY <2>1, <1>5, <1>6
  <2>3. \A i \in DOMAIN answered' : FALSE
    BY <1>5, <1>6
  <2>4. CallsOnce'
    BY <2>1, <2>2, <2>3, <1>1, <1>5, <1>6 DEF CallsOnce, AtMostOne, InFlight
  <2>5. Asked(wire)' /\ Asked(answered)' /\ LastOK'
    BY <2>2, <2>3, <1>1 DEF Asked, LastOK
  <2>6. ASSUME NEW p \in Pattern PROVE PatternOK(p)'
    <3>1. PatternOK(p) /\ ~On(p) /\ (Off(p) => Off(p)')
      BY <2>2, <2>3, <1>1, <1>6 DEF On, Off
    <3>2. OnWire(p)' /\ IsAnswered(p)'
      BY <2>2, <2>3 DEF OnWire, IsAnswered
    <3> QED
      BY <3>1, <3>2, <1>1 DEF PatternOK, Ended
  <2> QED
    BY <2>4, <2>5, <2>6
<1>7. CASE link = "negotiating" /\ memory # {}
  <2> DEFINE e == Message("restore", "subscribe", memory)
  <2>1. link' = "restoring" /\ wire' = Append(wire, e)
    BY <1>7 DEF ResumeHandshake, Replay
  <2>2. /\ e.caller = "restore" /\ e.kind = "subscribe" /\ e.items = memory
        /\ e.caller \notin Op
    BY MemoryAssumption DEF Message
  <2>3. \A i \in DOMAIN wire' : i = 1 /\ wire'[i] = e
    BY <2>1, <1>5, <1>7
  <2>4. \A i \in DOMAIN answered' : FALSE
    BY <1>5, <1>7
  <2> HIDE DEF e
  <2>5. CallsOnce'
    BY <2>2, <2>3, <2>4, <1>1, <1>5, <1>7 DEF CallsOnce, AtMostOne, InFlight
  <2>6. Asked(wire)' /\ Asked(answered)' /\ LastOK'
    BY <2>2, <2>3, <2>4, <1>1 DEF Asked, LastOK
  <2>7. ASSUME NEW p \in Pattern PROVE PatternOK(p)'
    <3>1. PatternOK(p) /\ (On(p) => On(p)') /\ (Off(p) => Off(p)')
      BY <2>1, <2>2, <2>3, <2>4, <1>1 DEF On, Off, Unheard
    <3>2. last[p] # None => OnWire(p)' /\ IsAnswered(p)'
      BY <2>2, <2>3, <2>4, <1>0, <1>1 DEF OnWire, IsAnswered
    <3> QED
      BY <3>1, <3>2, <1>1 DEF PatternOK, Ended
  <2> QED
    BY <2>5, <2>6, <2>7
<1> QED
  BY <1>4, <1>6, <1>7

LEMMA ResumeRestoreServes ==
  ASSUME MemoryInv, ServedInv, ResumeRestore
  PROVE  ServedInv'
<1> USE DEF ServedInv
<1>1. /\ answered # <<>> /\ Head(answered).caller = "restore"
      /\ answered' = Tail(answered)
      /\ memory' = Head(answered).result
      /\ link' = IF link = "restoring" THEN "up" ELSE link
      /\ UNCHANGED <<registry, wire, op, last, kindOf, losses>>
  BY DEF ResumeRestore
<1>2. /\ 1 \in DOMAIN answered /\ answered[1].caller \notin Op
      /\ Head(answered) = answered[1]
      /\ \A i \in DOMAIN answered' :
            i \in Nat \ {0} /\ i + 1 \in DOMAIN answered /\ answered'[i] = answered[i + 1]
      /\ \A i \in DOMAIN answered :
            i = 1 \/ (i - 1 \in DOMAIN answered' /\ answered'[i - 1] = answered[i])
  BY <1>1, TakenUp, MemoryAssumption
<1>3. /\ link \in {"down", "restoring"}
      /\ \A i \in DOMAIN wire : wire[i].caller # "restore"
      /\ \A i \in DOMAIN answered' : answered'[i].caller # "restore"
  BY <1>1, AfterHead DEF Handshake, LinkDuring
<1>0. last \in [Pattern -> Op \cup {None}]
  BY DEF MemoryInv, TypeOK
<1>4. link = "restoring" =>
         /\ \A i \in DOMAIN wire : wire[i].caller \notin Op
         /\ \A i \in DOMAIN answered' : answered'[i].caller \notin Op
  BY <1>2 DEF Asked
<1>5. link # "restoring" => link' = "down" /\ link = "down"
  BY <1>1, <1>3
<1>6. CallsOnce'
  BY <1>1, <1>2 DEF CallsOnce, AtMostOne, InFlight
<1>7. Asked(wire)' /\ Asked(answered)' /\ LastOK'
  BY <1>1, <1>2, <1>4, <1>5 DEF Asked, LastOK
<1>8. ASSUME NEW p \in Pattern PROVE PatternOK(p)'
  <2>0. PatternOK(p)
    OBVIOUS
  <2>1. On(p) => On(p)'
    <3> SUFFICES ASSUME On(p) PROVE On(p)'
      OBVIOUS
    <3>1. p \in memory' /\ (link' = "up" => p \in registry')
      BY <1>1, <1>2, <1>3 DEF On
    <3> QED
      BY <3>1, <1>1, <1>2, <1>3 DEF On, Unheard
  <2>2. Off(p) => Off(p)'
    BY <1>1, <1>2 DEF Off
  <2>3. last[p] # None => OnWire(p)'
    BY <2>0, <1>1 DEF OnWire, PatternOK
  <2>4. last[p] # None => IsAnswered(p)'
    <3> SUFFICES ASSUME last[p] # None, NEW i \in DOMAIN answered',
                        answered'[i].caller = last[p]
        PROVE  /\ Unheard(p)'
               /\ p \in answered'[i].items
               /\ answered'[i].kind = "subscribe" =>
                     /\ \A j \in DOMAIN answered' :
                           /\ i <= j => p \in answered'[j].result
                           /\ i < j => p \notin answered'[j].items
                     /\ link' = "up" => p \in registry'
               /\ answered'[i].kind # "subscribe" =>
                     /\ \A j \in DOMAIN answered' : i <= j => p \notin answered'[j].result
                     /\ p \notin registry'
      BY <1>1 DEF IsAnswered
    <3>1. IsAnswered(p) /\ i + 1 \in DOMAIN answered /\ answered[i + 1].caller = last[p]
      BY <2>0, <1>2 DEF PatternOK
    <3>2. link' = "down"
      BY <1>0, <1>4, <1>5
    <3> QED
      BY <3>1, <3>2, <1>1, <1>2 DEF IsAnswered, Unheard
  <2> QED
    BY <2>0, <2>1, <2>2, <2>3, <2>4, <1>1 DEF PatternOK, Ended
<1> QED
  BY <1>6, <1>7, <1>8

LEMMA LoseServes ==
  ASSUME MemoryInv, ServedInv, NEW n \in 0 .. Len(answered), Lose(n)
  PROVE  ServedInv'
<1> USE DEF ServedInv
<1>1. /\ wire' = <<>> /\ link' = "down"
      /\ answered' = SubSeq(answered, 1, n)
      /\ registry' \subseteq registry
      /\ op' = [o \in Op |-> IF op[o] = "sent" /\ \A i \in 1 .. n : answered[i].caller # o
                             THEN "failed" ELSE op[o]]
      /\ UNCHANGED <<memory, last, kindOf>>
  BY DEF Lose
<1>2. answered \in Seq(Answers)
  BY DEF MemoryInv, TypeOK, Answers
<1>3. /\ \A i \in DOMAIN answered' :
            i \in DOMAIN answered /\ answered'[i] = answered[i]
      /\ \A i \in 1 .. n : i \in DOMAIN answered' /\ answered'[i] = answered[i]
  BY <1>1, <1>2, PrefixFrom
<1>4. /\ last \in [Pattern -> Op \cup {None}]
      /\ \A i \in DOMAIN wire' : FALSE
  BY <1>1 DEF MemoryInv, TypeOK
<1>5. \A o \in Op : /\ op[o] # "sent" => op'[o] = op[o]
                    /\ op'[o] \in {"idle", "done"} => op[o] = op'[o]
                    /\ op'[o] = "sent" => \E i \in 1 .. n : answered[i].caller = o
                    /\ op'[o] = "idle" <=> op[o] = "idle"
  BY <1>1
<1>6. CallsOnce'
  <2> SUFFICES ASSUME NEW q \in Op
               PROVE  /\ AtMostOne(q, wire') /\ AtMostOne(q, answered')
                      /\ \A i \in DOMAIN wire', j \in DOMAIN answered' :
                            ~(wire'[i].caller = q /\ answered'[j].caller = q)
                      /\ op'[q] \in {"idle", "done"} => ~InFlight(q)'
                      /\ op'[q] = "sent" => InFlight(q)'
    BY DEF CallsOnce, AtMostOne
  <2>1. AtMostOne(q, wire') /\ AtMostOne(q, answered')
    BY <1>3, <1>4 DEF CallsOnce, AtMostOne
  <2>2. InFlight(q)' => InFlight(q)
    BY <1>3, <1>4 DEF InFlight
  <2>3. op'[q] = "sent" => InFlight(q)'
    BY <1>3, <1>5 DEF InFlight
  <2> QED
    BY <2>1, <2>2, <2>3, <1>4, <1>5 DEF CallsOnce
<1>7. Asked(wire)' /\ Asked(answered)' /\ LastOK'
  BY <1>1, <1>3, <1>4, <1>5 DEF Asked, LastOK
<1>8. ASSUME NEW p \in Pattern PROVE PatternOK(p)'
  <2>1. PatternOK(p) /\ (On(p) => On(p)') /\ (Off(p) => Off(p)')
    BY <1>1, <1>3, <1>4 DEF On, Off, Unheard
  <2>2. last[p] # None => OnWire(p)'
    BY <1>4 DEF OnWire
  <2>3. last[p] # None => IsAnswered(p)'
    BY <2>1, <1>1, <1>3, <1>4 DEF IsAnswered, PatternOK, Unheard
  <2>4. \A kinds : Ended(p, kinds)' => Ended(p, kinds)
    BY <1>1, <1>4, <1>5 DEF Ended
  <2> QED
    BY <2>1, <2>2, <2>3, <2>4, <1>1 DEF PatternOK
<1> QED
  BY <1>6, <1>7, <1>8

LEMMA ServedStep ==
  ASSUME ~Eager, MemoryInv, ServedInv, [Next]_vars
  PROVE  ServedInv'
<1>1. ASSUME NEW o \in Op, Call(o) PROVE ServedInv'
  BY <1>1, CallServes
<1>2. ASSUME NEW o \in Op, Resume(o) PROVE ServedInv'
  BY <1>2, ResumeServes
<1>3. ASSUME NEW o \in Op, GiveUp(o) PROVE ServedInv'
  BY <1>3, GiveUpServes
<1>4. CASE Handle
  BY <1>4, HandleServes
<1>5. CASE Connect
  BY <1>5, ConnectServes
<1>6. CASE ResumeHandshake
  BY <1>6, ResumeHandshakeServes
<1>7. CASE ResumeRestore
  BY <1>7, ResumeRestoreServes
<1>8. ASSUME NEW n \in 0 .. Len(answered), Lose(n) PROVE ServedInv'
  BY <1>8, LoseServes
<1>9. CASE UNCHANGED vars
  BY <1>9 DEF vars, ServedInv, CallsOnce, AtMostOne, InFlight, Asked, LastOK, PatternOK,
              On, Off, Unheard, OnWire, IsAnswered, Ended
<1> QED
  BY <1>1, <1>2, <1>3, <1>4, <1>5, <1>6, <1>7, <1>8, <1>9 DEF Next

\* A client at rest has every pattern on or off.
LEMMA ServedConfirms == MemoryInv /\ ServedInv => ConfirmedHolds
<1> SUFFICES ASSUME MemoryInv, ServedInv, Quiet, NEW p \in Pattern
             PROVE  /\ Ended(p, {"subscribe"}) => p \in memory \cap registry
                    /\ Ended(p, {"unsubscribe", "unsubscribeAll"}) =>
                          p \notin memory \cup registry
  BY DEF ConfirmedHolds, SubscribedIsServed, UnsubscribedIsOff
<1> QED
  BY DEF ServedInv, PatternOK, On, Off, Quiet

LEMMA ServedAgrees == MemoryInv /\ ServedInv => MemoryIsServed
<1> SUFFICES ASSUME MemoryInv, ServedInv, Quiet, \A o \in Op : op[o] # "failed"
             PROVE  memory = registry
  BY DEF MemoryIsServed
<1>1. /\ memory \subseteq Pattern /\ registry \subseteq Pattern
      /\ op \in [Op -> {"idle", "sent", "done", "failed"}]
      /\ last \in [Pattern -> Op \cup {None}]
  BY DEF MemoryInv, TypeOK
<1>2. \A o \in Op : op[o] \in {"idle", "done"}
  <2>1. \A o \in Op : ~InFlight(o)
    BY DEF InFlight, Quiet
  <2> QED
    BY <2>1, <1>1 DEF ServedInv, CallsOnce
<1>3. ASSUME NEW p \in Pattern PROVE p \in memory <=> p \in registry
  <2>1. CASE last[p] = None
    BY <2>1 DEF ServedInv, PatternOK, Off
  <2>2. CASE last[p] # None
    <3>1. /\ op[last[p]] = "done"
          /\ kindOf[last[p]] \in {"subscribe", "unsubscribe", "unsubscribeAll"}
      BY <2>2, <1>1, <1>2 DEF ServedInv, LastOK
    <3> QED
      BY <2>2, <3>1 DEF ServedInv, PatternOK, On, Off, Ended, Quiet
  <2> QED
    BY <2>1, <2>2
<1> QED
  BY <1>1, <1>3

\* What was confirmed to a caller of subscribe or unsubscribe (namespaces/events.py)
\* is in force at the server and remembered, whenever the client is connected and
\* at rest: however calls overlap, time out or are cancelled, the connection is lost
\* and the replay is repeated, as long as no call is made during the handshake.
THEOREM ConfirmedStaysInForce == ASSUME ~Eager PROVE Spec => []ConfirmedHolds
<1>1. Init => MemoryInv /\ ServedInv
  BY MemoryInit, ServedInit
<1>2. (MemoryInv /\ ServedInv) /\ [Next]_vars => (MemoryInv /\ ServedInv)'
  BY MemoryStep, ServedStep
<1>3. MemoryInv /\ ServedInv => ConfirmedHolds
  BY ServedConfirms
<1> QED
  BY <1>1, <1>2, <1>3, PTL DEF Spec

\* While no call has failed, the client at rest remembers exactly what the server
\* serves, the replay of _on_connected (client.py:141-148) included, under the same
\* condition on the calls during the handshake.
THEOREM MemoryStaysServed == ASSUME ~Eager PROVE Spec => []MemoryIsServed
<1>1. Init => MemoryInv /\ ServedInv
  BY MemoryInit, ServedInit
<1>2. (MemoryInv /\ ServedInv) /\ [Next]_vars => (MemoryInv /\ ServedInv)'
  BY MemoryStep, ServedStep
<1>3. MemoryInv /\ ServedInv => MemoryIsServed
  BY ServedAgrees
<1> QED
  BY <1>1, <1>2, <1>3, PTL DEF Spec
=============================================================================
