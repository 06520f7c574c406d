------------------------ MODULE ControlChannel_proofs ------------------------
(***************************************************************************)
(* Proofs about ControlChannel, for every set of bodies and every bound.   *)
(***************************************************************************)
EXTENDS ControlChannel, SequenceTheorems, TLAPS

\* parse of any body is an outcome, and a message it accepts has a type.
LEMMA ParseType ==
  ASSUME NEW b \in Body
  PROVE  /\ Parse(b).out \in {"reject", "throw", "ok"}
         /\ Parse(b).out = "ok" => /\ Parse(b).type \in {"CLOSE", "CLOSE_ALL"}
                                   /\ Parse(b).id \in Int
<1>1. b.client_id.val \in Int
  BY JsonAssumption DEF Body, Values, Null, Json
<1>2. AsInt(b.client_id) \in Int
  BY <1>1 DEF AsInt
<1> QED BY <1>2 DEF Parse, Reject, Throw, Command

\* The message onReceived works on is one that was published.
LEMMA HandledType ==
  ASSUME TypeOK, handling # 0
  PROVE  /\ handling \in 1..Len(body) /\ handling \in Msg /\ body[handling] \in Body
         /\ Result.out = "ok" => Result.type \in {"CLOSE", "CLOSE_ALL"} /\ Result.id \in Int
<1>1. handling \in 1..Len(body) /\ handling \in Msg /\ body[handling] \in Body
  BY ChannelAssumption DEF TypeOK, Msg
<1> QED BY <1>1, ParseType DEF Result

\* A sequence over the messages published so far stays one.
LEMMA SeqGrows ==
  ASSUME NEW k \in Nat, NEW s \in Seq(1..k)
  PROVE  s \in Seq(1..k + 1)
<1>1. Len(s) \in Nat /\ \A i \in 1..Len(s) : s[i] \in 1..k + 1
  OBVIOUS
<1> QED BY <1>1

\* Every step keeps the state well typed.
LEMMA TypeStep == TypeOK /\ [Next]_vars => TypeOK'
<1> SUFFICES ASSUME TypeOK, [Next]_vars PROVE TypeOK'
  OBVIOUS
<1> USE ChannelAssumption
<1>1. CASE UNCHANGED vars
  BY <1>1 DEF TypeOK, vars, broker
<1>2. ASSUME NEW b \in Bodies, Publish(b) PROVE TypeOK'
  <2>1. body' \in Seq(Body) /\ Len(body') = Len(body) + 1 /\ Len(body') <= MaxPublished
    BY <1>2 DEF TypeOK, Publish
  <2>2. 1..Len(body) \subseteq 1..Len(body')
    BY <2>1 DEF TypeOK
  <2>3. wire' \in Seq(1..Len(body')) /\ acks' \in Seq(1..Len(body'))
    BY <1>2, <2>1, SeqGrows DEF TypeOK, Publish
  <2>4. ready' \subseteq 1..Len(body')
    <3>1. ready \subseteq 1..Len(body) /\ ready' = ready \cup {Len(body) + 1} /\ Len(body) \in Nat
      BY <1>2 DEF TypeOK, Publish
    <3>2. Len(body) + 1 \in 1..Len(body')
      BY <2>1, <3>1
    <3> QED BY <2>2, <3>1, <3>2, Zenon
  <2>5. handling' \in 0..Len(body')
    <3>1. handling \in 0..Len(body) /\ handling' = handling /\ Len(body) \in Nat
      BY <1>2 DEF TypeOK, Publish
    <3> QED BY <2>1, <3>1
  <2> QED BY <1>2, <2>1, <2>2, <2>3, <2>4, <2>5 DEF TypeOK, Publish
<1>3. ASSUME NEW n \in Msg, Deliver(n) PROVE TypeOK'
  BY <1>3 DEF TypeOK, Deliver
<1>4. CASE AckArrives
  <2>1. Head(acks) \in 1..Len(body) /\ Tail(acks) \in Seq(1..Len(body))
    BY <1>4 DEF TypeOK, AckArrives
  <2> QED BY <1>4, <2>1 DEF TypeOK, AckArrives
<1>5. CASE Requeue
  BY <1>5, EmptySeq DEF TypeOK, Requeue
<1>6. CASE Start \/ QueueDeclared
  BY <1>6 DEF TypeOK, Start, QueueDeclared, broker
<1>7. CASE OnError \/ Stop
  <2>1. /\ chan' \in {"off", "closed"} /\ wire' = <<>>
        /\ ends < MaxEnds /\ ends' = ends + 1
        /\ UNCHANGED <<broker, acks, handling, fate, ran>>
    BY <1>7 DEF OnError, Stop
  <2>2. ends' \in 0..MaxEnds
    BY <2>1 DEF TypeOK
  <2> QED BY <2>1, <2>2, EmptySeq DEF TypeOK, broker
<1>8. CASE OnReceived
  <2>1. Head(wire) \in 1..Len(body) /\ Tail(wire) \in Seq(1..Len(body))
    BY <1>8 DEF TypeOK, OnReceived
  <2> QED BY <1>8, <2>1 DEF TypeOK, OnReceived, broker
<1>9. ASSUME handling # 0, NEW f \in Fate, Done(f)
      PROVE  handling' \in 0..Len(body) /\ fate' \in [Msg -> SUBSET Fate]
  BY <1>9, HandledType DEF TypeOK, Done
<1>10. CASE CantParse
  BY <1>9, <1>10 DEF TypeOK, CantParse, Fate, broker
<1>11. CASE CtlMessage
  <2>1. ran' \subseteq [msg : 1..Len(body), type : {"CLOSE", "CLOSE_ALL"}, id : Int]
    BY <1>11, HandledType DEF TypeOK, CtlMessage
  <2> QED BY <1>9, <1>11, <2>1 DEF TypeOK, CtlMessage, Fate, broker
<1>12. CASE ParseThrows
  BY <1>9, <1>12, EmptySeq DEF TypeOK, ParseThrows, Fate, broker
<1>13. CASE Crash
  BY <1>9, <1>13, EmptySeq DEF TypeOK, Crash, Fate, broker
<1> QED BY <1>1, <1>2, <1>3, <1>4, <1>5, <1>6, <1>7, <1>8, <1>10, <1>11, <1>12, <1>13
        DEF Next, Handler

\* Every reachable state is well typed.
THEOREM TypeCorrect == Spec => []TypeOK
<1>1. Init => TypeOK
  BY ChannelAssumption, EmptySeq DEF Init, TypeOK
<1> QED BY <1>1, TypeStep, PTL DEF Spec

-----------------------------------------------------------------------------
\* onReceived has begun with message n, in some life of the process.
Taken(n) == fate[n] # {} \/ handling = n
TakenThen(n) == fate'[n] # {} \/ handling' = n

\* AckedWasTaken is not inductive: it needs the same of the acknowledgements
\* that are still on their way.
AckInv == /\ \A n \in acked : Taken(n)
          /\ \A i \in 1..Len(acks) : Taken(acks[i])

\* The acknowledgement behind the first one is the first one of the rest.
LEMMA TailElements ==
  ASSUME NEW S, NEW s \in Seq(S), s # <<>>
  PROVE  /\ Head(s) = s[1] /\ 1 \in 1..Len(s)
         /\ \A i \in 1..Len(Tail(s)) : Tail(s)[i] = s[i + 1] /\ i + 1 \in 1..Len(s)
OBVIOUS

\* A message once taken stays so.
LEMMA TakenStays ==
  ASSUME TypeOK, [Next]_vars, NEW n \in Msg, Taken(n)
  PROVE  TakenThen(n)
<1>1. ASSUME handling # 0, NEW f \in Fate, Done(f) PROVE TakenThen(n)
  BY <1>1, HandledType DEF TypeOK, Done, Taken, TakenThen
<1>2. CASE UNCHANGED <<fate, handling>>
  BY <1>2 DEF Taken, TakenThen
<1>3. CASE OnReceived
  BY <1>3 DEF OnReceived, Taken, TakenThen, TypeOK, Msg
<1>4. CASE CantParse \/ CtlMessage \/ ParseThrows \/ Crash
  BY <1>1, <1>4 DEF CantParse, CtlMessage, ParseThrows, Crash, Fate
<1> QED
  BY <1>2, <1>3, <1>4 DEF Next, Handler, vars, Publish, Deliver, AckArrives, Requeue, Start,
     QueueDeclared, OnError, Stop

\* Every step preserves AckInv.
LEMMA AckStep ==
  ASSUME TypeOK, AckInv, [Next]_vars
  PROVE  AckInv'
<1>1. /\ \A n \in acked : n \in Msg /\ TakenThen(n)
      /\ \A i \in 1..Len(acks) : acks[i] \in Msg /\ TakenThen(acks[i])
  <2>1. 1..Len(body) \subseteq Msg
    BY ChannelAssumption DEF TypeOK, Msg
  <2>2. /\ \A n \in acked : n \in Msg
        /\ \A i \in 1..Len(acks) : acks[i] \in Msg
    <3>1. acked \subseteq 1..Len(body) /\ acks \in Seq(1..Len(body))
      BY DEF TypeOK
    <3>2. \A i \in 1..Len(acks) : acks[i] \in 1..Len(body)
      BY <3>1
    <3> QED BY <2>1, <3>1, <3>2
  <2> QED BY <2>2, TakenStays DEF AckInv
<1>2. CASE UNCHANGED <<acked, acks>>
  BY <1>1, <1>2 DEF AckInv, Taken, TakenThen
<1>3. CASE AckArrives
  <2>1. acks \in Seq(1..Len(body)) /\ acks # <<>>
    BY <1>3 DEF TypeOK, AckArrives
  <2>2. TakenThen(Head(acks)) /\ \A i \in 1..Len(Tail(acks)) : TakenThen(Tail(acks)[i])
    BY <1>1, <2>1, TailElements
  <2>3. acked' = acked \cup {Head(acks)} /\ acks' = Tail(acks)
    BY <1>3 DEF AckArrives
  <2> QED BY <1>1, <2>2, <2>3 DEF AckInv, Taken, TakenThen
<1>4. CASE Requeue
  BY <1>1, <1>4 DEF AckInv, Requeue, Taken, TakenThen
<1>5. CASE OnReceived
  <2>1. /\ acks' = Append(acks, Head(wire)) /\ handling' = Head(wire)
        /\ UNCHANGED acked
    BY <1>5 DEF OnReceived, broker
  <2>2. acks \in Seq(1..Len(body)) /\ Head(wire) \in 1..Len(body)
    BY <1>5 DEF TypeOK, OnReceived
  <2>3. TakenThen(Head(wire))
    BY <2>1 DEF TakenThen
  <2>4. \A i \in 1..Len(acks') :
          acks'[i] = Head(wire) \/ (i \in 1..Len(acks) /\ acks'[i] = acks[i])
    BY <2>1, <2>2
  <2> QED BY <1>1, <2>1, <2>3, <2>4 DEF AckInv, Taken, TakenThen
<1> QED
  BY <1>2, <1>3, <1>4, <1>5 DEF Next, Handler, vars, broker, Publish, Deliver, Start,
     QueueDeclared, OnError, CantParse, CtlMessage, ParseThrows, Stop, Crash

\* What the broker has deleted, onReceived had taken: a crash loses the command
\* it interrupts and no other (controlchannel.cpp:66-81).
THEOREM AckedWasTakenHolds == Spec => []AckedWasTaken
<1>1. Init => AckInv
  BY DEF Init, AckInv
<1>2. TypeOK /\ AckInv /\ [Next]_vars => AckInv'
  BY AckStep
<1>3. AckInv => AckedWasTaken
  BY DEF AckInv, Taken, AckedWasTaken
<1> QED BY <1>1, <1>2, <1>3, TypeCorrect, PTL DEF Spec

-----------------------------------------------------------------------------
\* What OnlyCommandsRun says of one command r and its message's body b.
Asked(r, b) == /\ b.root = "object" /\ b.job = Job
               /\ b.client_id.type \in {"int", "real", "half", "bool"}
               /\ r.id = AsInt(b.client_id)
               /\ r.type = "CLOSE_ALL" <=> r.id < 0

\* parse accepts only a message that asks for what it returns.
LEMMA ParseSound ==
  ASSUME NEW b \in Body, Parse(b).out = "ok"
  PROVE  Asked(Parse(b), b)
<1>1. /\ b.root \notin {"malformed", "scalar", "array"} /\ ~WrongData(b) /\ b.job = Job
      /\ Parse(b) = Command(AsInt(b.client_id))
  BY DEF Parse, Reject, Throw
<1>2. b.client_id.type # "null" /\ b.client_id.type \in {"int", "real", "half", "bool"}
  BY <1>1 DEF WrongData, Empty, ConvertibleToInt
<1>3. b.root = "object"
  <2>1. CASE b \in [root : {"malformed", "null", "scalar", "array"}, client_id : {Null}, job : {Null}]
    BY <1>2, <2>1 DEF Null, Json
  <2>2. CASE b \in [root : {"object"}, client_id : Values, job : Values]
    BY <2>2
  <2> QED BY <2>1, <2>2 DEF Body
<1>4. AsInt(b.client_id) \in Int
  BY JsonAssumption DEF AsInt, Body, Values, Null, Json
<1> QED BY <1>1, <1>2, <1>3, <1>4 DEF Asked, Command

\* No command is executed that no message asked for (jsonparser.cpp:11-33,
\* controlchannel.cpp:69-80).
THEOREM OnlyCommandsRunHolds == Spec => []OnlyCommandsRun
<1>1. Init => OnlyCommandsRun
  BY DEF Init, OnlyCommandsRun
<1>2. TypeOK /\ OnlyCommandsRun /\ [Next]_vars => OnlyCommandsRun'
  <2> SUFFICES ASSUME TypeOK, OnlyCommandsRun, [Next]_vars, NEW r \in ran'
               PROVE  Asked(r, body'[r.msg])
    BY DEF OnlyCommandsRun, Asked
  <2>1. ASSUME NEW q \in ran PROVE Asked(q, body[q.msg]) /\ q.msg \in 1..Len(body)
    BY <2>1 DEF OnlyCommandsRun, Asked, TypeOK
  <2>2. \A n \in 1..Len(body) : body'[n] = body[n]
    <3>1. CASE UNCHANGED body
      BY <3>1
    <3>2. ASSUME NEW b \in Bodies, Publish(b) PROVE \A n \in 1..Len(body) : body'[n] = body[n]
      BY <3>2, ChannelAssumption DEF Publish, TypeOK
    <3> QED BY <3>1, <3>2 DEF Next, Handler, vars, broker, Deliver, AckArrives, Requeue, Start,
              QueueDeclared, OnError, OnReceived, CantParse, CtlMessage, ParseThrows, Stop, Crash
  <2>3. CASE r \in ran
    BY <2>1, <2>2, <2>3
  <2>4. CASE r \notin ran
    <3>1. CtlMessage
      BY <2>4 DEF Next, Handler, vars, broker, Publish, Deliver, AckArrives, Requeue, Start,
         QueueDeclared, OnError, OnReceived, CantParse, ParseThrows, Stop, Crash
    <3>2. /\ r = [msg |-> handling, type |-> Result.type, id |-> Result.id]
          /\ handling # 0 /\ Result.out = "ok" /\ body' = body
      BY <2>4, <3>1 DEF CtlMessage, broker
    <3>3. body[handling] \in Body
      BY <3>2, HandledType
    <3>4. Asked(Result, body[handling])
      BY <3>2, <3>3, ParseSound DEF Result
    <3> QED BY <3>2, <3>4 DEF Asked
  <2> QED BY <2>3, <2>4
<1> QED BY <1>1, <1>2, TypeCorrect, PTL DEF Spec

-----------------------------------------------------------------------------
\* A command as its senders write it.
WellFormed(b) == /\ b.root = "object" /\ b.job = Job
                 /\ b.client_id.type = "int" /\ b.client_id.val \in MinInt..MaxInt

\* parse accepts every such command.
LEMMA ParseComplete ==
  ASSUME NEW b \in Body, WellFormed(b)
  PROVE  Parse(b).out = "ok"
  BY DEF WellFormed, Parse, WrongData, Empty, ConvertibleToInt, Command, Job, Json

\* A message that has not been published has met no fate.
UnpublishedInv == \A n \in Msg : n > Len(body) => fate[n] = {}

\* The inductive invariant of CommandsAccepted.
AcceptInv == UnpublishedInv /\ CommandsAccepted

\* A step adds at most one fate, to the message at hand, and "rejected" only if
\* parse rejects it, "died" only if parse throws or the process ends.
LEMMA FateStep ==
  ASSUME TypeOK, [Next]_vars, NEW n \in Msg, NEW f \in fate'[n], f \notin fate[n]
  PROVE  /\ n \in 1..Len(body) /\ body' = body
         /\ f = "ran" \/ Parse(body[n]).out # "ok" \/ ends' > 0
<1>1. CantParse \/ CtlMessage \/ ParseThrows \/ Crash
  BY DEF Next, Handler, vars, broker, Publish, Deliver, AckArrives, Requeue, Start,
         QueueDeclared, OnError, OnReceived, Stop
<1>2. handling # 0 /\ body' = body /\ \E g \in Fate : Done(g)
  BY <1>1 DEF CantParse, CtlMessage, ParseThrows, Crash, Fate, broker
<1>3. handling \in 1..Len(body) /\ handling = n
  BY <1>2, HandledType DEF Done, TypeOK
<1>4. ASSUME NEW g, Done(g) PROVE f = g
  BY <1>3, <1>4 DEF Done, TypeOK
<1>5. CASE CantParse
  BY <1>2, <1>3, <1>5 DEF CantParse, Result
<1>6. CASE CtlMessage
  BY <1>2, <1>3, <1>4, <1>6 DEF CtlMessage
<1>7. CASE ParseThrows
  BY <1>2, <1>3, <1>7 DEF ParseThrows, Result
<1>8. CASE Crash
  BY <1>2, <1>3, <1>8, ChannelAssumption DEF Crash, TypeOK
<1> QED BY <1>1, <1>5, <1>6, <1>7, <1>8

\* A command as its senders write it is carried out, whatever else is published
\* and whenever it is delivered, unless the process or the channel ends
\* (jsonparser.cpp:11-33, controlchannel.cpp:69-80).
THEOREM CommandsAcceptedHolds == Spec => []CommandsAccepted
<1>1. Init => AcceptInv
  BY DEF Init, AcceptInv, UnpublishedInv, CommandsAccepted, Msg
<1>2. TypeOK /\ AcceptInv /\ [Next]_vars => AcceptInv'
  <2> SUFFICES ASSUME TypeOK, AcceptInv, [Next]_vars PROVE AcceptInv'
    OBVIOUS
  <2>1. TypeOK'
    BY TypeStep
  <2>2. /\ Len(body) \in Nat /\ Len(body') \in Nat /\ Len(body') >= Len(body)
        /\ \A n \in 1..Len(body) : body'[n] = body[n]
    <3>1. CASE UNCHANGED body
      BY <3>1 DEF TypeOK
    <3>2. ASSUME NEW b \in Bodies, Publish(b)
          PROVE  /\ Len(body) \in Nat /\ Len(body') \in Nat /\ Len(body') >= Len(body)
                 /\ \A n \in 1..Len(body) : body'[n] = body[n]
      BY <3>2, ChannelAssumption DEF Publish, TypeOK
    <3> QED BY <3>1, <3>2 DEF Next, Handler, vars, broker, Deliver, AckArrives, Requeue, Start,
              QueueDeclared, OnError, OnReceived, CantParse, CtlMessage, ParseThrows, Stop, Crash
  <2>3. UnpublishedInv'
    <3> SUFFICES ASSUME NEW n \in Msg, n > Len(body'), NEW f \in fate'[n] PROVE FALSE
      BY DEF UnpublishedInv
    <3>1. f \notin fate[n] /\ ~(n \in 1..Len(body))
      BY <2>2 DEF AcceptInv, UnpublishedInv, Msg
    <3> QED BY <3>1, FateStep
  <2>4. ends' >= ends /\ ends \in Nat /\ ends' \in Nat
    BY <2>1, ChannelAssumption DEF TypeOK, Next, Handler, vars, broker, Publish, Deliver, AckArrives,
       Requeue, Start, QueueDeclared, OnError, OnReceived, CantParse, CtlMessage, ParseThrows, Stop, Crash
  <2>5. CommandsAccepted'
    <3> SUFFICES ASSUME NEW n \in 1..Len(body'), WellFormed(body'[n]), NEW f \in fate'[n], f # "ran"
                 PROVE  ends' > 0
      BY <2>4 DEF CommandsAccepted, WellFormed
    <3>1. n \in Msg
      BY <2>1, ChannelAssumption DEF TypeOK, Msg
    <3>2. CASE f \in fate[n]
      <4>1. n \in 1..Len(body)
        BY <2>2, <3>1, <3>2 DEF AcceptInv, UnpublishedInv
      <4> QED BY <2>2, <2>4, <3>2, <4>1 DEF AcceptInv, CommandsAccepted, WellFormed
    <3>3. CASE f \notin fate[n]
      <4>1. n \in 1..Len(body) /\ body' = body /\ (Parse(body[n]).out # "ok" \/ ends' > 0)
        BY <3>1, <3>3, FateStep
      <4>2. body[n] \in Body
        BY <4>1 DEF TypeOK
      <4> QED BY <4>1, <4>2, ParseComplete
    <3> QED BY <3>2, <3>3
  <2> QED BY <2>3, <2>5 DEF AcceptInv
<1>3. AcceptInv => CommandsAccepted
  BY DEF AcceptInv
<1> QED BY <1>1, <1>2, <1>3, TypeCorrect, PTL DEF Spec
=============================================================================
