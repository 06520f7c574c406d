-------------------------- MODULE DeferredReceiver --------------------------
(***************************************************************************)
(* Receiving messages on a channel (deferredreceiver.h and the classes     *)
(* derived from it, message.h, stack_ptr.h, and the consumers of           *)
(* channelimpl.h): a message comes as a begin frame, a header with its     *)
(* size and body frames of any length, which may bring more than the size  *)
(* announced; callbacks get the parts, or the message that AMQP-CPP puts   *)
(* together.                                                               *)
(*                                                                         *)
(* The bodies of process() and complete() are not in the repository; they  *)
(* are modelled as the comments of deferredconsumer.h:141-160 have them.   *)
(* Byte i of message n is <<n, i>>; its delivery tag is n.                 *)
(***************************************************************************)
EXTENDS Integers, Sequences

CONSTANTS Consumer,     \* consumers, named by their tags
          Get,          \* results of get()
          Publisher,    \* the object that returned messages go to
          Methods,      \* the methods the program calls to register callbacks
          Sizes,        \* sizes of messages
          None,
          Excess,       \* bound: how many bytes a message may have beyond its size
          MaxMessages   \* bound: the number of messages

Receivers == Consumer \cup Get \cup Publisher

VARIABLES consumers,   \* _consumers of the channel
          receiver,    \* _receiver of the channel, or None
          cbs,         \* the callbacks that are set, by receiver
          message,     \* _message, a stack_ptr, by receiver
          left,        \* _bodySize of the receiver: bytes still to come.  Below 0 the
                       \* uint64_t has wrapped, and is not 0 before 2^64 more have come
          frame,       \* what the broker sends next: stage, to, size, and bytes sent;
                       \* and whether to asked for messages when this one began
          sent,        \* the number of messages begun
          parts,       \* the callbacks of this message so far
          got          \* the last message received: to, tag, size, body, the callbacks that
                       \* ran, and whether one asks for messages

vars == <<consumers, receiver, cbs, message, left, frame, sent, parts, got>>

NoMessage == [made |-> FALSE, size |-> 0, own |-> FALSE, filled |-> 0, body |-> <<>>,
              complete |-> FALSE]
NoneYet   == [to |-> None, tag |-> 0, size |-> 0, parts |-> <<>>, body |-> <<>>,
              asked |-> FALSE]
NoFrame   == [stage |-> "begin", to |-> None, size |-> 0, at |-> 0, asked |-> FALSE]

Init == /\ consumers = {} /\ receiver = None
        /\ cbs = [r \in Receivers |-> {}]
        /\ message = [r \in Receivers |-> NoMessage]
        /\ left = 0 /\ frame = NoFrame /\ sent = 0
        /\ parts = <<>> /\ got = NoneYet

-----------------------------------------------------------------------------
(* Registration.                                                           *)

WholeMethods == [onReceived |-> "message", onMessage |-> "message"]

PartMethods == [onBegin |-> "begin", onStart |-> "begin", onSize |-> "size",
                onHeaders |-> "headers", onData |-> "data",
                onComplete |-> "complete", onDelivered |-> "complete"]

GetMethods == [onSuccess |-> "message", onReceived |-> "message", onMessage |-> "message",
               onEmpty |-> "empty", onCount |-> "count"]

GetPartMethods == [onBegin |-> "begin", onStart |-> "begin", onSize |-> "size",
                   onHeaders |-> "headers", onData |-> "data",
                   onComplete |-> "complete", onDelivered |-> "complete"]

ReturnMethods == [onReceived |-> "message", onMessage |-> "message",
                  onReturned |-> "message", onBounced |-> "message"]

ReturnPartMethods == [onBegin |-> "begin", onSize |-> "size", onHeaders |-> "headers",
                      onData |-> "data", onComplete |-> "complete"]

MethodsOf(r) == CASE r \in Consumer -> {WholeMethods, PartMethods}
                  [] r \in Get      -> {GetMethods, GetPartMethods}
                  [] OTHER          -> {ReturnMethods, ReturnPartMethods}

\* A callback may be set at any time, also while a message is coming in.
Register(r, m) ==
  /\ \E ms \in MethodsOf(r) : m \in DOMAIN ms /\ cbs' = [cbs EXCEPT ![r] = @ \cup {ms[m]}]
  /\ cbs' # cbs
  /\ UNCHANGED <<consumers, receiver, message, left, frame, sent, parts, got>>

\* The broker is between two messages: also when the last one brought more than its
\* size, for which the receiver goes on waiting.
Between == frame.stage = "begin" \/ (frame.stage = "body" /\ frame.at > frame.size)

\* install and uninstall of a consumer, when it is started and cancelled.
Install(r) == /\ r \in Consumer \ consumers /\ Between
              /\ consumers' = consumers \cup {r}
              /\ UNCHANGED <<receiver, cbs, message, left, frame, sent, parts, got>>

Uninstall(r) == /\ r \in consumers /\ Between
                /\ consumers' = consumers \ {r}
                /\ UNCHANGED <<receiver, cbs, message, left, frame, sent, parts, got>>

-----------------------------------------------------------------------------
(* Message and stack_ptr<Message>.                                         *)

construct == [NoMessage EXCEPT !.made = TRUE]

reset(m) == NoMessage

\* Message::setBodySize; the sizes are ones that fit.
setBodySize(m, n) == [m EXCEPT !.size = n]

Least(a, b) == IF a < b THEN a ELSE b

\* Mutant: the bytes of a later frame are not limited to what is left.
AppendUnguarded(m, data) ==
  LET more == IF m.own
              THEN [m EXCEPT !.body = @ \o data, !.filled = @ + Len(data)]
              ELSE IF Len(data) >= m.size
              THEN [m EXCEPT !.body = SubSeq(data, 1, m.size)]
              ELSE [m EXCEPT !.own = TRUE, !.body = data, !.filled = Len(data)]
  IN  [more EXCEPT !.complete = more.filled >= more.size]

\* Message::append: one frame that has the whole body is not copied, and the body is
\* its first bytes; of a later frame no more is taken than the buffer has room for.
append(m, data) ==
  LET n    == Least(Len(data), m.size - m.filled)
      more == IF m.own
              THEN [m EXCEPT !.body = @ \o SubSeq(data, 1, n), !.filled = @ + n]
              ELSE IF Len(data) >= m.size
              THEN [m EXCEPT !.body = SubSeq(data, 1, m.size)]
              ELSE [m EXCEPT !.own = TRUE, !.body = data, !.filled = Len(data)]
  IN  [more EXCEPT !.complete = more.filled >= more.size]

-----------------------------------------------------------------------------
(* The frames of a message.                                                *)

Has(r, cb)  == r # None /\ cb \in cbs[r]
Call(r, cb) == IF Has(r, cb) THEN <<cb>> ELSE <<>>

Set(r, m) == IF r = None THEN message ELSE [message EXCEPT ![r] = m]

\* A begin frame selects the receiver: a consumer by its tag, the object of get(),
\* or the one for returned messages.
Begin(r, size) ==
  LET to == IF r \in Consumer \ consumers THEN None ELSE r
  IN  /\ Between /\ sent < MaxMessages
      /\ sent' = sent + 1
      /\ receiver' = to
      /\ message' = Set(to, IF Has(to, "message") THEN construct ELSE message[to])
      /\ parts' = (IF r \in Get THEN Call(to, "count") ELSE <<>>) \o Call(to, "begin")
      /\ frame' = [stage |-> "header", to |-> r, size |-> size, at |-> 0,
                   asked |-> Has(to, "message")]
      /\ UNCHANGED <<consumers, cbs, left, got>>

\* get() found no message.
Empty(r) == /\ Between /\ r \in Get /\ sent < MaxMessages
            /\ sent' = sent + 1
            /\ got' = [to |-> r, tag |-> sent + 1, size |-> 0,
                       parts |-> Call(r, "empty"), body |-> <<>>,
                       asked |-> FALSE]
            /\ UNCHANGED <<consumers, receiver, cbs, message, left, frame, parts>>

\* complete(): the callbacks, a new message the next time, and no receiver.
complete(m, done) ==
  /\ got' = [to |-> receiver, tag |-> sent, size |-> frame.size,
             parts |-> done \o (IF m.made THEN <<"message">> ELSE <<>>)
                            \o Call(receiver, "complete"),
             body |-> IF m.made THEN m.body ELSE <<>>,
             asked |-> frame.asked]
  /\ message' = Set(receiver, reset(m))
  /\ receiver' = None /\ parts' = <<>> /\ frame' = NoFrame

Current == IF receiver = None THEN NoMessage ELSE message[receiver]

Header ==
  LET m    == IF Current.made THEN setBodySize(Current, frame.size) ELSE Current
      done == parts \o Call(receiver, "size") \o Call(receiver, "headers")
  IN  /\ frame.stage = "header"
      /\ left' = frame.size
      /\ IF frame.size = 0 THEN complete(m, done)
         ELSE /\ message' = Set(receiver, m) /\ parts' = done
              /\ frame' = [frame EXCEPT !.stage = "body"]
              /\ UNCHANGED <<receiver, got>>
      /\ UNCHANGED <<consumers, cbs, sent>>

\* A frame with more than what is left completes nothing: the counter wraps.
Body(n) ==
  LET data == [i \in 1..n |-> <<sent, frame.at + i>>]
      m    == IF Current.made THEN append(Current, data) ELSE Current
      done == parts \o Call(receiver, "data")
  IN  /\ frame.stage = "body" /\ n \in 1..(frame.size + Excess - frame.at)
      /\ left' = left - n
      /\ IF left = n THEN complete(m, done)
         ELSE /\ message' = Set(receiver, m) /\ parts' = done
              /\ frame' = [frame EXCEPT !.at = @ + n]
              /\ UNCHANGED <<receiver, got>>
      /\ UNCHANGED <<consumers, cbs, sent>>

Next == \/ \E r \in Receivers : \/ \E m \in Methods : Register(r, m)
                                \/ Install(r) \/ Uninstall(r) \/ Empty(r)
                                \/ \E n \in Sizes : Begin(r, n)
        \/ Header
        \/ \E s \in Sizes : \E n \in 1..(s + Excess) : Body(n)

Spec == Init /\ [][Next]_vars

-----------------------------------------------------------------------------
\* The type of the state.
TypeOK == /\ consumers \subseteq Consumer /\ receiver \in Receivers \cup {None}
          /\ cbs \in [Receivers -> SUBSET {"message", "begin", "size", "headers", "data",
                                           "complete", "empty", "count"}]
          /\ \A r \in Receivers :
               /\ message[r].made \in BOOLEAN /\ message[r].own \in BOOLEAN
               /\ message[r].size \in Sizes \cup {0} /\ message[r].filled \in Nat
          /\ left \in Int /\ sent \in 0..MaxMessages

Names(size, n) == [i \in 1..size |-> <<n, i>>]

\* Who had registered for messages when one began gets it, with its own bytes, all of
\* them and in order, however the broker cut it into frames, whatever came before, one
\* too long included, and whatever is registered meanwhile (message.h:95-130,
\* stack_ptr.h:65-93, deferredconsumer.h:118-138).
MessagesIntact == got.asked =>
  /\ \E j \in 1..Len(got.parts) : got.parts[j] = "message"
  /\ got.body = Names(got.size, got.tag)

\* A body never takes more than the size of its message, whatever the frames bring,
\* and append() tells when a body of several frames is complete (message.h:100-107,
\* 129).
BodyWithinSize == \A r \in Receivers :
  /\ Len(message[r].body) <= message[r].size
  /\ message[r].own => /\ message[r].filled = Len(message[r].body)
                       /\ message[r].complete <=> Len(message[r].body) = message[r].size
=============================================================================
