--------------------------- MODULE ControlChannel ---------------------------
(***************************************************************************)
(* ControlChannel (controlchannel.cpp) between the RabbitMQ queue and the  *)
(* Controller, over crashes and restarts of the process.  Messages are     *)
(* numbered as they are published.  The broker, AMQP-CPP's connection and  *)
(* the network are external: the broker pushes ready messages in order,    *)
(* without a prefetch limit, and makes those it has no acknowledgement for *)
(* ready again when the channel or the process is gone.                    *)
(***************************************************************************)
EXTENDS JsonParser, Sequences

CONSTANTS Bodies,         \* the bodies that are published
          MaxPublished,   \* bound: messages published
          MaxEnds         \* bound: channel errors, stops and crashes

ASSUME ChannelAssumption == /\ Bodies \subseteq Body
                            /\ MaxPublished \in Nat /\ MaxEnds \in Nat

VARIABLES body,      \* bodies of the messages published so far
          ready,     \* broker: messages waiting for delivery
          unacked,   \* broker: messages delivered and not acknowledged
          acked,     \* broker: messages acknowledged, that is, deleted
          wire,      \* messages delivered, onReceived not yet called
          acks,      \* acknowledgements sent and not arrived
          chan,      \* "off" (no process), "opening", "consuming", "closed"
          handling,  \* the message onReceived is working on, 0 if none
          fate,      \* what has become of each message, over all deliveries
          ran,       \* the commands given to Controller::onControlMessage
          ends       \* channel errors, stops and crashes so far

broker == <<body, ready, unacked, acked>>
vars   == <<broker, wire, acks, chan, handling, fate, ran, ends>>

Msg    == 1..MaxPublished
Fate   == {"ran", "rejected", "died"}

Init == /\ body = <<>> /\ ready = {} /\ unacked = {} /\ acked = {}
        /\ wire = <<>> /\ acks = <<>>
        /\ chan = "off" /\ handling = 0
        /\ fate = [n \in Msg |-> {}] /\ ran = {} /\ ends = 0

-----------------------------------------------------------------------------
\* The broker and the network.
Publish(b) ==
  /\ Len(body) < MaxPublished
  /\ body' = Append(body, b)
  /\ ready' = ready \cup {Len(body) + 1}
  /\ UNCHANGED <<unacked, acked, wire, acks, chan, handling, fate, ran, ends>>

Deliver(n) ==
  /\ chan = "consuming"
  /\ n \in ready /\ \A m \in ready : n <= m
  /\ ready' = ready \ {n} /\ unacked' = unacked \cup {n}
  /\ wire' = Append(wire, n)
  /\ UNCHANGED <<body, acked, acks, chan, handling, fate, ran, ends>>

AckArrives ==
  /\ acks # <<>>
  /\ unacked' = unacked \ {Head(acks)} /\ acked' = acked \cup {Head(acks)}
  /\ acks' = Tail(acks)
  /\ UNCHANGED <<body, ready, wire, chan, handling, fate, ran, ends>>

\* Acknowledgements that arrive too late are ignored.
Requeue ==
  /\ chan \in {"off", "closed"} /\ unacked # {}
  /\ ready' = ready \cup unacked /\ unacked' = {}
  /\ acks' = <<>>
  /\ UNCHANGED <<body, acked, wire, chan, handling, fate, ran, ends>>

-----------------------------------------------------------------------------
\* The constructor and start(): connect, open the channel, declare the queue.
\* By then the broker has seen the end of the previous process.
Start ==
  /\ chan = "off" /\ unacked = {}
  /\ chan' = "opening"
  /\ UNCHANGED <<broker, wire, acks, handling, fate, ran, ends>>

\* Mutant: consume() is not called.
DeclaredOnly ==
  /\ chan = "opening"
  /\ UNCHANGED vars

\* onSuccess of declareQueue: consume.
QueueDeclared ==
  /\ chan = "opening"
  /\ chan' = "consuming"
  /\ UNCHANGED <<broker, wire, acks, handling, fate, ran, ends>>

\* Channel::onError, also called when the connection is lost: the connection
\* is closed, and nothing opens it again.
OnError ==
  /\ chan \in {"opening", "consuming"} /\ handling = 0 /\ ends < MaxEnds
  /\ chan' = "closed" /\ ends' = ends + 1
  /\ wire' = <<>>
  /\ UNCHANGED <<broker, acks, handling, fate, ran>>

\* Mutant: every message that has been delivered is acknowledged at once.
AckAll ==
  /\ chan = "consuming" /\ handling = 0 /\ wire # <<>>
  /\ handling' = Head(wire) /\ wire' = Tail(wire)
  /\ acks' = wire
  /\ UNCHANGED <<broker, chan, fate, ran, ends>>

\* onReceived, up to the acknowledgement ...
OnReceived ==
  /\ chan = "consuming" /\ handling = 0 /\ wire # <<>>
  /\ handling' = Head(wire) /\ wire' = Tail(wire)
  /\ acks' = Append(acks, Head(wire))
  /\ UNCHANGED <<broker, chan, fate, ran, ends>>

Result == Parse(body[handling])
Done(f) == handling' = 0 /\ fate' = [fate EXCEPT ![handling] = @ \cup {f}]

\* ... and the rest of it, for each outcome of parse.  An exception has no
\* handler up to main and ends the process.
CantParse ==
  /\ handling # 0 /\ Result.out = "reject"
  /\ Done("rejected")
  /\ UNCHANGED <<broker, wire, acks, chan, ran, ends>>

CtlMessage ==
  /\ handling # 0 /\ Result.out = "ok"
  /\ Done("ran")
  /\ ran' = ran \cup {[msg |-> handling, type |-> Result.type, id |-> Result.id]}
  /\ UNCHANGED <<broker, wire, acks, chan, ends>>

ParseThrows ==
  /\ handling # 0 /\ Result.out = "throw"
  /\ Done("died")
  /\ chan' = "off" /\ wire' = <<>>
  /\ UNCHANGED <<broker, acks, ran, ends>>

\* stop() at the end of main, after the loop, or a kill between two callbacks:
\* what the socket has not sent stays unsent.
Stop ==
  /\ chan # "off" /\ handling = 0 /\ ends < MaxEnds
  /\ chan' = "off" /\ ends' = ends + 1 /\ wire' = <<>>
  /\ UNCHANGED <<broker, acks, handling, fate, ran>>

\* The process is killed within onReceived.
Crash ==
  /\ handling # 0 /\ ends < MaxEnds
  /\ Done("died")
  /\ chan' = "off" /\ ends' = ends + 1 /\ wire' = <<>>
  /\ UNCHANGED <<broker, acks, ran>>

Handler == CantParse \/ CtlMessage \/ ParseThrows

Next == \/ \E b \in Bodies : Publish(b)
        \/ \E n \in Msg : Deliver(n)
        \/ AckArrives \/ Requeue
        \/ Start \/ QueueDeclared \/ OnError \/ OnReceived \/ Handler \/ Stop \/ Crash

Spec == Init /\ [][Next]_vars

\* A live broker answers and delivers, and the event loop serves the socket.
\* Nothing restarts a process that has ended.
Fairness == /\ WF_vars(QueueDeclared \/ OnError)
            /\ WF_vars(\E n \in Msg : Deliver(n))
            /\ WF_vars(OnReceived)
            /\ WF_vars(Handler)

FairSpec == Spec /\ Fairness

-----------------------------------------------------------------------------
\* The type of the state.
TypeOK ==
  /\ body \in Seq(Body) /\ Len(body) <= MaxPublished
  /\ ready \subseteq 1..Len(body) /\ unacked \subseteq 1..Len(body)
  /\ acked \subseteq 1..Len(body)
  /\ wire \in Seq(1..Len(body)) /\ acks \in Seq(1..Len(body))
  /\ chan \in {"off", "opening", "consuming", "closed"}
  /\ handling \in 0..Len(body)
  /\ fate \in [Msg -> SUBSET Fate]
  /\ ran \subseteq [msg : 1..Len(body), type : {"CLOSE", "CLOSE_ALL"}, id : Int]
  /\ ends \in 0..MaxEnds

\* The broker forgets a message only if onReceived got it, whenever the process
\* or the channel dies: what waits in the socket is redelivered, and the one
\* command a crash can lose is the one it interrupts
\* (controlchannel.cpp:66-81).
AckedWasTaken ==
  \A n \in acked : fate[n] # {} \/ handling = n

\* A command that is executed was asked for: the message names the job, and
\* the id closed is the number it gives; in particular a message without a
\* client_id never closes client 0, to which asInt would turn it
\* (jsonparser.cpp:21-31).
OnlyCommandsRun ==
  \A r \in ran :
    LET b == body[r.msg]
    IN  /\ b.root = "object" /\ b.job = Job
        /\ b.client_id.type \in {"int", "real", "half", "bool"}
        /\ r.id = AsInt(b.client_id)
        /\ r.type = "CLOSE_ALL" <=> r.id < 0

\* A command as its senders write it, with the job and an int as client_id, is
\* not turned away, whichever client it names (tests/test.py:124).
CommandsAccepted ==
  \A n \in 1..Len(body) :
    /\ body[n].root = "object" /\ body[n].job = Job
    /\ body[n].client_id.type = "int" /\ body[n].client_id.val \in MinInt..MaxInt
    => fate[n] \subseteq {"ran"} \/ ends > 0

\* Every message published is handled, unless the process or the channel ends.
\* After a channel error the process goes on without commands for ever
\* (controlchannel.cpp:54-57, 63-82).
EveryMessageTaken ==
  \A n \in Msg : Len(body) >= n ~> fate[n] # {} \/ chan \in {"off", "closed"}
=============================================================================
