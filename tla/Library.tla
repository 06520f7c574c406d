------------------------------ MODULE Library ------------------------------
(***************************************************************************)
(* The parts of AMQP-CPP that run callbacks of the program, each on its    *)
(* own: a behaviour is one of one part, which the initial state chooses.   *)
(* The channel has two instances: a long one, with failures and a long     *)
(* history, and a wide one, with results of several classes and a channel  *)
(* that is moved.                                                          *)
(***************************************************************************)
EXTENDS Integers, Sequences

CONSTANTS LongMethods, LongChains, LongMax,     \* of the long ChannelImpl
          WideMethods, WideChains, WideMax,     \* of the wide one
          Handle, First,
          Consumer, Get, Publisher, ReceiverMethods, Sizes, None,
          Excess, MaxMessages,                  \* of DeferredReceiver
          Object, Mon, Null,                    \* of Watchable
          FrameSizes, MaxWord, Overhead, Intervals, MaxQueue   \* of ConnectionImpl

ASSUME ChannelAssumption ==
  /\ First \in Handle /\ LongMax \in Nat /\ WideMax \in Nat
  /\ LongChains \cup WideChains \subseteq Seq(STRING)

ASSUME ReceiverAssumption ==
  /\ None \notin Consumer \cup Get \cup Publisher
  /\ Consumer \cap Get = {} /\ Consumer \cap Publisher = {} /\ Get \cap Publisher = {}
  /\ Sizes \subseteq Nat /\ Excess \in Nat /\ MaxMessages \in Nat

ASSUME WatchableAssumption == Null \notin Object

\* A frame size is a uint32_t, and a frame without a payload is smaller than the largest.
ASSUME ConnectionAssumption ==
  /\ MaxWord \in Nat /\ Overhead \in Nat \ {0} /\ Overhead < MaxWord - 1
  /\ FrameSizes \subseteq 0..(MaxWord - 1) /\ MaxQueue \in Nat

VARIABLES part,
          state, attached, synchronous, queue, oldest, newest, ops, next, wire, run, under,
          connection, struck, alive, handles,
          consumers, receiver, cbs, message, left, frame, sent, parts, got,
          objects, made, monitors, watchable, bad,
          connState, closed, connAlive, running, watched, maxFrame, beat, waiting, connSent,
          told, touched

channelVars  == <<state, attached, synchronous, queue, oldest, newest, ops, next, wire, run,
                  under, connection, struck, alive, handles>>
receiverVars == <<consumers, receiver, cbs, message, left, frame, sent, parts, got>>
monitorVars  == <<objects, made, monitors, watchable, bad>>
connVars     == <<connState, closed, connAlive, running, watched, maxFrame, beat, waiting,
                  connSent, told, touched>>
vars == <<part, channelVars, receiverVars, monitorVars, connVars>>

LongChannel == INSTANCE ChannelImpl WITH
           Methods <- LongMethods, Chains <- LongChains, MaxOps <- LongMax,
           Handle <- {First}, Failures <- TRUE

WideChannel == INSTANCE ChannelImpl WITH
           Methods <- WideMethods, Chains <- WideChains, MaxOps <- WideMax,
           Failures <- FALSE

Receiver == INSTANCE DeferredReceiver WITH Methods <- ReceiverMethods

Monitors == INSTANCE Watchable WITH alive <- objects

Connection == INSTANCE ConnectionImpl WITH
           state <- connState, alive <- connAlive, queue <- waiting, sent <- connSent

\* Every part starts in its initial state, and one of them moves.
Init == /\ part \in {"long", "wide", "receiver", "monitors", "connection"}
        /\ IF part = "wide" THEN WideChannel!Init ELSE LongChannel!Init
        /\ Receiver!Init /\ Monitors!Init /\ Connection!Init

Next ==
  \/ /\ part = "long" /\ LongChannel!Next
     /\ UNCHANGED <<part, receiverVars, monitorVars, connVars>>
  \/ /\ part = "wide" /\ WideChannel!Next
     /\ UNCHANGED <<part, receiverVars, monitorVars, connVars>>
  \/ /\ part = "receiver" /\ Receiver!Next
     /\ UNCHANGED <<part, channelVars, monitorVars, connVars>>
  \/ /\ part = "monitors" /\ Monitors!Next
     /\ UNCHANGED <<part, channelVars, receiverVars, connVars>>
  \/ /\ part = "connection" /\ Connection!Next
     /\ UNCHANGED <<part, channelVars, receiverVars, monitorVars>>

Spec == Init /\ [][Next]_vars

Others == <<part, receiverVars, monitorVars, connVars>>

\* Callbacks return, and the broker answers.
FairSpec == /\ Spec
            /\ WF_vars(part = "wide" /\ WideChannel!Returns /\ UNCHANGED Others)
            /\ WF_vars(part = "wide" /\ WideChannel!Replies /\ UNCHANGED Others)

-----------------------------------------------------------------------------
\* The types of the state.
TypeOK == /\ IF part = "wide" THEN WideChannel!TypeOK ELSE LongChannel!TypeOK
          /\ Receiver!TypeOK /\ Monitors!TypeOK /\ Connection!TypeOK

\* The state has its type, and each answer of the broker finds the callbacks of its own
\* instruction, whatever callbacks did before (channelimpl.h:643-672).
AnswersMeetCallbacks == /\ TypeOK
                        /\ IF part = "wide" THEN WideChannel!AnswersMeetCallbacks
                           ELSE LongChannel!AnswersMeetCallbacks

\* An instruction succeeds at most once, and one that has succeeded does not fail, unless
\* its own callback fails the connection; when a channel is closed each instruction with
\* callbacks was told of its success or failure; and one that could not be sent tells its
\* error callback, but for get() (channelimpl.h:625-628, 656-668; connection.h:150-169;
\* deferred.h:255-265).
OutcomesTold == LongChannel!OneOutcome /\ LongChannel!EveryoneTold /\ LongChannel!FailureTold

\* A channel or a connection that a callback has destroyed is not touched
\* (channelimpl.h:600, 623, 662; connectionimpl.h:214).
DeadIsUntouched == [][LongChannel!Untouched /\ ~touched']_vars

\* Every instruction is answered, or fails, or the channel goes away: no frame
\* waits for ever for the answers before it (channelimpl.h:594-600, 649).
EveryAnswerComes == \A i \in 1..WideMax :
  part = "wide" /\ WideChannel!Waits(i) ~> part = "wide" /\ WideChannel!Settled(i)

\* Who registered for messages gets each one whole, and a body never outgrows its
\* message though frames may bring more than its size (message.h:95-130).
MessagesIntact == Receiver!MessagesIntact /\ Receiver!BodyWithinSize

\* The list of an object has exactly the monitors that point to it, and valid() is
\* right about the object it was given (watchable.h:47-64, monitor.h:54-122).
MonitorsExact == Monitors!ListsAreExact /\ Monitors!ValidIsAlive

\* A connection never goes back, though its handler may fail or close it from within
\* onProperties (connectionimpl.h:205-218, 254-257), and a frame with the largest
\* payload is no larger than agreed (connectionimpl.h:307-311).
OnlyForward == /\ [][Connection!Forward]_vars
               /\ []Connection!PayloadFits
=============================================================================
