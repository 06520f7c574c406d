--------------------------- MODULE Library_proofs ---------------------------
(***************************************************************************)
(* Theorems about the parts of AMQP-CPP of Library, for every number of    *)
(* monitors, objects, receivers, messages and instructions.  Each part has *)
(* an inductive invariant of its own: a step of another part leaves its    *)
(* variables as they are.                                                  *)
(***************************************************************************)
EXTENDS Library, SequenceTheorems, TLAPS

-----------------------------------------------------------------------------
(* Monitors.                                                               *)

\* The lists are exact and the pointers valid, with the types of the state.
MonitorInv == Monitors!TypeOK /\ Monitors!ListsAreExact /\ Monitors!ValidIsAlive

\* The first state has no object and no monitor.
LEMMA MonitorInit == Monitors!Init => MonitorInv
<1> SUFFICES ASSUME Monitors!Init PROVE MonitorInv
  OBVIOUS
<1>1. bad \in BOOLEAN /\ ~bad /\ made = {} /\ objects = {}
  BY Zenon DEF Monitors!Init
<1>2. monitors \in [Object -> [Mon -> Nat]] /\ watchable \in [Mon -> Object \cup {Null}]
  BY DEF Monitors!Init, Monitors!Nobody
<1>3. \A o \in Object, m \in Mon : monitors[o][m] = 0
  BY DEF Monitors!Init, Monitors!Nobody
<1> QED BY <1>1, <1>2, <1>3 DEF MonitorInv, Monitors!TypeOK, Monitors!ListsAreExact,
                                Monitors!ValidIsAlive

\* Every operation on a monitor or an object keeps the lists exact (watchable.h:47-64,
\* monitor.h:54-95).
LEMMA MonitorStep == MonitorInv /\ Monitors!Next => MonitorInv'
<1> USE WatchableAssumption
<1> SUFFICES ASSUME MonitorInv, Monitors!Next PROVE MonitorInv'
  OBVIOUS
<1> USE DEF MonitorInv, Monitors!TypeOK, Monitors!ListsAreExact, Monitors!ValidIsAlive,
            Monitors!valid, Monitors!add, Monitors!remove, Monitors!Touches, Monitors!Nobody
<1>1. ASSUME NEW m \in Mon, NEW o \in Object, Monitors!Construct(m, o) PROVE MonitorInv'
  BY <1>1 DEF Monitors!Construct
<1>2. ASSUME NEW m \in Mon, NEW n \in Mon, Monitors!Copy(m, n) PROVE MonitorInv'
  BY <1>2 DEF Monitors!Copy
<1>3. ASSUME NEW m \in Mon, NEW n \in Mon, Monitors!Assign(m, n) PROVE MonitorInv'
  <2>1. watchable[m] \in objects \cup {Null} /\ watchable[n] \in objects \cup {Null}
    BY <1>3 DEF Monitors!Assign
  <2>2. bad' = FALSE
    BY <1>3, <2>1 DEF Monitors!Assign
  <2> DEFINE less == Monitors!remove(monitors, watchable[m], m)
  <2>3. /\ less \in [Object -> [Mon -> Nat]]
        /\ \A o \in Object, k \in Mon : less[o][k] = IF k = m THEN 0 ELSE monitors[o][k]
    BY <1>3, <2>1 DEF Monitors!Assign
  <2>4. monitors' = Monitors!add(less, watchable[n], m) /\ made' = made /\ objects' = objects
    BY <1>3 DEF Monitors!Assign
  <2> HIDE DEF less
  <2>5. /\ monitors' \in [Object -> [Mon -> Nat]]
        /\ \A o \in Object, k \in Mon :
             monitors'[o][k] = IF k = m /\ o = watchable[n] THEN 1 ELSE less[o][k]
    BY <2>1, <2>3, <2>4
  <2>6. watchable' = [watchable EXCEPT ![m] = watchable[n]] /\ m \in made
    BY <1>3 DEF Monitors!Assign
  <2>7. Monitors!ListsAreExact'
    BY <2>3, <2>4, <2>5, <2>6
  <2>8. Monitors!TypeOK' /\ Monitors!ValidIsAlive'
    BY <2>1, <2>2, <2>4, <2>5, <2>6
  <2> QED BY <2>7, <2>8
<1>4. ASSUME NEW m \in Mon, Monitors!Destruct(m) PROVE MonitorInv'
  BY <1>4 DEF Monitors!Destruct
<1>5. ASSUME NEW o \in Object, Monitors!Create(o) PROVE MonitorInv'
  BY <1>5 DEF Monitors!Create
<1>6. ASSUME NEW o \in Object, Monitors!Destroy(o) PROVE MonitorInv'
  BY <1>6 DEF Monitors!Destroy, Monitors!invalidate
<1> QED BY <1>1, <1>2, <1>3, <1>4, <1>5, <1>6 DEF Monitors!Next

\* A step of another part leaves the monitors alone.
LEMMA MonitorFrame == MonitorInv /\ UNCHANGED monitorVars => MonitorInv'
  BY DEF MonitorInv, Monitors!TypeOK, Monitors!ListsAreExact, Monitors!ValidIsAlive,
         Monitors!valid, monitorVars

\* The list of an object has exactly the monitors that point to it, and valid() is
\* right about the object it was given (watchable.h:47-64, monitor.h:54-122).
THEOREM MonitorsExactHolds == Spec => []MonitorsExact
<1>1. Init => MonitorInv
  BY MonitorInit DEF Init
<1>2. MonitorInv /\ [Next]_vars => MonitorInv'
  BY MonitorStep, MonitorFrame DEF Next, vars
<1>3. MonitorInv => MonitorsExact
  BY DEF MonitorInv, MonitorsExact
<1> QED BY <1>1, <1>2, <1>3, PTL DEF Spec

-----------------------------------------------------------------------------
(* The connection.                                                         *)

\* The types, and the monitor of setProtocolOk is valid only while the object exists.
ConnectionInv == /\ Connection!TypeOK
                 /\ watched => connAlive
                 /\ ~touched

\* The first state of a connection.
LEMMA ConnectionInit == Connection!Init => ConnectionInv
<1> SUFFICES ASSUME Connection!Init PROVE ConnectionInv
  OBVIOUS
<1>1. {closed, connAlive, running, watched, touched} \subseteq BOOLEAN /\ ~touched /\ ~watched
  BY Zenon DEF Connection!Init
<1>2. /\ connState = "protocol" /\ maxFrame = Connection!DefaultFrame /\ beat = 0
      /\ waiting = 0 /\ connSent = 0
  BY DEF Connection!Init
<1> QED BY <1>1, <1>2, ConnectionAssumption DEF ConnectionInv, Connection!TypeOK

\* Every method and every callback keeps the types, and touches no object that is gone
\* (connectionimpl.h:205-218).
LEMMA ConnectionStep == ConnectionInv /\ Connection!Next => ConnectionInv'
<1> SUFFICES ASSUME ConnectionInv, Connection!Next PROVE ConnectionInv'
  OBVIOUS
<1> USE ConnectionAssumption DEF ConnectionInv, Connection!TypeOK, Connection!DefaultFrame
<1>1. CASE Connection!setProtocolOk
  BY <1>1 DEF Connection!setProtocolOk, Connection!Quiet
<1>2. CASE Connection!propertiesReturns
  BY <1>2 DEF Connection!propertiesReturns
<1>3. CASE Connection!setReady
  BY <1>3 DEF Connection!setReady, Connection!Quiet
<1>4. CASE Connection!reportClosed \/ Connection!reportError
  BY <1>4 DEF Connection!reportClosed, Connection!reportError, Connection!Quiet
<1>5. ASSUME NEW n \in FrameSizes, NEW i \in Intervals, Connection!Tune(n, i)
      PROVE ConnectionInv'
  BY <1>5 DEF Connection!Tune, Connection!Quiet, Connection!setCapacity, Connection!onNegotiate
<1>6. CASE Connection!Send
  BY <1>6 DEF Connection!Send, Connection!usable
<1>7. CASE Connection!close
  BY <1>7 DEF Connection!close, Connection!ready
<1>8. CASE Connection!fail
  BY <1>8 DEF Connection!fail
<1>9. CASE Connection!Destroy
  <2>1. {closed', connAlive', running', watched', touched'} \subseteq BOOLEAN
        /\ ~watched' /\ ~touched'
    BY <1>9, Zenon DEF Connection!Destroy
  <2> QED BY <1>9, <2>1 DEF Connection!Destroy
<1> QED BY <1>1, <1>2, <1>3, <1>4, <1>5, <1>6, <1>7, <1>8, <1>9 DEF Connection!Next

\* A step of another part leaves the connection alone.
LEMMA ConnectionFrame == ConnectionInv /\ UNCHANGED connVars => ConnectionInv'
  BY DEF ConnectionInv, Connection!TypeOK, Connection!DefaultFrame, connVars

\* No step takes a connection back, and none makes it usable again
\* (connectionimpl.h:205-218, 254-257).
LEMMA ForwardStep ==
  ConnectionInv /\ (Connection!Next \/ UNCHANGED connVars) => Connection!Forward
<1> SUFFICES ASSUME ConnectionInv, Connection!Next \/ UNCHANGED connVars
             PROVE Connection!Forward
  OBVIOUS
<1> USE DEF ConnectionInv, Connection!TypeOK, Connection!Forward, Connection!Rank,
            Connection!usable, Connection!Quiet
<1>1. CASE UNCHANGED connVars
  BY <1>1 DEF connVars
<1>2. CASE Connection!setProtocolOk \/ Connection!propertiesReturns
  BY <1>2 DEF Connection!setProtocolOk, Connection!propertiesReturns
<1>3. CASE Connection!setReady
  BY <1>3 DEF Connection!setReady
<1>4. CASE Connection!reportClosed \/ Connection!reportError
  BY <1>4 DEF Connection!reportClosed, Connection!reportError
<1>5. ASSUME NEW n \in FrameSizes, NEW i \in Intervals, Connection!Tune(n, i)
      PROVE Connection!Forward
  BY <1>5 DEF Connection!Tune
<1>6. CASE Connection!Send \/ Connection!close \/ Connection!fail \/ Connection!Destroy
  BY <1>6 DEF Connection!Send, Connection!close, Connection!fail, Connection!Destroy,
              Connection!ready
<1> QED BY <1>1, <1>2, <1>3, <1>4, <1>5, <1>6 DEF Connection!Next

\* uint32_t arithmetic: taking the overhead off a size wraps around for 0 only, among the
\* sizes that leave room for a payload (connectionimpl.h:307-311).
LEMMA PayloadArithmetic ==
  ASSUME NEW W \in Nat, NEW O \in Nat, O > 0, O < W - 1, NEW f \in 0..(W - 1), f = 0 \/ f > O
  PROVE  /\ (f - O) % W > 0
         /\ f > 0 => ((f - O) % W) + O <= f
<1>1. CASE f = 0
  <2>1. (f - O) % W = W - O
    BY <1>1, SMT
  <2> QED BY <2>1, <1>1
<1>2. CASE f > O
  <2>1. (f - O) % W = f - O
    BY <1>2, SMT
  <2> QED BY <2>1, <1>2
<1> QED BY <1>1, <1>2

\* A connection never goes back, though its handler may fail or close it from within
\* onProperties, and a frame with the largest payload is no larger than agreed
\* (connectionimpl.h:205-218, 254-257, 307-311).
THEOREM OnlyForwardHolds == Spec => OnlyForward
<1>1. Init => ConnectionInv
  BY ConnectionInit DEF Init
<1>2. ConnectionInv /\ [Next]_vars => ConnectionInv'
  BY ConnectionStep, ConnectionFrame DEF Next, vars
<1>3. ConnectionInv /\ [Next]_vars => [Connection!Forward]_vars
  BY ForwardStep DEF Next, vars
<1>4. ConnectionInv => Connection!PayloadFits
  <2> SUFFICES ASSUME ConnectionInv, maxFrame = 0 \/ maxFrame > Overhead
               PROVE  /\ Connection!maxPayload(maxFrame) > 0
                      /\ maxFrame > 0 => Connection!maxPayload(maxFrame) + Overhead <= maxFrame
    BY DEF Connection!PayloadFits
  <2>1. maxFrame \in 0..(MaxWord - 1)
    BY ConnectionAssumption DEF ConnectionInv, Connection!TypeOK, Connection!DefaultFrame
  <2> QED BY <2>1, PayloadArithmetic, ConnectionAssumption DEF Connection!maxPayload
<1> QED BY <1>1, <1>2, <1>3, <1>4, PTL DEF Spec, OnlyForward

-----------------------------------------------------------------------------
(* The channel.                                                            *)

\* The two instances of the channel, with the lemmas about them.
LongProofs == INSTANCE ChannelImpl_proofs WITH
           Methods <- LongMethods, Chains <- LongChains, MaxOps <- LongMax,
           Handle <- {First}, Failures <- TRUE

WideProofs == INSTANCE ChannelImpl_proofs WITH
           Methods <- WideMethods, Chains <- WideChains, MaxOps <- WideMax,
           Failures <- FALSE

\* The lemmas are about the instance that Library composes: both expand to the same.
LEMMA LongSame ==
  /\ LongChannel!Init <=> LongProofs!Init
  /\ LongChannel!Next <=> LongProofs!Next
  /\ LongChannel!TypeOK <=> LongProofs!TypeOK
  /\ LongChannel!AnswersMeetCallbacks <=> LongProofs!AnswersMeetCallbacks
  /\ LongChannel!OneOutcome <=> LongProofs!OneOutcome
  /\ LongChannel!EveryoneTold <=> LongProofs!EveryoneTold
  /\ LongChannel!FailureTold <=> LongProofs!FailureTold
  /\ LongChannel!Untouched <=> LongProofs!Untouched
<1>1. /\ LongChannel!Init <=> LongProofs!Init
      /\ LongChannel!Next <=> LongProofs!Next
  BY
      DEF LongChannel!Slots, LongProofs!Slots, LongChannel!Make, LongProofs!Make,
          LongChannel!Store, LongProofs!Store, LongChannel!Call, LongProofs!Call,
          LongChannel!onSuccess, LongProofs!onSuccess, LongChannel!onError,
          LongProofs!onError, LongChannel!onFinalize, LongProofs!onFinalize,
          LongChannel!queueOnSuccess, LongProofs!queueOnSuccess, LongChannel!deleteOnSuccess,
          LongProofs!deleteOnSuccess, LongChannel!cancelOnSuccess,
          LongProofs!cancelOnSuccess, LongChannel!consumerOnSuccess,
          LongProofs!consumerOnSuccess, LongChannel!getOnSuccess, LongProofs!getOnSuccess,
          LongChannel!confirmOnSuccess, LongProofs!confirmOnSuccess, LongChannel!getOnError,
          LongProofs!getOnError, LongChannel!Register, LongProofs!Register,
          LongChannel!reportSuccess, LongProofs!reportSuccess, LongChannel!reportQueue,
          LongProofs!reportQueue, LongChannel!reportDelete, LongProofs!reportDelete,
          LongChannel!reportTagged, LongProofs!reportTagged, LongChannel!Answered,
          LongProofs!Answered, LongChannel!reportError, LongProofs!reportError,
          LongChannel!Forgotten, LongProofs!Forgotten, LongChannel!implVars,
          LongProofs!implVars, LongChannel!failVars, LongProofs!failVars,
          LongChannel!ExchangeCalls, LongProofs!ExchangeCalls, LongChannel!QueueCalls,
          LongProofs!QueueCalls, LongChannel!TransactionCalls, LongProofs!TransactionCalls,
          LongChannel!FlowCalls, LongProofs!FlowCalls, LongChannel!Acknowledgements,
          LongProofs!Acknowledgements, LongChannel!ClassOf, LongProofs!ClassOf,
          LongChannel!Idle, LongProofs!Idle, LongChannel!Init, LongProofs!Init,
          LongChannel!usable, LongProofs!usable, LongChannel!waiting, LongProofs!waiting,
          LongChannel!Following, LongProofs!Following, LongChannel!Kept, LongProofs!Kept,
          LongChannel!Collected, LongProofs!Collected, LongChannel!Sends, LongProofs!Sends,
          LongChannel!send, LongProofs!send, LongChannel!push, LongProofs!push,
          LongChannel!Chained, LongProofs!Chained, LongChannel!Holder, LongProofs!Holder,
          LongChannel!Instruct, LongProofs!Instruct, LongChannel!Acknowledge,
          LongProofs!Acknowledge, LongChannel!CloseImpl, LongProofs!CloseImpl,
          LongChannel!close, LongProofs!close, LongChannel!DestroyChannel,
          LongProofs!DestroyChannel, LongChannel!Move, LongProofs!Move,
          LongChannel!DestroyMoved, LongProofs!DestroyMoved, LongChannel!detach,
          LongProofs!detach, LongChannel!Destroy, LongProofs!Destroy, LongChannel!Answer,
          LongProofs!Answer, LongChannel!Calls, LongProofs!Calls, LongChannel!Sent,
          LongProofs!Sent, LongChannel!onSynchronized, LongProofs!onSynchronized,
          LongChannel!Take, LongProofs!Take, LongChannel!reportReady, LongProofs!reportReady,
          LongChannel!readyReturns, LongProofs!readyReturns, LongChannel!Report,
          LongProofs!Report, LongChannel!channelSuccess, LongProofs!channelSuccess,
          LongChannel!Advance, LongProofs!Advance, LongChannel!successReturns,
          LongProofs!successReturns, LongChannel!reportClosed, LongProofs!reportClosed,
          LongChannel!Back, LongProofs!Back, LongChannel!Tell, LongProofs!Tell,
          LongChannel!closedReturns, LongProofs!closedReturns, LongChannel!Closes,
          LongProofs!Closes, LongChannel!reportChannelError, LongProofs!reportChannelError,
          LongChannel!fail, LongProofs!fail, LongChannel!errorReturns,
          LongProofs!errorReturns, LongChannel!Running, LongProofs!Running,
          LongChannel!Returns, LongProofs!Returns, LongChannel!Replies, LongProofs!Replies,
          LongChannel!Next, LongProofs!Next
<1>2. /\ LongChannel!TypeOK <=> LongProofs!TypeOK
      /\ LongChannel!AnswersMeetCallbacks <=> LongProofs!AnswersMeetCallbacks
  BY
      DEF LongChannel!TypeOK, LongProofs!TypeOK, LongChannel!Reports, LongProofs!Reports,
          LongChannel!AnswersMeetCallbacks, LongProofs!AnswersMeetCallbacks,
          LongChannel!Frames, LongProofs!Frames, LongChannel!Due, LongProofs!Due,
          LongChannel!ListHead, LongProofs!ListHead, LongChannel!Slots, LongProofs!Slots,
          LongChannel!Result, LongProofs!Result, LongChannel!Classes, LongProofs!Classes,
          LongChannel!Frame, LongProofs!Frame
<1>3. /\ LongChannel!OneOutcome <=> LongProofs!OneOutcome
      /\ LongChannel!EveryoneTold <=> LongProofs!EveryoneTold
      /\ LongChannel!FailureTold <=> LongProofs!FailureTold
      /\ LongChannel!Untouched <=> LongProofs!Untouched
  BY
      DEF LongChannel!OneOutcome, LongProofs!OneOutcome, LongChannel!EveryoneTold,
          LongProofs!EveryoneTold, LongChannel!FailureTold, LongProofs!FailureTold,
          LongChannel!Listening, LongProofs!Listening, LongChannel!Mute, LongProofs!Mute,
          LongChannel!ToldAs, LongProofs!ToldAs, LongChannel!Idle, LongProofs!Idle,
          LongChannel!Untouched, LongProofs!Untouched, LongChannel!implVars,
          LongProofs!implVars
<1> QED BY <1>1, <1>2, <1>3

\* The same of the wide channel; what is said of outcomes does not depend on the constants.
LEMMA WideSame ==
  /\ WideChannel!Init <=> WideProofs!Init
  /\ WideChannel!Next <=> WideProofs!Next
  /\ WideChannel!TypeOK <=> WideProofs!TypeOK
  /\ WideChannel!AnswersMeetCallbacks <=> WideProofs!AnswersMeetCallbacks
  /\ LongChannel!OneOutcome <=> WideProofs!OneOutcome
  /\ LongChannel!EveryoneTold <=> WideProofs!EveryoneTold
  /\ LongChannel!FailureTold <=> WideProofs!FailureTold
  /\ LongChannel!Untouched <=> WideProofs!Untouched
<1>1. /\ WideChannel!Init <=> WideProofs!Init
      /\ WideChannel!Next <=> WideProofs!Next
  BY
      DEF WideChannel!Slots, WideProofs!Slots, WideChannel!Make, WideProofs!Make,
          WideChannel!Store, WideProofs!Store, WideChannel!Call, WideProofs!Call,
          WideChannel!onSuccess, WideProofs!onSuccess, WideChannel!onError,
          WideProofs!onError, WideChannel!onFinalize, WideProofs!onFinalize,
          WideChannel!queueOnSuccess, WideProofs!queueOnSuccess, WideChannel!deleteOnSuccess,
          WideProofs!deleteOnSuccess, WideChannel!cancelOnSuccess,
          WideProofs!cancelOnSuccess, WideChannel!consumerOnSuccess,
          WideProofs!consumerOnSuccess, WideChannel!getOnSuccess, WideProofs!getOnSuccess,
          WideChannel!confirmOnSuccess, WideProofs!confirmOnSuccess, WideChannel!getOnError,
          WideProofs!getOnError, WideChannel!Register, WideProofs!Register,
          WideChannel!reportSuccess, WideProofs!reportSuccess, WideChannel!reportQueue,
          WideProofs!reportQueue, WideChannel!reportDelete, WideProofs!reportDelete,
          WideChannel!reportTagged, WideProofs!reportTagged, WideChannel!Answered,
          WideProofs!Answered, WideChannel!reportError, WideProofs!reportError,
          WideChannel!Forgotten, WideProofs!Forgotten, WideChannel!implVars,
          WideProofs!implVars, WideChannel!failVars, WideProofs!failVars,
          WideChannel!ExchangeCalls, WideProofs!ExchangeCalls, WideChannel!QueueCalls,
          WideProofs!QueueCalls, WideChannel!TransactionCalls, WideProofs!TransactionCalls,
          WideChannel!FlowCalls, WideProofs!FlowCalls, WideChannel!Acknowledgements,
          WideProofs!Acknowledgements, WideChannel!ClassOf, WideProofs!ClassOf,
          WideChannel!Idle, WideProofs!Idle, WideChannel!Init, WideProofs!Init,
          WideChannel!usable, WideProofs!usable, WideChannel!waiting, WideProofs!waiting,
          WideChannel!Following, WideProofs!Following, WideChannel!Kept, WideProofs!Kept,
          WideChannel!Collected, WideProofs!Collected, WideChannel!Sends, WideProofs!Sends,
          WideChannel!send, WideProofs!send, WideChannel!push, WideProofs!push,
          WideChannel!Chained, WideProofs!Chained, WideChannel!Holder, WideProofs!Holder,
          WideChannel!Instruct, WideProofs!Instruct, WideChannel!Acknowledge,
          WideProofs!Acknowledge, WideChannel!CloseImpl, WideProofs!CloseImpl,
          WideChannel!close, WideProofs!close, WideChannel!DestroyChannel,
          WideProofs!DestroyChannel, WideChannel!Move, WideProofs!Move,
          WideChannel!DestroyMoved, WideProofs!DestroyMoved, WideChannel!detach,
          WideProofs!detach, WideChannel!Destroy, WideProofs!Destroy, WideChannel!Answer,
          WideProofs!Answer, WideChannel!Calls, WideProofs!Calls, WideChannel!Sent,
          WideProofs!Sent, WideChannel!onSynchronized, WideProofs!onSynchronized,
          WideChannel!Take, WideProofs!Take, WideChannel!reportReady, WideProofs!reportReady,
          WideChannel!readyReturns, WideProofs!readyReturns, WideChannel!Report,
          WideProofs!Report, WideChannel!channelSuccess, WideProofs!channelSuccess,
          WideChannel!Advance, WideProofs!Advance, WideChannel!successReturns,
          WideProofs!successReturns, WideChannel!reportClosed, WideProofs!reportClosed,
          WideChannel!Back, WideProofs!Back, WideChannel!Tell, WideProofs!Tell,
          WideChannel!closedReturns, WideProofs!closedReturns, WideChannel!Closes,
          WideProofs!Closes, WideChannel!reportChannelError, WideProofs!reportChannelError,
          WideChannel!fail, WideProofs!fail, WideChannel!errorReturns,
          WideProofs!errorReturns, WideChannel!Running, WideProofs!Running,
          WideChannel!Returns, WideProofs!Returns, WideChannel!Replies, WideProofs!Replies,
          WideChannel!Next, WideProofs!Next
<1>2. /\ WideChannel!TypeOK <=> WideProofs!TypeOK
      /\ WideChannel!AnswersMeetCallbacks <=> WideProofs!AnswersMeetCallbacks
  BY
      DEF WideChannel!TypeOK, WideProofs!TypeOK, WideChannel!Reports, WideProofs!Reports,
          WideChannel!AnswersMeetCallbacks, WideProofs!AnswersMeetCallbacks,
          WideChannel!Frames, WideProofs!Frames, WideChannel!Due, WideProofs!Due,
          WideChannel!ListHead, WideProofs!ListHead, WideChannel!Slots, WideProofs!Slots,
          WideChannel!Result, WideProofs!Result, WideChannel!Classes, WideProofs!Classes,
          WideChannel!Frame, WideProofs!Frame
<1>3. /\ LongChannel!OneOutcome <=> WideProofs!OneOutcome
      /\ LongChannel!EveryoneTold <=> WideProofs!EveryoneTold
      /\ LongChannel!FailureTold <=> WideProofs!FailureTold
      /\ LongChannel!Untouched <=> WideProofs!Untouched
  BY
      DEF LongChannel!OneOutcome, WideProofs!OneOutcome, LongChannel!EveryoneTold,
          WideProofs!EveryoneTold, LongChannel!FailureTold, WideProofs!FailureTold,
          LongChannel!Listening, WideProofs!Listening, LongChannel!Mute, WideProofs!Mute,
          LongChannel!ToldAs, WideProofs!ToldAs, LongChannel!Idle, WideProofs!Idle,
          LongChannel!Untouched, WideProofs!Untouched, LongChannel!implVars,
          WideProofs!implVars
<1> QED BY <1>1, <1>2, <1>3

\* The invariant of the channel that moves, or would move.
ChannelPart == IF part = "wide" THEN WideProofs!ChannelInv ELSE LongProofs!ChannelInv

\* A channel starts with its invariant.
LEMMA ChannelInit == Init => ChannelPart
<1>1. LongMax \in Nat /\ WideMax \in Nat
  BY ChannelAssumption
<1>2. LongChannel!Init => LongProofs!ChannelInv
  BY <1>1, LongSame, LongProofs!InitInv
<1>3. WideChannel!Init => WideProofs!ChannelInv
  BY <1>1, WideSame, WideProofs!InitInv
<1> QED BY <1>2, <1>3 DEF Init, ChannelPart

\* A step of another part leaves the channel as it is.
LEMMA ChannelFrame == ChannelPart /\ UNCHANGED <<part, channelVars>> => ChannelPart'
<1> SUFFICES ASSUME ChannelPart, UNCHANGED <<part, channelVars>> PROVE ChannelPart'
  OBVIOUS
<1>1. CASE part = "wide"
  <2>1. WideProofs!ChannelInv /\ part' = "wide"
    BY <1>1 DEF ChannelPart
  <2>2. handles' \in [Handle -> {"none", "holds", "gone", "null", "crashed"}]
    BY <2>1 DEF WideProofs!ChannelInv, WideProofs!TypeOK, channelVars
  <2>3. UNCHANGED <<WideProofs!implVars, ops, next, run, WideProofs!failVars, alive>>
    BY DEF channelVars, WideProofs!implVars, WideProofs!failVars
  <2>4. WideProofs!ChannelInv'
    BY <2>1, <2>2, <2>3, WideProofs!HandlesInv
  <2> QED BY <2>1, <2>4 DEF ChannelPart
<1>2. CASE part # "wide"
  <2>1. LongProofs!ChannelInv /\ part' # "wide"
    BY <1>2 DEF ChannelPart
  <2>2. handles' \in [{First} -> {"none", "holds", "gone", "null", "crashed"}]
    BY <2>1 DEF LongProofs!ChannelInv, LongProofs!TypeOK, channelVars
  <2>3. UNCHANGED <<LongProofs!implVars, ops, next, run, LongProofs!failVars, alive>>
    BY DEF channelVars, LongProofs!implVars, LongProofs!failVars
  <2>4. LongProofs!ChannelInv'
    BY <2>1, <2>2, <2>3, LongProofs!HandlesInv
  <2> QED BY <2>1, <2>4 DEF ChannelPart
<1> QED BY <1>1, <1>2

\* Every step keeps the invariant of the channel.
LEMMA ChannelStep == ChannelPart /\ [Next]_vars => ChannelPart'
<1> SUFFICES ASSUME ChannelPart, [Next]_vars PROVE ChannelPart'
  OBVIOUS
<1>0. /\ LongMax \in Nat /\ WideMax \in Nat
      /\ \A s \in LongChains : Len(s) \in Nat
      /\ \A s \in WideChains : Len(s) \in Nat
  BY ChannelAssumption
<1>1. CASE part = "long" /\ LongChannel!Next /\ part' = part
  <2>1. LongProofs!ChannelInv /\ LongProofs!Next /\ part' # "wide"
    BY <1>1, LongSame DEF ChannelPart
  <2>2. LongProofs!ChannelInv'
    BY <1>0, <2>1, LongProofs!NextInv
  <2> QED BY <2>1, <2>2 DEF ChannelPart
<1>2. CASE part = "wide" /\ WideChannel!Next /\ part' = part
  <2>1. WideProofs!ChannelInv /\ WideProofs!Next /\ part' = "wide"
    BY <1>2, WideSame DEF ChannelPart
  <2>2. WideProofs!ChannelInv'
    BY <1>0, <2>1, WideProofs!NextInv
  <2> QED BY <2>1, <2>2 DEF ChannelPart
<1>3. CASE UNCHANGED <<part, channelVars>>
  BY <1>3, ChannelFrame
<1> QED BY <1>1, <1>2, <1>3 DEF Next, vars

\* What the invariant of a channel says of outcomes.
LEMMA ChannelTells == ChannelPart => OutcomesTold
<1>1. WideProofs!ChannelInv => OutcomesTold
  BY WideSame, WideProofs!TellsOutcomes DEF OutcomesTold
<1>2. LongProofs!ChannelInv => OutcomesTold
  BY LongSame, LongProofs!TellsOutcomes DEF OutcomesTold
<1> QED BY <1>1, <1>2 DEF ChannelPart

\* An instruction succeeds at most once, and one that has succeeded does not fail, unless
\* its own callback fails the connection; when a channel is closed each instruction with
\* callbacks was told of its success or failure; and one that could not be sent tells its
\* error callback, but for get() (channelimpl.h:625-628, 656-668; connection.h:150-169;
\* deferred.h:255-265).
THEOREM OutcomesToldHolds == Spec => []OutcomesTold
  BY ChannelInit, ChannelStep, ChannelTells, PTL DEF Spec

-----------------------------------------------------------------------------
(* Objects that a callback has destroyed.                                  *)

\* A channel or a connection that a callback has destroyed is not touched
\* (channelimpl.h:600, 623, 662; connectionimpl.h:214).
THEOREM DeadIsUntouchedHolds == Spec => DeadIsUntouched
<1>1. Init => ConnectionInv
  BY ConnectionInit DEF Init
<1>2. ConnectionInv /\ [Next]_vars => ConnectionInv'
  BY ConnectionStep, ConnectionFrame DEF Next, vars
<1>3. ConnectionInv /\ [Next]_vars => [LongChannel!Untouched /\ ~touched']_vars
  <2> SUFFICES ASSUME ConnectionInv, [Next]_vars
               PROVE LongChannel!Untouched /\ ~touched'
    OBVIOUS
  <2>1. ~touched'
    BY <1>2 DEF ConnectionInv
  <2>2. LongChannel!Untouched
    <3>1. LongChannel!Next => LongChannel!Untouched
      BY LongSame, LongProofs!NextUntouched
    <3>2. WideChannel!Next => LongChannel!Untouched
      BY WideSame, WideProofs!NextUntouched
    <3> QED BY <3>1, <3>2 DEF Next, vars, channelVars, LongChannel!Untouched, LongChannel!implVars
  <2> QED BY <2>1, <2>2
<1> QED BY <1>1, <1>2, <1>3, PTL DEF Spec, DeadIsUntouched

-----------------------------------------------------------------------------
(* Messages.                                                               *)

Callbacks == {"message", "begin", "size", "headers", "data", "complete", "empty", "count"}

\* Names for the Boolean values of the fields, which the provers otherwise confuse with
\* formulas.
Yes == TRUE
No  == FALSE
Complete(filled, size) == filled >= size

\* A message object, with its fields.
Msg(mk, size, own, filled, body, done) ==
  [made |-> mk, size |-> size, own |-> own, filled |-> filled, body |-> body,
   complete |-> done]

\* The fields of a message object, and assignments to them.
LEMMA MsgFields ==
  ASSUME NEW mk, NEW size, NEW own, NEW filled, NEW body, NEW done
  PROVE  LET m == Msg(mk, size, own, filled, body, done)
         IN  /\ m.made = mk /\ m.size = size /\ m.own = own
             /\ m.filled = filled /\ m.body = body
             /\ m.complete = done
  BY DEF Msg

\* The field made of a message is set.
LEMMA MsgSet_made ==
  ASSUME NEW mk, NEW size, NEW own, NEW filled, NEW body, NEW done, NEW x
  PROVE  [Msg(mk, size, own, filled, body, done) EXCEPT !.made = x]
         = Msg(x, size, own, filled, body, done)
  BY DEF Msg

\* The field size of a message is set.
LEMMA MsgSet_size ==
  ASSUME NEW mk, NEW size, NEW own, NEW filled, NEW body, NEW done, NEW x
  PROVE  [Msg(mk, size, own, filled, body, done) EXCEPT !.size = x]
         = Msg(mk, x, own, filled, body, done)
  BY DEF Msg

\* The field own of a message is set.
LEMMA MsgSet_own ==
  ASSUME NEW mk, NEW size, NEW own, NEW filled, NEW body, NEW done, NEW x
  PROVE  [Msg(mk, size, own, filled, body, done) EXCEPT !.own = x]
         = Msg(mk, size, x, filled, body, done)
  BY DEF Msg

\* The field filled of a message is set.
LEMMA MsgSet_filled ==
  ASSUME NEW mk, NEW size, NEW own, NEW filled, NEW body, NEW done, NEW x
  PROVE  [Msg(mk, size, own, filled, body, done) EXCEPT !.filled = x]
         = Msg(mk, size, own, x, body, done)
  BY DEF Msg

\* The field body of a message is set.
LEMMA MsgSet_body ==
  ASSUME NEW mk, NEW size, NEW own, NEW filled, NEW body, NEW done, NEW x
  PROVE  [Msg(mk, size, own, filled, body, done) EXCEPT !.body = x]
         = Msg(mk, size, own, filled, x, done)
  BY DEF Msg

\* The field complete of a message is set.
LEMMA MsgSet_complete ==
  ASSUME NEW mk, NEW size, NEW own, NEW filled, NEW body, NEW done, NEW x
  PROVE  [Msg(mk, size, own, filled, body, done) EXCEPT !.complete = x]
         = Msg(mk, size, own, filled, body, x)
  BY DEF Msg

\* The message object while AMQP-CPP puts a message of this size together and n bytes
\* have come: its own buffer is allocated with the first of several frames.
Partial(size, n, tag) ==
  IF n = 0 THEN Msg(Yes, size, No, 0, <<>>, No)
           ELSE Msg(Yes, size, Yes, n, Receiver!Names(n, tag), No)

\* append() to a message with a buffer of its own: as many bytes as there is room for
\* go behind the others.
LEMMA AppendOwn ==
  ASSUME NEW size \in Nat, NEW filled \in Nat, NEW b, NEW d, NEW old, NEW k,
         k = Receiver!Least(Len(d), size - filled)
  PROVE  Receiver!append(Msg(Yes, size, Yes, filled, b, old), d)
         = Msg(Yes, size, Yes, filled + k, b \o SubSeq(d, 1, k), Complete(filled + k, size))
<1> DEFINE m    == Msg(Yes, size, Yes, filled, b, old)
           c    == b \o SubSeq(d, 1, k)
           more == [m EXCEPT !.body = c, !.filled = m.filled + k]
<1>1. m.own = Yes /\ m.size = size /\ m.filled = filled /\ m.body = b
  BY MsgFields
<1>2. Receiver!append(m, d) = [more EXCEPT !.complete = Complete(more.filled, more.size)]
  <2> HIDE DEF m
  <2>1. k = Receiver!Least(Len(d), m.size - m.filled)
    BY <1>1
  <2> HIDE DEF c
  <2>2. m.body \o SubSeq(d, 1, k) = c
    BY <1>1 DEF c
  <2> QED BY <1>1, <2>1, <2>2, Zenon DEF Receiver!append, Yes, Complete
<1> HIDE DEF c
<1>3. more = Msg(Yes, size, Yes, filled + k, c, old)
  <2> DEFINE n == filled + k
             a == [m EXCEPT !.body = c]
  <2>1. more = [a EXCEPT !.filled = n]
    BY <1>1
  <2> HIDE DEF n
  <2>2. a = Msg(Yes, size, Yes, filled, c, old)
    BY MsgSet_body DEF m
  <2> HIDE DEF a
  <2>3. [a EXCEPT !.filled = n] = Msg(Yes, size, Yes, n, c, old)
    BY <2>2, MsgSet_filled
  <2> QED BY <2>1, <2>3 DEF n
<1> HIDE DEF more
<1>4. more.filled = filled + k /\ more.size = size
  BY <1>3, MsgFields
<1>5. [more EXCEPT !.complete = Complete(filled + k, size)]
      = Msg(Yes, size, Yes, filled + k, c, Complete(filled + k, size))
  BY <1>3, MsgSet_complete
<1> QED BY <1>2, <1>4, <1>5 DEF m, c

\* append() of the first of several frames: the buffer is allocated.
LEMMA AppendFirst ==
  ASSUME NEW size \in Nat, NEW b, NEW d, NEW old, Len(d) \in Nat, Len(d) < size
  PROVE  Receiver!append(Msg(Yes, size, No, 0, b, old), d)
         = Msg(Yes, size, Yes, Len(d), d, Complete(Len(d), size))
<1> DEFINE m    == Msg(Yes, size, No, 0, b, old)
           more == [m EXCEPT !.own = Yes, !.body = d, !.filled = Len(d)]
<1>1. m.own = No /\ m.size = size
  BY MsgFields
<1> HIDE DEF m
<1>2. ~(Len(d) >= m.size)
  BY <1>1
<1>3. Receiver!append(m, d) = [more EXCEPT !.complete = Complete(more.filled, more.size)]
  BY <1>1, <1>2 DEF Receiver!append, Yes, No, Complete
<1>4. more = Msg(Yes, size, Yes, Len(d), d, old)
  <2> DEFINE n == Len(d)
             a == [m EXCEPT !.own = Yes]
             c == [a EXCEPT !.body = d]
  <2>1. more = [c EXCEPT !.filled = n]
    BY DEF Yes
  <2> HIDE DEF n
  <2>2. a = Msg(Yes, size, Yes, 0, b, old)
    BY MsgSet_own DEF m
  <2> HIDE DEF a
  <2>3. c = Msg(Yes, size, Yes, 0, d, old)
    BY <2>2, MsgSet_body
  <2> HIDE DEF c
  <2>4. [c EXCEPT !.filled = n] = Msg(Yes, size, Yes, n, d, old)
    BY <2>3, MsgSet_filled
  <2> QED BY <2>1, <2>4 DEF n
<1> HIDE DEF more
<1>5. more.filled = Len(d) /\ more.size = size
  BY <1>4, MsgFields
<1>6. [more EXCEPT !.complete = Complete(Len(d), size)]
      = Msg(Yes, size, Yes, Len(d), d, Complete(Len(d), size))
  BY <1>4, MsgSet_complete
<1> QED BY <1>3, <1>5, <1>6 DEF m

\* append() of a frame that has the whole body, which is not copied.
LEMMA AppendWhole ==
  ASSUME NEW size \in Nat, NEW b, NEW d, NEW old, Len(d) \in Nat, Len(d) >= size
  PROVE  Receiver!append(Msg(Yes, size, No, 0, b, old), d)
         = Msg(Yes, size, No, 0, SubSeq(d, 1, size), Complete(0, size))
<1> DEFINE m    == Msg(Yes, size, No, 0, b, old)
           c    == SubSeq(d, 1, size)
           more == [m EXCEPT !.body = c]
<1>1. m.own = No /\ m.size = size
  BY MsgFields
<1> HIDE DEF m
<1>2. Len(d) >= m.size
  BY <1>1
<1>3. Receiver!append(m, d) = [more EXCEPT !.complete = Complete(more.filled, more.size)]
  BY <1>1, <1>2 DEF Receiver!append, Yes, No, Complete
<1> HIDE DEF c
<1>4. more = Msg(Yes, size, No, 0, c, old)
  BY MsgSet_body DEF m
<1> HIDE DEF more
<1>5. more.filled = 0 /\ more.size = size
  BY <1>4, MsgFields
<1>6. [more EXCEPT !.complete = Complete(0, size)] = Msg(Yes, size, No, 0, c, Complete(0, size))
  BY <1>4, MsgSet_complete
<1> QED BY <1>3, <1>5, <1>6 DEF m, c

\* What the one that receives holds: the message under way if it had asked for messages
\* when this one began, with its size from the header on.
Held == IF frame.asked
        THEN Partial(IF frame.stage = "body" THEN frame.size ELSE 0, frame.at, sent)
        ELSE Receiver!NoMessage

\* A message that a receiver may have kept because the broker sent more than its size:
\* in the frame that brought it, or in a buffer of its own.
Leftover(m) == \E size \in Sizes \cup {0}, body \in Seq(Nat \X Nat) :
  /\ Len(body) <= size
  /\ \/ \E old : m = Msg(Yes, size, No, 0, body, old)
     \/ m = Msg(Yes, size, Yes, Len(body), body, Complete(Len(body), size))

\* A receiver that is not receiving has no message, or a leftover.
Rests(r) == \/ message[r] = Receiver!NoMessage
            \/ "message" \in cbs[r] /\ Leftover(message[r])

\* More has come than the size of the message.
Over == frame.at > frame.size

\* The state of the frames: no receiver between messages, nothing of the body before the
\* header, and what is left to come is what the broker has not sent.
FrameInv ==
  /\ frame \in [stage : {"begin", "header", "body"}, to : Receiver!Receivers \cup {None},
                size : Sizes \cup {0}, at : Nat, asked : BOOLEAN]
  /\ frame.stage = "begin" => receiver = None
  /\ frame.stage # "body" => frame.at = 0
  /\ frame.stage = "body" => frame.at # frame.size /\ left = frame.size - frame.at
  /\ frame.asked => receiver # None /\ "message" \in cbs[receiver]

ReceiverInv ==
  /\ consumers \subseteq Consumer /\ receiver \in Receiver!Receivers \cup {None}
  /\ cbs \in [Receiver!Receivers -> SUBSET Callbacks]
  /\ left \in Int /\ sent \in 0..MaxMessages /\ parts \in Seq(Callbacks)
  /\ FrameInv
  /\ message = [r \in Receiver!Receivers |-> message[r]]
  /\ \A r \in Receiver!Receivers :
       IF r = receiver /\ ~Over THEN message[r] = Held ELSE Rests(r)
  /\ Receiver!MessagesIntact

\* The bytes of a message, as a sequence.
LEMMA NamesSeq ==
  ASSUME NEW n \in Nat, NEW tag \in Nat
  PROVE  /\ Receiver!Names(n, tag) \in Seq(Nat \X Nat)
         /\ Len(Receiver!Names(n, tag)) = n
         /\ \A i \in 1..n : Receiver!Names(n, tag)[i] = <<tag, i>>
  BY DEF Receiver!Names

\* Bytes of a frame that go on where the ones before ended.
LEMMA NamesConcat ==
  ASSUME NEW n \in Nat, NEW k \in Nat, NEW tag \in Nat
  PROVE  Receiver!Names(n, tag) \o [i \in 1..k |-> <<tag, n + i>>] = Receiver!Names(n + k, tag)
<1> DEFINE a == Receiver!Names(n, tag)
           b == [i \in 1..k |-> <<tag, n + i>>]
           c == Receiver!Names(n + k, tag)
<1>1. a \in Seq(Nat \X Nat) /\ Len(a) = n /\ \A i \in 1..n : a[i] = <<tag, i>>
  BY NamesSeq
<1>2. c \in Seq(Nat \X Nat) /\ Len(c) = n + k /\ \A i \in 1..(n + k) : c[i] = <<tag, i>>
  <2>1. n + k \in Nat
    OBVIOUS
  <2> QED BY <2>1, NamesSeq
<1>3. b \in Seq(Nat \X Nat) /\ Len(b) = k /\ \A i \in 1..k : b[i] = <<tag, n + i>>
  OBVIOUS
<1> HIDE DEF a, b, c
<1>4. /\ a \o b \in Seq(Nat \X Nat) /\ Len(a \o b) = n + k
      /\ \A i \in 1..(n + k) : (a \o b)[i] = IF i <= n THEN a[i] ELSE b[i - n]
  <2>1. /\ a \o b \in Seq(Nat \X Nat) /\ Len(a \o b) = Len(a) + Len(b)
        /\ \A i \in 1..(Len(a) + Len(b)) :
             (a \o b)[i] = IF i <= Len(a) THEN a[i] ELSE b[i - Len(a)]
    BY <1>1, <1>3, ConcatProperties
  <2> QED BY <1>1, <1>3, <2>1
<1> DEFINE d == a \o b
<1> HIDE DEF d
<1>5. ASSUME NEW i \in 1..(n + k) PROVE d[i] = c[i]
  <2>0. d[i] = (IF i <= n THEN a[i] ELSE b[i - n]) /\ c[i] = <<tag, i>>
    BY <1>2, <1>4 DEF d
  <2>1. CASE i <= n
    BY <1>1, <2>0, <2>1
  <2>2. CASE i > n
    <3>1. i - n \in 1..k /\ n + (i - n) = i /\ ~(i <= n)
      BY <2>2
    <3>2. b[i - n] = <<tag, n + (i - n)>>
      BY <1>3, <3>1
    <3> QED BY <2>0, <3>1, <3>2
  <2> QED BY <2>1, <2>2
<1>6. a \o b = c
  <2>1. d \in Seq(Nat \X Nat) /\ Len(d) = Len(c) /\ \A i \in 1..Len(d) : d[i] = c[i]
    BY <1>2, <1>4, <1>5 DEF d
  <2> QED BY <2>1, <1>2, SeqEqual DEF d
<1> QED BY <1>6 DEF a, b, c

\* Message::append puts the bytes of a frame behind those it has, and the message that
\* the last frame completes has all of them (message.h:95-130).
LEMMA AppendPartial ==
  ASSUME NEW size \in Nat, NEW at \in Nat, NEW n \in Nat \ {0}, at + n <= size, NEW tag \in Nat
  PROVE  LET data == [i \in 1..n |-> <<tag, at + i>>]
             m    == Receiver!append(Partial(size, at, tag), data)
         IN  /\ m.made
             /\ m.body = Receiver!Names(at + n, tag)
             /\ at + n < size => m = Partial(size, at + n, tag)
<1> DEFINE data == [i \in 1..n |-> <<tag, at + i>>]
           body == Receiver!Names(at + n, tag)
           m    == Receiver!append(Partial(size, at, tag), data)
<1>1. Len(data) = n /\ SubSeq(data, 1, Len(data)) = data
  OBVIOUS
<1>2. Receiver!Names(at, tag) \o data = body
  BY NamesConcat
<1>3. at = 0 => data = body
  BY DEF Receiver!Names
<1> HIDE DEF data, body
<1>4. at + n < size => Complete(at + n, size) = No
  BY DEF Complete, No
<1>5. CASE at > 0
  <2>1. m = Msg(Yes, size, Yes, at + n, body, Complete(at + n, size))
    <3>1. Partial(size, at, tag) = Msg(Yes, size, Yes, at, Receiver!Names(at, tag), No)
      BY <1>5 DEF Partial
    <3>2. Receiver!append(Msg(Yes, size, Yes, at, Receiver!Names(at, tag), No), data)
          = Msg(Yes, size, Yes, at + n, Receiver!Names(at, tag) \o SubSeq(data, 1, n),
                Complete(at + n, size))
      <4>1. n = Receiver!Least(Len(data), size - at)
        BY <1>1 DEF Receiver!Least
      <4> QED BY <4>1, AppendOwn
    <3> QED BY <1>1, <1>2, <3>1, <3>2
  <2> HIDE DEF m
  <2>2. m.made = Yes /\ m.body = body
    BY <2>1, MsgFields
  <2>3. at + n < size => m = Partial(size, at + n, tag)
    BY <2>1, <1>4 DEF Partial, body
  <2> QED BY <2>2, <2>3 DEF m, data, body, Yes
<1>6. CASE at = 0 /\ n < size
  <2>1. m = Msg(Yes, size, Yes, n, body, Complete(n, size))
    BY <1>1, <1>3, <1>6, AppendFirst DEF Partial
  <2> HIDE DEF m
  <2>2. m.made = Yes /\ m.body = body
    BY <2>1, MsgFields
  <2>3. m = Partial(size, at + n, tag)
    BY <2>1, <1>4, <1>6 DEF Partial, body
  <2> QED BY <2>2, <2>3 DEF m, data, body, Yes
<1>7. CASE at = 0 /\ n = size
  <2>1. m = Msg(Yes, size, No, 0, body, Complete(0, size))
    <3>1. SubSeq(data, 1, size) = body /\ Len(data) >= size
      BY <1>1, <1>3, <1>7
    <3>2. Receiver!append(Msg(Yes, size, No, 0, <<>>, No), data)
          = Msg(Yes, size, No, 0, SubSeq(data, 1, size), Complete(0, size))
      BY <1>1, <3>1, AppendWhole
    <3> QED BY <3>1, <3>2, <1>7 DEF Partial
  <2> HIDE DEF m
  <2>2. m.made = Yes /\ m.body = body
    BY <2>1, MsgFields
  <2> QED BY <2>2, <1>7 DEF m, data, body, Yes
<1> QED BY <1>5, <1>6, <1>7

\* The message that is being put together may stay, if too much comes.
LEMMA PartialLeft ==
  ASSUME NEW size \in Sizes \cup {0}, NEW n \in Nat, n = 0 \/ n < size, NEW tag \in Nat
  PROVE  Leftover(Partial(size, n, tag))
<1> USE ReceiverAssumption
<1>1. CASE n = 0
  <2>1. <<>> \in Seq(Nat \X Nat) /\ Len(<<>>) <= size
    OBVIOUS
  <2> QED BY <1>1, <2>1 DEF Partial, Leftover
<1>2. CASE n # 0
  <2> DEFINE body == Receiver!Names(n, tag)
  <2>1. body \in Seq(Nat \X Nat) /\ Len(body) = n
    BY NamesSeq
  <2>2. Complete(n, size) = No
    BY <1>2 DEF Complete, No
  <2>3. Partial(size, n, tag) = Msg(Yes, size, Yes, n, body, No)
    BY <1>2 DEF Partial
  <2> HIDE DEF body
  <2>4. Partial(size, n, tag) = Msg(Yes, size, Yes, Len(body), body, Complete(Len(body), size))
    BY <2>1, <2>2, <2>3
  <2>5. Len(body) <= size
    BY <1>2, <2>1
  <2> HIDE DEF body
  <2> QED BY <2>1, <2>4, <2>5 DEF Leftover
<1> QED BY <1>1, <1>2

\* A leftover stays one, whatever comes: append() takes no more than there is room for
\* (message.h:100-101).
LEMMA LeftoverAppend ==
  ASSUME NEW m, Leftover(m), NEW d \in Seq(Nat \X Nat)
  PROVE  Leftover(Receiver!append(m, d))
<1> USE ReceiverAssumption
<1>1. PICK size \in Sizes \cup {0}, b \in Seq(Nat \X Nat) :
        /\ Len(b) <= size
        /\ \/ \E old : m = Msg(Yes, size, No, 0, b, old)
           \/ m = Msg(Yes, size, Yes, Len(b), b, Complete(Len(b), size))
  BY DEF Leftover
<1>2. size \in Nat /\ Len(b) \in Nat /\ Len(d) \in Nat
  OBVIOUS
<1> DEFINE a == Receiver!append(m, d)
<1>3. CASE (\E old : m = Msg(Yes, size, No, 0, b, old)) /\ Len(d) < size
  <2>1. a = Msg(Yes, size, Yes, Len(d), d, Complete(Len(d), size))
    BY <1>2, <1>3, AppendFirst
  <2> HIDE DEF a
  <2>2. Len(d) <= size
    BY <1>2, <1>3
  <2>3. Leftover(a)
    BY <2>1, <2>2 DEF Leftover
  <2> QED BY <2>3 DEF a
<1>4. CASE (\E old : m = Msg(Yes, size, No, 0, b, old)) /\ ~(Len(d) < size)
  <2> DEFINE e == SubSeq(d, 1, size)
  <2>1. a = Msg(Yes, size, No, 0, e, Complete(0, size))
    BY <1>2, <1>4, AppendWhole
  <2>2. e \in Seq(Nat \X Nat) /\ Len(e) <= size
    BY <1>2, <1>4
  <2> HIDE DEF e
  <2> QED BY <2>1, <2>2 DEF Leftover
<1>5. CASE m = Msg(Yes, size, Yes, Len(b), b, Complete(Len(b), size))
  <2> DEFINE k == Receiver!Least(Len(d), size - Len(b))
             e == SubSeq(d, 1, k)
             c == b \o e
  <2>1. k \in 0..Len(d) /\ Len(b) + k <= size
    BY <1>1, <1>2 DEF Receiver!Least
  <2>2. a = Msg(Yes, size, Yes, Len(b) + k, c, Complete(Len(b) + k, size))
    <3> HIDE DEF k
    <3>1. k = Receiver!Least(Len(d), size - Len(b))
      BY DEF k
    <3> HIDE DEF a
    <3>2. a = Receiver!append(Msg(Yes, size, Yes, Len(b), b, Complete(Len(b), size)), d)
      BY <1>5 DEF a
    <3> QED BY <1>2, <3>1, <3>2, AppendOwn
  <2> HIDE DEF k
  <2>3. e \in Seq(Nat \X Nat) /\ Len(e) = k
    BY <1>2, <2>1
  <2> HIDE DEF e
  <2>4. c \in Seq(Nat \X Nat) /\ Len(c) = Len(b) + k
    BY <2>3, ConcatProperties
  <2> HIDE DEF c, a
  <2>5. Len(c) <= size /\ a = Msg(Yes, size, Yes, Len(c), c, Complete(Len(c), size))
    BY <2>1, <2>2, <2>4
  <2> QED BY <2>4, <2>5 DEF Leftover, a
<1> QED BY <1>1, <1>3, <1>4, <1>5

\* A body is within the size of its message.
LEMMA LeftoverWithin ==
  ASSUME NEW m, m = Receiver!NoMessage \/ Leftover(m)
  PROVE  /\ m.made \in BOOLEAN /\ m.own \in BOOLEAN
         /\ m.size \in Sizes \cup {0} /\ m.filled \in Nat
         /\ Len(m.body) <= m.size
         /\ m.own => /\ m.filled = Len(m.body)
                     /\ m.complete <=> Len(m.body) = m.size
<1> USE ReceiverAssumption
<1>1. CASE m = Receiver!NoMessage
  <2>1. m = Msg(No, 0, No, 0, <<>>, No)
    BY <1>1 DEF Receiver!NoMessage, Msg, No
  <2>2. m.made = No /\ m.own = No /\ m.size = 0 /\ m.filled = 0 /\ m.body = <<>>
    BY <2>1, MsgFields
  <2>3. m.made \in BOOLEAN /\ m.own \in BOOLEAN /\ ~m.own
    BY <2>2, Zenon DEF No
  <2>4. m.size \in Sizes \cup {0} /\ m.filled \in Nat /\ Len(m.body) <= m.size
    BY <2>2
  <2> QED BY <2>3, <2>4, Zenon
<1>2. CASE Leftover(m)
  <2>1. PICK size \in Sizes \cup {0}, b \in Seq(Nat \X Nat) :
          /\ Len(b) <= size
          /\ \/ \E old : m = Msg(Yes, size, No, 0, b, old)
             \/ m = Msg(Yes, size, Yes, Len(b), b, Complete(Len(b), size))
    BY <1>2 DEF Leftover
  <2>2. size \in Nat /\ Len(b) \in Nat
    OBVIOUS
  <2>3. CASE \E old : m = Msg(Yes, size, No, 0, b, old)
    <3>1. m.made = Yes /\ m.own = No /\ m.size = size /\ m.filled = 0 /\ m.body = b
      BY <2>3, MsgFields
    <3>2. m.made \in BOOLEAN /\ m.own \in BOOLEAN /\ ~m.own
      BY <3>1, Zenon DEF Yes, No
    <3>3. m.size \in Sizes \cup {0} /\ m.filled \in Nat /\ Len(m.body) <= m.size
      BY <3>1, <2>1
    <3> QED BY <3>2, <3>3, Zenon
  <2>4. CASE m = Msg(Yes, size, Yes, Len(b), b, Complete(Len(b), size))
    <3>1. /\ m.made = Yes /\ m.own = Yes /\ m.size = size /\ m.filled = Len(b) /\ m.body = b
          /\ m.complete = Complete(Len(b), size)
      BY <2>4, MsgFields
    <3>2. m.made \in BOOLEAN /\ m.own \in BOOLEAN
      BY <3>1, Zenon DEF Yes
    <3>3. m.size \in Sizes \cup {0} /\ m.filled \in Nat /\ Len(m.body) <= m.size
      BY <3>1, <2>1, <2>2
    <3>4. m.filled = Len(m.body)
      BY <3>1
    <3>5. Complete(Len(b), size) <=> Len(b) = size
      BY <2>1, <2>2 DEF Complete
    <3>6. m.complete <=> Len(m.body) = m.size
      BY <3>1, <3>5, Zenon
    <3> QED BY <3>2, <3>3, <3>4, <3>6, Zenon
  <2> QED BY <2>1, <2>3, <2>4
<1> QED BY <1>1, <1>2

\* What is held of a message may stay.
LEMMA HeldLeft ==
  ASSUME ReceiverInv, ~Over PROVE Held = Receiver!NoMessage \/ Leftover(Held)
<1> USE ReceiverAssumption
<1>1. /\ frame.at \in Nat /\ frame.size \in Sizes \cup {0} /\ sent \in Nat
      /\ frame.at = 0 \/ (frame.stage = "body" /\ frame.at < frame.size)
  BY DEF ReceiverInv, FrameInv, Over
<1>2. CASE frame.stage = "body"
  BY <1>1, <1>2, PartialLeft DEF Held
<1>3. CASE frame.stage # "body"
  BY <1>1, <1>3, PartialLeft DEF Held
<1> QED BY <1>2, <1>3

\* In every state between frames the message properties hold.
LEMMA ReceiverImplies == ReceiverInv => MessagesIntact /\ Receiver!TypeOK
<1> SUFFICES ASSUME ReceiverInv PROVE MessagesIntact /\ Receiver!TypeOK
  OBVIOUS
<1>1. ASSUME NEW r \in Receiver!Receivers
      PROVE  message[r] = Receiver!NoMessage \/ Leftover(message[r])
  <2>1. IF r = receiver /\ ~Over THEN message[r] = Held ELSE Rests(r)
    BY DEF ReceiverInv
  <2> QED BY <2>1, HeldLeft DEF Rests
<1>2. Receiver!TypeOK
  BY <1>1, LeftoverWithin DEF ReceiverInv, Receiver!TypeOK, Callbacks
<1>3. Receiver!BodyWithinSize
  BY <1>1, LeftoverWithin DEF Receiver!BodyWithinSize
<1> QED BY <1>2, <1>3 DEF ReceiverInv, MessagesIntact

\* The first state has no message.
LEMMA ReceiverInit == Receiver!Init => ReceiverInv
<1> SUFFICES ASSUME Receiver!Init PROVE ReceiverInv
  OBVIOUS
<1> USE ReceiverAssumption DEF Receiver!Init
<1>1. FrameInv
  BY DEF FrameInv, Receiver!NoFrame
<1>2. receiver = None /\ None \notin Receiver!Receivers
  BY DEF Receiver!Receivers
<1>3. /\ message = [r \in Receiver!Receivers |-> message[r]]
      /\ \A r \in Receiver!Receivers : message[r] = Receiver!NoMessage
  OBVIOUS
<1>4. Receiver!MessagesIntact
  BY DEF Receiver!MessagesIntact, Receiver!NoneYet
<1>5. cbs \in [Receiver!Receivers -> SUBSET Callbacks] /\ parts \in Seq(Callbacks)
  OBVIOUS
<1> QED BY <1>1, <1>2, <1>3, <1>4, <1>5 DEF ReceiverInv, Rests

\* Callbacks are called by name.
LEMMA CallTyped ==
  ASSUME NEW r, NEW cb \in Callbacks PROVE Receiver!Call(r, cb) \in Seq(Callbacks)
  BY DEF Receiver!Call

\* A registration, or an installation between messages, leaves what is under way.
LEMMA RegisterStep ==
  ASSUME ReceiverInv, NEW r \in Receiver!Receivers, NEW m,
         Receiver!Register(r, m) \/ Receiver!Install(r) \/ Receiver!Uninstall(r)
  PROVE  ReceiverInv'
<1> USE ReceiverAssumption
<1>1. CASE Receiver!Register(r, m)
  <2>1. UNCHANGED <<consumers, receiver, message, left, frame, sent, parts, got>>
    BY <1>1 DEF Receiver!Register
  <2>2. PICK cb \in Callbacks : cbs' = [cbs EXCEPT ![r] = @ \cup {cb}]
    <3>1. PICK ms \in Receiver!MethodsOf(r) :
                 m \in DOMAIN ms /\ cbs' = [cbs EXCEPT ![r] = @ \cup {ms[m]}]
      BY <1>1 DEF Receiver!Register
    <3>2. ms \in {Receiver!WholeMethods, Receiver!PartMethods, Receiver!GetMethods,
                  Receiver!GetPartMethods, Receiver!ReturnMethods, Receiver!ReturnPartMethods}
      BY <3>1 DEF Receiver!MethodsOf
    <3>3. ms[m] \in Callbacks
      BY <3>1, <3>2 DEF Callbacks, Receiver!WholeMethods, Receiver!PartMethods,
         Receiver!GetMethods, Receiver!GetPartMethods, Receiver!ReturnMethods,
         Receiver!ReturnPartMethods
    <3> QED BY <3>1, <3>3
  <2>3. /\ cbs' \in [Receiver!Receivers -> SUBSET Callbacks]
        /\ \A k \in Receiver!Receivers : cbs[k] \subseteq cbs'[k]
    BY <2>2 DEF ReceiverInv
  <2>4. Held' = Held /\ Over' = Over
    BY <2>1 DEF Held, Over
  <2>5. \A k \in Receiver!Receivers : Rests(k) => Rests(k)'
    BY <2>1, <2>3 DEF Rests, Leftover
  <2>6. FrameInv'
    BY <2>1, <2>3 DEF ReceiverInv, FrameInv
  <2> QED BY <2>1, <2>3, <2>4, <2>5, <2>6 DEF ReceiverInv, Receiver!MessagesIntact
<1>2. CASE Receiver!Install(r) \/ Receiver!Uninstall(r)
  <2>1. /\ consumers' \subseteq Consumer
        /\ UNCHANGED <<receiver, cbs, message, left, frame, sent, parts, got>>
    BY <1>2 DEF Receiver!Install, Receiver!Uninstall, ReceiverInv
  <2>2. /\ FrameInv' /\ Held' = Held /\ Over' = Over
        /\ \A k \in Receiver!Receivers : Rests(k)' = Rests(k)
    BY <2>1 DEF ReceiverInv, FrameInv, Held, Over, Rests, Leftover
  <2> QED BY <2>1, <2>2 DEF ReceiverInv, Receiver!MessagesIntact
<1> QED BY <1>1, <1>2

\* Between two messages every receiver rests.
LEMMA AllRest ==
  ASSUME ReceiverInv, Receiver!Between, NEW r \in Receiver!Receivers PROVE Rests(r)
<1>1. r = receiver => Over
  BY ReceiverAssumption DEF ReceiverInv, FrameInv, Receiver!Between, Over, Receiver!Receivers
<1> QED BY <1>1 DEF ReceiverInv

\* A begin frame starts a message for a receiver, and what that one kept is destroyed.
LEMMA BeginStep ==
  ASSUME ReceiverInv, NEW r \in Receiver!Receivers, NEW n \in Sizes, Receiver!Begin(r, n)
  PROVE  ReceiverInv'
<1> USE ReceiverAssumption
<1> DEFINE to == IF r \in Consumer \ consumers THEN None ELSE r
<1>1. /\ Receiver!Between /\ sent < MaxMessages /\ sent' = sent + 1 /\ receiver' = to
      /\ message' = Receiver!Set(to, IF Receiver!Has(to, "message") THEN Receiver!construct
                                     ELSE message[to])
      /\ frame' = [stage |-> "header", to |-> r, size |-> n, at |-> 0,
                   asked |-> Receiver!Has(to, "message")]
      /\ UNCHANGED <<consumers, cbs, left, got>>
  BY DEF Receiver!Begin
<1>2. parts' \in Seq(Callbacks)
  <2>1. /\ Receiver!Call(to, "count") \in Seq(Callbacks)
        /\ Receiver!Call(to, "begin") \in Seq(Callbacks) /\ <<>> \in Seq(Callbacks)
    BY CallTyped DEF Callbacks
  <2> QED BY <2>1 DEF Receiver!Begin
<1> HIDE DEF to
<1>3. to \in Receiver!Receivers \cup {None} /\ None \notin Receiver!Receivers
  BY DEF to, Receiver!Receivers
<1>4. /\ frame'.at = 0 /\ frame'.size = n /\ frame'.stage = "header"
      /\ frame'.asked <=> (to # None /\ "message" \in cbs[to])
  BY <1>1, Zenon DEF Receiver!Has
<1>5. FrameInv'
  <2>1. Receiver!Has(to, "message") \in BOOLEAN
    BY Zenon DEF Receiver!Has
  <2>2. frame' \in [stage : {"begin", "header", "body"}, to : Receiver!Receivers \cup {None},
                    size : Sizes \cup {0}, at : Nat, asked : BOOLEAN]
    BY <1>1, <2>1
  <2> QED BY <1>1, <1>4, <2>2 DEF FrameInv
<1>6. Receiver!construct = Partial(0, 0, sent')
  <2>1. Receiver!NoMessage = Msg(No, 0, No, 0, <<>>, No)
    BY DEF Receiver!NoMessage, Msg, No
  <2>2. Receiver!construct = [Receiver!NoMessage EXCEPT !.made = Yes]
    BY DEF Receiver!construct, Yes
  <2>3. [Receiver!NoMessage EXCEPT !.made = Yes] = Msg(Yes, 0, No, 0, <<>>, No)
    BY <2>1, MsgSet_made
  <2> QED BY <2>2, <2>3 DEF Partial
<1>7. Held' = (IF frame'.asked THEN Receiver!construct ELSE Receiver!NoMessage) /\ ~Over'
  BY <1>4, <1>6 DEF Held, Over
<1>8. ASSUME NEW k \in Receiver!Receivers
      PROVE  IF k = receiver' /\ ~Over' THEN message'[k] = Held' ELSE Rests(k)'
  <2>1. Rests(k)
    BY <1>1, AllRest
  <2>2. CASE k = to /\ "message" \in cbs[k]
    BY <2>2, <1>1, <1>3, <1>4, <1>7 DEF Receiver!Set, Receiver!Has, ReceiverInv
  <2>3. CASE k = to /\ "message" \notin cbs[k]
    BY <2>1, <2>3, <1>1, <1>3, <1>4, <1>7 DEF Receiver!Set, Receiver!Has, ReceiverInv, Rests
  <2>4. CASE k # to
    <3>1. message'[k] = message[k]
      BY <2>4, <1>1 DEF Receiver!Set, ReceiverInv
    <3> QED BY <2>1, <2>4, <3>1, <1>1 DEF Rests, Leftover
  <2> QED BY <2>2, <2>3, <2>4
<1>9. message' = [k \in Receiver!Receivers |-> message'[k]]
  BY <1>1 DEF Receiver!Set, ReceiverInv
<1>10. Receiver!MessagesIntact'
  BY <1>1 DEF ReceiverInv, Receiver!MessagesIntact
<1>11. /\ consumers' \subseteq Consumer /\ receiver' \in Receiver!Receivers \cup {None}
       /\ cbs' \in [Receiver!Receivers -> SUBSET Callbacks]
       /\ left' \in Int /\ sent' \in 0..MaxMessages
  BY <1>1, <1>3 DEF ReceiverInv
<1> QED BY <1>2, <1>5, <1>8, <1>9, <1>10, <1>11 DEF ReceiverInv

\* get() found no message.
LEMMA EmptyStep ==
  ASSUME ReceiverInv, NEW r \in Receiver!Receivers, Receiver!Empty(r) PROVE ReceiverInv'
<1> USE ReceiverAssumption
<1>1. /\ Receiver!Between /\ sent < MaxMessages /\ sent' = sent + 1
      /\ got' = [to |-> r, tag |-> sent + 1, size |-> 0, parts |-> Receiver!Call(r, "empty"),
                 body |-> <<>>, asked |-> FALSE]
      /\ UNCHANGED <<consumers, receiver, cbs, message, left, frame, parts>>
  BY DEF Receiver!Empty
<1>2. ~got'.asked
  BY <1>1
<1>3. ASSUME NEW k \in Receiver!Receivers
      PROVE  IF k = receiver' /\ ~Over' THEN message'[k] = Held' ELSE Rests(k)'
  <2>1. Rests(k)
    BY <1>1, AllRest
  <2>2. k = receiver => Over
    BY <1>1, ReceiverAssumption
       DEF ReceiverInv, FrameInv, Receiver!Between, Over, Receiver!Receivers
  <2> QED BY <2>1, <2>2, <1>1 DEF Rests, Leftover, Over
<1> QED BY <1>1, <1>2, <1>3 DEF ReceiverInv, FrameInv, Receiver!MessagesIntact

\* complete() delivers the message that was put together, and leaves none behind.
LEMMA CompleteStep ==
  ASSUME ReceiverInv, ~Over, NEW m, NEW done \in Seq(Callbacks),
         frame.asked => m.made /\ m.body = Receiver!Names(frame.size, sent),
         Receiver!complete(m, done), left' \in Int, UNCHANGED <<consumers, cbs, sent>>
  PROVE  ReceiverInv'
<1> USE ReceiverAssumption
<1> DEFINE asked == frame.asked
           mid   == IF m.made THEN <<"message">> ELSE <<>>
           last  == Receiver!Call(receiver, "complete")
           body  == IF m.made THEN m.body ELSE <<>>
<1>1. /\ got' = [to |-> receiver, tag |-> sent, size |-> frame.size, parts |-> done \o mid \o last,
                 body |-> body, asked |-> asked]
      /\ message' = Receiver!Set(receiver, Receiver!NoMessage)
      /\ receiver' = None /\ parts' = <<>> /\ frame' = Receiver!NoFrame
  BY DEF Receiver!complete, Receiver!reset
<1>2. last \in Seq(Callbacks)
  BY CallTyped DEF Callbacks
<1>3. asked => mid = <<"message">> /\ body = Receiver!Names(frame.size, sent)
  OBVIOUS
<1> HIDE DEF mid, last, body, asked
<1>4. /\ got'.tag = sent /\ got'.size = frame.size /\ got'.parts = done \o mid \o last
      /\ got'.body = body
  BY <1>1
<1>5. got'.asked => asked
  BY <1>1
<1>6. ASSUME asked PROVE \E j \in 1..Len(done \o mid \o last) : (done \o mid \o last)[j] = "message"
  <2>1. mid = <<"message">> /\ mid \in Seq(Callbacks) /\ Len(mid) = 1
    <3>1. "message" \in Callbacks /\ mid = <<"message">>
      BY <1>3, <1>6 DEF Callbacks
    <3> QED BY <3>1
  <2> DEFINE some == done \o mid
             j    == Len(done) + 1
  <2>2. some \in Seq(Callbacks) /\ Len(some) = j /\ j \in Nat \ {0}
    BY <2>1
  <2>3. some[j] = "message"
    BY <2>1
  <2> HIDE DEF some, j
  <2>4. j \in 1..Len(some \o last) /\ (some \o last)[j] = some[j]
    BY <1>2, <2>2
  <2> QED BY <2>3, <2>4 DEF some
<1>7. Receiver!MessagesIntact'
  <2>1. ASSUME got'.asked
        PROVE  /\ \E j \in 1..Len(got'.parts) : got'.parts[j] = "message"
               /\ got'.body = Receiver!Names(got'.size, got'.tag)
    BY <1>3, <1>4, <1>5, <1>6, <2>1
  <2> QED BY <2>1 DEF Receiver!MessagesIntact
<1>8. FrameInv'
  BY <1>1 DEF FrameInv, Receiver!NoFrame
<1>9. None \notin Receiver!Receivers
  BY DEF Receiver!Receivers
<1>10. ASSUME NEW k \in Receiver!Receivers PROVE Rests(k)'
  <2>1. CASE k = receiver
    BY <2>1, <1>1, <1>9 DEF Receiver!Set, ReceiverInv, Rests
  <2>2. CASE k # receiver
    <3>1. Rests(k) /\ message'[k] = message[k]
      BY <2>2, <1>1 DEF Receiver!Set, ReceiverInv
    <3> QED BY <3>1 DEF Rests, Leftover
  <2> QED BY <2>1, <2>2
<1>11. message' = [k \in Receiver!Receivers |-> message'[k]]
  BY <1>1 DEF Receiver!Set, ReceiverInv
<1> QED BY <1>1, <1>7, <1>8, <1>9, <1>10, <1>11 DEF ReceiverInv

\* What a frame of the message under way finds.
LEMMA CurrentIs ==
  ASSUME ReceiverInv
  PROVE  /\ ~Over => Receiver!Current = Held
         /\ \/ Receiver!Current = Receiver!NoMessage
            \/ receiver # None /\ "message" \in cbs[receiver] /\ Leftover(Receiver!Current)
<1> USE ReceiverAssumption
<1>1. frame.asked => receiver # None /\ "message" \in cbs[receiver]
  BY DEF ReceiverInv, FrameInv
<1>2. CASE receiver = None
  BY <1>1, <1>2 DEF Receiver!Current, Held
<1>3. CASE receiver # None
  <2>1. Receiver!Current = message[receiver] /\ receiver \in Receiver!Receivers
    BY <1>3 DEF Receiver!Current, ReceiverInv
  <2>2. IF ~Over THEN Receiver!Current = Held ELSE Rests(receiver)
    BY <2>1 DEF ReceiverInv
  <2>3. CASE ~Over
    <3>1. Held # Receiver!NoMessage => frame.asked
      BY DEF Held
    <3> QED BY <1>1, <1>3, <2>2, <2>3, <3>1, HeldLeft
  <2>4. CASE Over
    BY <1>3, <2>1, <2>2, <2>4 DEF Rests
  <2> QED BY <2>3, <2>4
<1> QED BY <1>2, <1>3

\* A message object that is being put together exists; the one between messages does not.
LEMMA PartialMade ==
  /\ \A size, n, tag : Partial(size, n, tag).made
  /\ ~Receiver!NoMessage.made
<1>1. \A size, n, tag : Partial(size, n, tag).made = Yes
  BY MsgFields DEF Partial
<1>2. Receiver!NoMessage.made = FALSE
  BY DEF Receiver!NoMessage
<1> QED BY <1>1, <1>2, Zenon DEF Yes

\* A frame that does not complete the message.
LEMMA GoesOn ==
  ASSUME ReceiverInv, NEW m, parts' \in Seq(Callbacks), left' \in Int, FrameInv',
         Over => Over', ~Over' => m = Held',
         Over' => \/ m = Receiver!NoMessage
                  \/ receiver # None /\ "message" \in cbs[receiver] /\ Leftover(m),
         message' = Receiver!Set(receiver, m), UNCHANGED <<consumers, cbs, sent, receiver, got>>
  PROVE  ReceiverInv'
<1> USE ReceiverAssumption
<1>1. ASSUME NEW k \in Receiver!Receivers
      PROVE  IF k = receiver' /\ ~Over' THEN message'[k] = Held' ELSE Rests(k)'
  <2>1. CASE k = receiver
    <3>1. message'[k] = m
      BY <2>1 DEF ReceiverInv, Receiver!Set, Receiver!Receivers
    <3> QED BY <2>1, <3>1 DEF Rests, Leftover
  <2>2. CASE k # receiver
    <3>1. Rests(k) /\ message'[k] = message[k]
      BY <2>2 DEF Receiver!Set, ReceiverInv
    <3> QED BY <2>2, <3>1 DEF Rests, Leftover
  <2> QED BY <2>1, <2>2
<1>2. message' = [k \in Receiver!Receivers |-> message'[k]]
  BY DEF ReceiverInv, Receiver!Set
<1> QED BY <1>1, <1>2 DEF ReceiverInv, Receiver!MessagesIntact

\* A header frame tells the size; a message without a body is complete.
LEMMA HeaderStep ==
  ASSUME ReceiverInv, Receiver!Header PROVE ReceiverInv'
<1> USE ReceiverAssumption
<1> DEFINE c    == Receiver!Current
           m    == IF c.made THEN Receiver!setBodySize(c, frame.size) ELSE c
           done == parts \o Receiver!Call(receiver, "size") \o Receiver!Call(receiver, "headers")
<1>1. /\ frame.stage = "header" /\ left' = frame.size /\ UNCHANGED <<consumers, cbs, sent>>
      /\ IF frame.size = 0 THEN Receiver!complete(m, done)
         ELSE /\ message' = Receiver!Set(receiver, m) /\ parts' = done
              /\ frame' = [frame EXCEPT !.stage = "body"]
              /\ UNCHANGED <<receiver, got>>
  BY DEF Receiver!Header
<1>2. /\ frame.at = 0 /\ frame.size \in Nat /\ sent \in Nat /\ ~Over
      /\ frame \in [stage : {"begin", "header", "body"}, to : Receiver!Receivers \cup {None},
                    size : Sizes \cup {0}, at : Nat, asked : BOOLEAN]
  BY <1>1 DEF ReceiverInv, FrameInv, Over
<1>3. done \in Seq(Callbacks)
  <2>1. /\ Receiver!Call(receiver, "size") \in Seq(Callbacks)
        /\ Receiver!Call(receiver, "headers") \in Seq(Callbacks) /\ parts \in Seq(Callbacks)
    BY CallTyped DEF Callbacks, ReceiverInv
  <2> QED BY <2>1
<1> HIDE DEF c, done
<1>4. frame.asked => m = Partial(frame.size, 0, sent)
  <2> SUFFICES ASSUME frame.asked PROVE m = Partial(frame.size, 0, sent)
    OBVIOUS
  <2>1. c = Partial(0, 0, sent)
    BY <1>1, <1>2, CurrentIs DEF c, Held
  <2>2. c.made
    BY <2>1, PartialMade
  <2>3. m = [c EXCEPT !.size = frame.size]
    BY <2>2 DEF Receiver!setBodySize
  <2>4. [c EXCEPT !.size = frame.size] = Msg(Yes, frame.size, No, 0, <<>>, No)
    BY <2>1, MsgSet_size DEF Partial
  <2> QED BY <2>3, <2>4 DEF Partial
<1>5. ~frame.asked => m = Receiver!NoMessage
  BY <1>2, CurrentIs, PartialMade DEF c, Held
<1> HIDE DEF m
<1>6. CASE frame.size = 0
  <2>1. frame.asked => m.made /\ m.body = Receiver!Names(frame.size, sent)
    <3>1. frame.asked => m.made
      BY <1>4, PartialMade
    <3>2. frame.asked => m.body = <<>>
      BY <1>4, MsgFields DEF Partial
    <3>3. Receiver!Names(0, sent) = <<>>
      BY <1>2, NamesSeq
    <3> QED BY <3>1, <3>2, <3>3, <1>6
  <2> QED BY <1>1, <1>2, <1>3, <1>6, <2>1, CompleteStep
<1>7. CASE frame.size # 0
  <2>1. /\ message' = Receiver!Set(receiver, m) /\ parts' = done
        /\ frame' = [frame EXCEPT !.stage = "body"] /\ UNCHANGED <<receiver, got>>
    BY <1>1, <1>7
  <2>2. frame'.stage = "body" /\ frame'.at = 0 /\ frame'.size = frame.size
        /\ frame'.asked = frame.asked
    BY <1>2, <2>1, Zenon
  <2>3. FrameInv'
    <3>1. frame' \in [stage : {"begin", "header", "body"}, to : Receiver!Receivers \cup {None},
                      size : Sizes \cup {0}, at : Nat, asked : BOOLEAN]
      BY <1>2, <2>1
    <3> QED BY <1>1, <1>2, <1>7, <2>1, <2>2, <3>1 DEF FrameInv, ReceiverInv
  <2>4. ~Over' /\ m = Held'
    BY <1>1, <1>2, <1>4, <1>5, <2>2 DEF Over, Held
  <2> QED BY <1>1, <1>2, <1>3, <2>1, <2>3, <2>4, GoesOn
<1> QED BY <1>6, <1>7

\* The types of the state when a body frame comes.
LEMMA BodyTyped ==
  ASSUME ReceiverInv, NEW n, Receiver!Body(n)
  PROVE  /\ frame.at \in Nat /\ frame.size \in Nat /\ sent \in Nat /\ n \in Nat \ {0}
         /\ left = frame.size - frame.at
         /\ frame \in [stage : {"begin", "header", "body"}, to : Receiver!Receivers \cup {None},
                       size : Sizes \cup {0}, at : Nat, asked : BOOLEAN]
<1>1. /\ FrameInv /\ frame.stage = "body" /\ sent \in 0..MaxMessages
      /\ n \in 1..(frame.size + Excess - frame.at)
  BY DEF ReceiverInv, Receiver!Body
<1>2. /\ frame \in [stage : {"begin", "header", "body"}, to : Receiver!Receivers \cup {None},
                    size : Sizes \cup {0}, at : Nat, asked : BOOLEAN]
      /\ left = frame.size - frame.at
  BY <1>1 DEF FrameInv
<1>3. frame.at \in Nat /\ frame.size \in Sizes \cup {0}
  BY <1>2
<1>4. Sizes \cup {0} \subseteq Nat /\ Excess \in Nat /\ MaxMessages \in Nat
  BY ReceiverAssumption
<1>5. frame.size \in Nat
  BY <1>3, <1>4
<1>6. n \in Nat \ {0}
  BY <1>1, <1>3, <1>4, <1>5
<1>7. sent \in Nat
  BY <1>1, <1>4
<1> QED BY <1>2, <1>3, <1>5, <1>6, <1>7

\* A body frame of any length.  The one that brings what is left completes the message,
\* and one that brings more does not.
LEMMA BodyStep ==
  ASSUME ReceiverInv, NEW n, Receiver!Body(n) PROVE ReceiverInv'
<1> USE ReceiverAssumption
<1> DEFINE c    == Receiver!Current
           data == [i \in 1..n |-> <<sent, frame.at + i>>]
           m    == IF c.made THEN Receiver!append(c, data) ELSE c
           done == parts \o Receiver!Call(receiver, "data")
<1>1. /\ frame.stage = "body" /\ n \in 1..(frame.size + Excess - frame.at) /\ left' = left - n
      /\ UNCHANGED <<consumers, cbs, sent>>
      /\ IF left = n THEN Receiver!complete(m, done)
         ELSE /\ message' = Receiver!Set(receiver, m) /\ parts' = done
              /\ frame' = [frame EXCEPT !.at = @ + n]
              /\ UNCHANGED <<receiver, got>>
  BY DEF Receiver!Body
<1>2. /\ frame.at \in Nat /\ frame.size \in Nat /\ sent \in Nat /\ n \in Nat \ {0}
      /\ left = frame.size - frame.at
      /\ frame \in [stage : {"begin", "header", "body"}, to : Receiver!Receivers \cup {None},
                    size : Sizes \cup {0}, at : Nat, asked : BOOLEAN]
  BY BodyTyped
<1>3. done \in Seq(Callbacks)
  <2>1. Receiver!Call(receiver, "data") \in Seq(Callbacks) /\ parts \in Seq(Callbacks)
    BY CallTyped DEF Callbacks, ReceiverInv
  <2> QED BY <2>1
<1>4. data \in Seq(Nat \X Nat)
  BY <1>2
<1> HIDE DEF c, done
<1>5. ASSUME frame.asked, frame.at + n <= frame.size
      PROVE  /\ m.made /\ m.body = Receiver!Names(frame.at + n, sent)
             /\ frame.at + n < frame.size => m = Partial(frame.size, frame.at + n, sent)
  <2>1. c = Partial(frame.size, frame.at, sent)
    BY <1>1, <1>2, <1>5, CurrentIs DEF c, Held, Over
  <2>2. c.made
    BY <2>1, PartialMade
  <2>3. m = Receiver!append(Partial(frame.size, frame.at, sent), data)
    BY <2>1, <2>2
  <2> DEFINE e == Receiver!append(Partial(frame.size, frame.at, sent), data)
  <2>4. /\ e.made /\ e.body = Receiver!Names(frame.at + n, sent)
        /\ frame.at + n < frame.size => e = Partial(frame.size, frame.at + n, sent)
    BY <1>2, <1>5, AppendPartial
  <2> HIDE DEF m, e
  <2> QED BY <2>3, <2>4 DEF e
<1>6. ASSUME ~frame.asked, frame.at + n <= frame.size PROVE m = Receiver!NoMessage
  BY <1>2, <1>6, CurrentIs, PartialMade DEF c, Held, Over
<1>7. \/ m = Receiver!NoMessage
      \/ receiver # None /\ "message" \in cbs[receiver] /\ Leftover(m)
  <2>1. CASE c = Receiver!NoMessage
    BY <2>1, PartialMade
  <2>2. CASE receiver # None /\ "message" \in cbs[receiver] /\ Leftover(c)
    <3> HIDE DEF data
    <3>1. Leftover(Receiver!append(c, data))
      BY <1>4, <2>2, LeftoverAppend
    <3> QED BY <2>2, <3>1
  <2> QED BY <2>1, <2>2, CurrentIs DEF c
<1> HIDE DEF m, data
<1>8. CASE left = n
  <2>1. frame.at + n = frame.size /\ ~Over /\ left' \in Int
    BY <1>1, <1>2, <1>8 DEF Over
  <2>2. frame.asked => m.made /\ m.body = Receiver!Names(frame.size, sent)
    <3>1. frame.at + n <= frame.size
      BY <1>2, <2>1
    <3>2. frame.asked => m.made /\ m.body = Receiver!Names(frame.at + n, sent)
      BY <1>5, <3>1, Zenon
    <3> QED BY <2>1, <3>2
  <2> QED BY <1>1, <1>3, <1>8, <2>1, <2>2, CompleteStep
<1>9. CASE left # n
  <2>1. /\ message' = Receiver!Set(receiver, m) /\ parts' = done
        /\ frame' = [frame EXCEPT !.at = @ + n] /\ UNCHANGED <<receiver, got>>
    BY <1>1, <1>9
  <2>2. frame'.stage = "body" /\ frame'.at = frame.at + n /\ frame'.size = frame.size
        /\ frame'.asked = frame.asked
    BY <1>1, <1>2, <2>1, Zenon
  <2>3. frame.at + n # frame.size /\ left' \in Int /\ left' = frame.size - (frame.at + n)
    BY <1>1, <1>2, <1>9
  <2>4. FrameInv'
    <3>1. frame' \in [stage : {"begin", "header", "body"}, to : Receiver!Receivers \cup {None},
                      size : Sizes \cup {0}, at : Nat, asked : BOOLEAN]
      BY <1>2, <2>1
    <3>2. frame'.at # frame'.size /\ left' = frame'.size - frame'.at
      BY <1>1, <1>2, <2>2, <2>3
    <3>3. frame'.asked => receiver' # None /\ "message" \in cbs'[receiver']
      BY <1>1, <2>1, <2>2 DEF ReceiverInv, FrameInv
    <3> QED BY <2>2, <3>1, <3>2, <3>3 DEF FrameInv
  <2>5. (Over => Over') /\ (~Over' => frame.at + n < frame.size)
    BY <1>2, <2>2, <2>3 DEF Over
  <2>6. ~Over' => m = Held'
    BY <1>1, <1>2, <1>5, <1>6, <2>2, <2>5 DEF Held
  <2> QED BY <1>1, <1>3, <1>7, <2>1, <2>3, <2>4, <2>5, <2>6, GoesOn
<1> QED BY <1>8, <1>9

\* A step of another part leaves the receivers alone.
LEMMA ReceiverFrame == ReceiverInv /\ UNCHANGED receiverVars => ReceiverInv'
  BY DEF ReceiverInv, FrameInv, Held, Over, Rests, Leftover, Receiver!MessagesIntact, receiverVars

\* Every frame and every registration keeps the invariant.
LEMMA ReceiverStep == ReceiverInv /\ Receiver!Next => ReceiverInv'
<1> SUFFICES ASSUME ReceiverInv, Receiver!Next PROVE ReceiverInv'
  OBVIOUS
<1>1. ASSUME NEW r \in Receiver!Receivers, NEW m \in ReceiverMethods, Receiver!Register(r, m)
      PROVE ReceiverInv'
  BY <1>1, RegisterStep
<1>2. ASSUME NEW r \in Receiver!Receivers, Receiver!Install(r) \/ Receiver!Uninstall(r)
      PROVE ReceiverInv'
  BY <1>2, RegisterStep
<1>3. ASSUME NEW r \in Receiver!Receivers, Receiver!Empty(r) PROVE ReceiverInv'
  BY <1>3, EmptyStep
<1>4. ASSUME NEW r \in Receiver!Receivers, NEW n \in Sizes, Receiver!Begin(r, n)
      PROVE ReceiverInv'
  BY <1>4, BeginStep
<1>5. CASE Receiver!Header
  BY <1>5, HeaderStep
<1>6. ASSUME NEW n, Receiver!Body(n) PROVE ReceiverInv'
  BY <1>6, BodyStep
<1> QED BY <1>1, <1>2, <1>3, <1>4, <1>5, <1>6 DEF Receiver!Next

\* Who registered for messages gets each one whole, however the broker cuts it into
\* frames, and a body never outgrows its message (message.h:95-130).
THEOREM MessagesIntactHolds == Spec => []MessagesIntact
<1>1. Init => ReceiverInv
  BY ReceiverInit DEF Init
<1>2. ReceiverInv /\ [Next]_vars => ReceiverInv'
  BY ReceiverStep, ReceiverFrame DEF Next, vars
<1>3. ReceiverInv => MessagesIntact
  BY ReceiverImplies
<1> QED BY <1>1, <1>2, <1>3, PTL DEF Spec

-----------------------------------------------------------------------------
(* The types, and what answers find.                                       *)

\* The state has its type, and each answer of the broker finds the callbacks of its own
\* instruction, whatever callbacks did before (channelimpl.h:643-672).
THEOREM AnswersMeetCallbacksHolds == Spec => []AnswersMeetCallbacks
<1> DEFINE Inv == ChannelPart /\ ReceiverInv /\ MonitorInv /\ ConnectionInv
<1>1. Init => Inv
  BY ChannelInit, ReceiverInit, MonitorInit, ConnectionInit DEF Init
<1>2. Inv /\ [Next]_vars => Inv'
  <2> SUFFICES ASSUME Inv, [Next]_vars PROVE Inv'
    OBVIOUS
  <2>1. ChannelPart'
    BY ChannelStep
  <2>2. ReceiverInv'
    BY ReceiverStep, ReceiverFrame DEF Next, vars
  <2>3. MonitorInv'
    BY MonitorStep, MonitorFrame DEF Next, vars
  <2>4. ConnectionInv'
    BY ConnectionStep, ConnectionFrame DEF Next, vars
  <2> QED BY <2>1, <2>2, <2>3, <2>4
<1>3. Inv => AnswersMeetCallbacks
  <2> SUFFICES ASSUME Inv PROVE AnswersMeetCallbacks
    OBVIOUS
  <2>1. Receiver!TypeOK /\ Monitors!TypeOK /\ Connection!TypeOK
    BY ReceiverImplies DEF MonitorInv, ConnectionInv
  <2>2. CASE part = "wide"
    <3>1. WideChannel!TypeOK /\ WideChannel!AnswersMeetCallbacks
      BY <2>2, WideSame, WideProofs!MeetsCallbacks DEF ChannelPart, WideProofs!ChannelInv
    <3> QED BY <2>1, <2>2, <3>1 DEF AnswersMeetCallbacks, TypeOK
  <2>3. CASE part # "wide"
    <3>1. LongChannel!TypeOK /\ LongChannel!AnswersMeetCallbacks
      BY <2>3, LongSame, LongProofs!MeetsCallbacks DEF ChannelPart, LongProofs!ChannelInv
    <3> QED BY <2>1, <2>3, <3>1 DEF AnswersMeetCallbacks, TypeOK
  <2> QED BY <2>2, <2>3
<1> HIDE DEF Inv
<1> QED BY <1>1, <1>2, <1>3, PTL DEF Spec
=============================================================================
