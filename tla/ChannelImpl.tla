----------------------------- MODULE ChannelImpl -----------------------------
(***************************************************************************)
(* AMQP::Channel and AMQP::ChannelImpl (channel.h, channelimpl.h): the     *)
(* instructions of the program, the frames that wait for earlier answers,  *)
(* and the list of result objects by which an answer finds its callbacks.  *)
(*                                                                         *)
(* Callbacks belong to the program: between the begin and the end of a     *)
(* report it may call any method of the channel, drop the channel or the   *)
(* connection, and fail the connection, which begins a second report       *)
(* inside the first.  The methods whose bodies are not in the repository   *)
(* (push, send, onSynchronized, reportError, close, fail) are modelled as  *)
(* their comments and the inline methods use them.                         *)
(***************************************************************************)
EXTENDS Deferred, FiniteSets

CONSTANTS Methods,    \* the instructions the program gives
          Chains,     \* the methods it calls on their results, in order
          Handle,     \* Channel objects; one is constructed at first
          First,
          Failures,   \* may the channel and the connection fail?
          MaxOps      \* bound: the number of instructions

VARIABLES state, attached, synchronous, queue, oldest, newest,
          ops,       \* the result objects ever made, by number
          next,      \* _next of each, 0 for none
          wire,      \* frames sent that the broker has not answered
          run,       \* the report under way
          under,     \* the one that it interrupted
          connection,   \* "up", "failing" while fail() runs, "failed" after it
          struck,    \* the result whose callback called fail()
          alive,     \* does the ChannelImpl exist?
          handles    \* the Channel objects

implVars == <<state, attached, synchronous, queue, oldest, newest, wire>>
failVars == <<under, connection, struck>>
vars     == <<implVars, ops, next, run, failVars, alive, handles>>

\* Which result each instruction returns.
ExchangeCalls    == {"declareExchange", "removeExchange", "bindExchange", "unbindExchange"}
QueueCalls       == {"bindQueue", "unbindQueue"}
TransactionCalls == {"startTransaction", "commitTransaction", "rollbackTransaction"}
FlowCalls        == {"pause", "resume", "setQos", "recover"}
Acknowledgements == {"ack", "reject"}

ClassOf(m) == CASE m \in ExchangeCalls \cup QueueCalls \cup TransactionCalls \cup FlowCalls
                                    -> "Deferred"
                [] m = "confirmSelect" -> "Confirm"
                [] m = "declareQueue"  -> "Queue"
                [] m \in {"purgeQueue", "removeQueue"} -> "Delete"
                [] m = "consume"       -> "Consumer"
                [] m = "cancel"        -> "Cancel"
                [] m = "get"           -> "Get"
                [] OTHER               -> "none"

Idle  == [what |-> "idle", op |-> 0]
Frame == [op : 0..(MaxOps + 1), what : {"open", "call", "close", "send"}]

\* The constructor attaches the channel, which sends the frame that opens it.
Init == /\ state = "connected" /\ attached = TRUE /\ synchronous = TRUE
        /\ queue = <<>> /\ oldest = 0 /\ newest = 0
        /\ ops = <<>> /\ next = <<>>
        /\ wire = <<[op |-> 0, what |-> "open"]>>
        /\ run = Idle /\ under = Idle /\ connection = "up" /\ struck = 0 /\ alive = TRUE
        /\ handles = [h \in Handle |-> IF h = First THEN "holds" ELSE "none"]

usable  == state \in {"connected", "ready"}
waiting == synchronous \/ queue # <<>>

\* The results that a shared_ptr keeps: those that the reports under way hold, those
\* of the list, and what follows them.
Following(i) == LET f[j \in 0..Len(next)] == IF j = 0 THEN {} ELSE {j} \cup f[next[j]]
                IN  f[i]
Kept == UNION {Following(i) : i \in {run.op, under.op} \cup
                                    (IF alive THEN {oldest, newest} ELSE {})}

\* The results that no pointer holds after the step are forgotten.
Collected(o) == [i \in 1..Len(o) |->
                   IF i \in Kept \ Kept' /\ o[i].class # "none" THEN Forgotten(o[i]) ELSE o[i]]

-----------------------------------------------------------------------------
(* Instructions.                                                           *)

Sends == state # "closed" /\ attached

\* send: while the channel is closing it only pretends.
send(what, op) ==
  LET f == [op |-> op, what |-> what]
  IN  CASE ~usable -> UNCHANGED <<queue, wire, synchronous>>
        [] usable /\ ~attached -> UNCHANGED <<queue, wire, synchronous>>
        [] usable /\ attached /\ waiting ->
             queue' = Append(queue, f) /\ UNCHANGED <<wire, synchronous>>
        [] OTHER -> /\ wire' = Append(wire, f) /\ synchronous' = (what # "send")
                    /\ UNCHANGED queue

\* push: the result goes to the end of the list, failed or not.
push(op) ==
  /\ oldest' = IF oldest = 0 THEN op ELSE oldest
  /\ next' = [i \in 1..op |-> IF i = op THEN 0 ELSE IF i = newest THEN op ELSE next[i]]
  /\ newest' = op

Chained(d, methods) ==
  LET f[i \in 0..Len(methods)] ==
        IF i = 0 THEN d ELSE Register(f[i - 1], methods[i], i)
  IN  f[Len(methods)]

Holder == \E h \in Handle : handles[h] = "holds"

Instruct(m, methods) ==
  LET op == Len(ops) + 1
  IN  /\ Holder /\ alive /\ op <= MaxOps /\ ClassOf(m) # "none"
      /\ push(op) /\ send("call", op)
      /\ UNCHANGED <<state, attached, run, failVars, alive, handles>>
      /\ ops' = Collected(Append(ops, Chained(Make(ClassOf(m), ~Sends), methods)))

\* ack, reject: a frame without an answer.
Acknowledge(m) ==
  LET op == Len(ops) + 1
  IN  /\ Holder /\ alive /\ op <= MaxOps /\ m \in Acknowledgements
      /\ ops' = Append(ops, Make("none", FALSE)) /\ next' = Append(next, 0)
      /\ send("send", op)
      /\ UNCHANGED <<state, attached, oldest, newest, run, failVars, alive, handles>>

\* ChannelImpl::close; its frame is sent after those that wait.
CloseImpl ==
  LET op == Len(ops) + 1
  IN  /\ alive
      /\ IF usable /\ attached
         THEN /\ op <= MaxOps + 1
              /\ ops' = Append(ops, Make("Deferred", FALSE))
              /\ push(op) /\ send("close", op)
              /\ state' = "closing"
         ELSE UNCHANGED <<ops, next, oldest, newest, queue, wire, synchronous, state>>
      /\ UNCHANGED <<attached, run, failVars, alive>>

close == Holder /\ usable /\ CloseImpl /\ UNCHANGED handles

\* ~Channel
DestroyChannel(h) == /\ handles[h] = "holds" /\ CloseImpl
                     /\ handles' = [handles EXCEPT ![h] = "gone"]

\* The move constructor; the destructor of the source dereferences its pointer.
Move(h, k) == /\ handles[h] = "holds" /\ handles[k] = "none"
              /\ handles' = [handles EXCEPT ![h] = "null", ![k] = "holds"]
              /\ UNCHANGED <<implVars, ops, next, run, failVars, alive>>

DestroyMoved(h) == /\ handles[h] = "null"
                   /\ handles' = [handles EXCEPT ![h] = "crashed"]
                   /\ UNCHANGED <<implVars, ops, next, run, failVars, alive>>

detach == /\ alive /\ attached
          /\ attached' = FALSE /\ wire' = <<>>
          /\ UNCHANGED <<state, synchronous, queue, oldest, newest, ops, next, run, failVars,
                         alive, handles>>

\* Without Channel and connection nothing keeps the object, and the results it
\* lists go with it, but for those that reports under way hold.
Destroy == /\ alive /\ ~Holder /\ ~attached
           /\ alive' = FALSE
           /\ UNCHANGED <<implVars, next, run, failVars, handles>>
           /\ ops' = Collected(ops)

-----------------------------------------------------------------------------
(* Reports.                                                                *)

Answer(what) == /\ run = Idle /\ alive /\ attached /\ wire # <<>>
                /\ wire[1].what = what
                /\ wire' = Tail(wire)

\* onSynchronized: frames are sent up to the next that is answered.
Calls(q) == {i \in 1..Len(q) : q[i].what # "send"}
Sent(q)  == IF Calls(q) = {} THEN Len(q)
            ELSE CHOOSE i \in Calls(q) : \A j \in Calls(q) : i <= j

onSynchronized ==
  IF attached /\ state # "closed"
  THEN /\ wire' = wire \o SubSeq(queue, 1, Sent(queue))
       /\ queue' = SubSeq(queue, Sent(queue) + 1, Len(queue))
       /\ synchronous' = (Calls(queue) # {})
  ELSE synchronous' = FALSE /\ UNCHANGED <<wire, queue>>

Take == /\ Answer("send")
        /\ UNCHANGED <<state, attached, synchronous, queue, oldest, newest, ops, next, run,
                       failVars, alive, handles>>

reportReady ==
  /\ Answer("open")
  /\ state' = IF state = "connected" THEN "ready" ELSE state
  /\ synchronous' = (synchronous /\ queue # <<>>)
  /\ run' = [what |-> "ready", op |-> 0]
  /\ UNCHANGED <<attached, queue, oldest, newest, ops, next, failVars, alive, handles>>

\* Mutant: the frames that wait are not sent.
ReadyOnly ==
  /\ run.what = "ready" /\ run' = Idle
  /\ UNCHANGED <<implVars, ops, next, failVars, alive, handles>>

\* Mutant: the monitor is not asked whether the channel still exists.
ReadyUnwatched ==
  /\ run.what = "ready" /\ run' = Idle /\ onSynchronized
  /\ UNCHANGED <<state, attached, oldest, newest, ops, next, failVars, alive, handles>>

readyReturns ==
  /\ run.what = "ready" /\ run' = Idle
  /\ IF alive THEN onSynchronized ELSE UNCHANGED <<wire, queue, synchronous>>
  /\ UNCHANGED <<state, attached, oldest, newest, ops, next, failVars, alive, handles>>

\* ChannelImpl::reportSuccess up to the callback.
Report(what) ==
  /\ run' = [what |-> what, op |-> oldest]
  /\ synchronous' = (synchronous /\ (oldest = 0 \/ queue # <<>>))
  /\ ops' = IF oldest = 0 THEN ops ELSE [ops EXCEPT ![oldest] = Answered(@)]

channelSuccess ==
  /\ Answer("call") /\ Report("success")
  /\ UNCHANGED <<state, attached, queue, oldest, newest, next, failVars, alive, handles>>

\* Mutant of the rest: the list always loses its end.
AdvanceCuts == run.op # 0 /\ oldest' = next[run.op] /\ newest' = 0

\* ... and after it.
Advance ==
  IF run.op = 0 THEN UNCHANGED <<oldest, newest>>
  ELSE /\ oldest' = next[run.op]
       /\ newest' = IF next[run.op] = 0 THEN 0 ELSE newest

successReturns ==
  /\ run.what = "success" /\ run' = Idle
  /\ IF alive THEN Advance /\ onSynchronized
     ELSE UNCHANGED <<oldest, newest, wire, queue, synchronous>>
  /\ UNCHANGED <<state, attached, next, failVars, alive, handles>>
  /\ ops' = Collected(ops)

\* reportClosed, up to the callback of close().
reportClosed ==
  /\ Answer("close") /\ Report("closed")
  /\ state' = "closed"
  /\ UNCHANGED <<attached, queue, oldest, newest, next, failVars, alive, handles>>

\* The report ends, and the one that it interrupted goes on.
Back == /\ run' = under /\ under' = Idle
        /\ connection' = IF connection = "failing" THEN "failed" ELSE connection

\* reportError tells the head of the list, and goes on when the callback returns.
Tell(op) ==
  IF op = 0 THEN Back /\ ops' = Collected(ops)
  ELSE /\ run' = [what |-> "error", op |-> op] /\ UNCHANGED <<under, connection>>
       /\ ops' = Collected([ops EXCEPT ![op] = reportError(@)])

\* Mutant: later results are not told that the channel is closed.
ClosedOnly ==
  /\ run.what = "closed" /\ run' = Idle
  /\ IF alive THEN Advance ELSE UNCHANGED <<oldest, newest>>
  /\ UNCHANGED <<state, attached, queue, wire, synchronous, next, failVars, alive, handles>>
  /\ ops' = Collected(ops)

closedReturns ==
  /\ run.what = "closed"
  /\ UNCHANGED <<state, attached, wire, next, struck, alive, handles>>
  /\ IF alive
     THEN Advance /\ queue' = <<>> /\ synchronous' = FALSE /\ Tell(oldest')
     ELSE /\ UNCHANGED <<oldest, newest, queue, synchronous>>
          /\ Back /\ ops' = Collected(ops)

\* reportError up to the first callback.
Closes == state' = "closed" /\ synchronous' = FALSE /\ queue' = <<>> /\ wire' = <<>>

\* The broker closes the channel.
reportChannelError ==
  /\ Failures /\ run = Idle /\ alive /\ attached /\ state # "closed"
  /\ Closes
  /\ UNCHANGED <<attached, oldest, newest, next, struck, alive, handles>>
  /\ Tell(oldest)

\* Connection::fail, which works once, from anywhere, also from within a callback of
\* this channel.  A channel that was closed before is not known to the connection.
fail ==
  /\ Failures /\ alive /\ attached /\ connection = "up" /\ (run = Idle => state # "closed")
  /\ Closes /\ struck' = run.op
  /\ IF oldest = 0
     THEN connection' = "failed" /\ UNCHANGED <<run, under, ops>>
     ELSE /\ connection' = "failing" /\ under' = run
          /\ run' = [what |-> "error", op |-> oldest]
          /\ ops' = [ops EXCEPT ![oldest] = reportError(@)]
  /\ UNCHANGED <<attached, oldest, newest, next, alive, handles>>

errorReturns ==
  /\ run.what = "error"
  /\ UNCHANGED <<state, attached, queue, wire, synchronous, next, struck, alive, handles>>
  /\ IF alive THEN Advance /\ Tell(oldest')
     ELSE UNCHANGED <<oldest, newest>> /\ Back /\ ops' = Collected(ops)

Running == \A h \in Handle : handles[h] # "crashed"
Returns == Running /\ (readyReturns \/ successReturns \/ closedReturns \/ errorReturns)
Replies == Running /\ (Take \/ reportReady \/ channelSuccess \/ reportClosed)

Next == /\ Running
        /\ \/ \E m \in Methods : \/ \E s \in Chains : Instruct(m, s)
                                 \/ Acknowledge(m)
           \/ \E h, k \in Handle : Move(h, k)
           \/ \E h \in Handle : DestroyChannel(h) \/ DestroyMoved(h)
           \/ close \/ detach \/ Destroy \/ reportChannelError \/ fail
           \/ Returns \/ Replies

Spec == Init /\ [][Next]_vars

-----------------------------------------------------------------------------
Reports == [what : {"idle", "ready", "success", "closed", "error"}, op : 0..Len(ops)]

\* The type of the state.
TypeOK == /\ state \in {"connected", "ready", "closing", "closed"}
          /\ attached \in BOOLEAN /\ synchronous \in BOOLEAN /\ alive \in BOOLEAN
          /\ oldest \in 0..Len(ops) /\ newest \in 0..Len(ops)
          /\ ops \in Seq(Result) /\ Len(ops) <= MaxOps + 1
          /\ next \in [1..Len(ops) -> 0..Len(ops)]
          /\ queue \in Seq(Frame) /\ wire \in Seq(Frame)
          /\ run \in Reports /\ under \in Reports
          /\ connection \in {"up", "failing", "failed"} /\ struck \in 0..Len(ops)
          /\ handles \in [Handle -> {"none", "holds", "gone", "null", "crashed"}]

\* The frames the broker has not answered, and the places of those it will.
Frames   == wire \o queue
Due      == {p \in 1..Len(Frames) : Frames[p].what \in {"call", "close"}}
ListHead == IF run.op = 0 THEN oldest ELSE next[run.op]

\* The list of results, from its head on, starts with the instructions that are
\* not yet answered, in the order in which the broker will answer them: each
\* answer finds its own callbacks, whatever callbacks did before
\* (channelimpl.h:643-672).
AnswersMeetCallbacks ==
  alive /\ attached /\ state # "closed" =>
    /\ \A p \in Due : (\A q \in Due : p <= q) => ListHead = Frames[p].op
    /\ \A p, q \in Due : p < q /\ (\A r \in Due : r <= p \/ q <= r) =>
                           next[Frames[p].op] = Frames[q].op
    /\ Due = {} /\ state # "closing" => ListHead = 0

\* An instruction succeeds at most once, and one that has succeeded does not fail, but
\* for the one whose own callback fails the connection: it is still the oldest of the
\* list (channelimpl.h:656-668, connection.h:150-169).
OneOutcome == \A i \in 1..Len(ops) :
  LET succeeded == ToldAs(ops[i], {"success", "special"})
  IN  /\ \A j, k \in succeeded : j = k
      /\ succeeded # {} /\ i # struck => ToldAs(ops[i], {"error"}) = {}

Listening(i) == /\ ops[i].cb["error"] # 0
                /\ \E slot \in {"success", "special"} : ops[i].cb[slot] # 0
Dropped      == ~alive \/ ~attached \/ ~Running

\* The result of get() on a channel that is closed: it hides onError, and says nothing.
Mute(i) == ops[i].class = "Get" /\ ops[i].failed

\* When the channel is closed each instruction that has callbacks was told of its
\* success or failure: "all later deferred objects should report an error"
\* (channelimpl.h:625-628).
EveryoneTold ==
  alive /\ state = "closed" /\ run = Idle =>
    \A i \in 1..Len(ops) : Listening(i) /\ ~Mute(i) =>
      ToldAs(ops[i], {"success", "special", "error"}) # {}

\* A channel that a callback has destroyed is not touched any more
\* (channelimpl.h:600, 623, 662).
Untouched == ~alive => UNCHANGED implVars

\* An instruction waits for an answer; it is answered, or fails, or the channel goes
\* away.
Waits(i)   == Len(ops) >= i /\ Listening(i)
Settled(i) == (Len(ops) >= i /\ ops[i].told # <<>>) \/ Dropped

\* An instruction that could not be sent tells its error callback as soon as that is
\* registered; DeferredGet, which hides the method, does not
\* (deferred.h:255-265, deferredget.h:111-118).
FailureTold == \A i \in 1..Len(ops) :
  ops[i].failed /\ ops[i].cb["error"] # 0 /\ ops[i].class # "Get" =>
    ToldAs(ops[i], {"error"}) # {}
=============================================================================
