-------------------------------- MODULE Main --------------------------------
(***************************************************************************)
(* main (main.cpp): start-up, the event loop, shutdown, and the signals    *)
(* that may interrupt it at any point.  What the callbacks of the loop do  *)
(* to the sessions is in ProxyServer; here only whether the loop goes on   *)
(* matters.                                                                *)
(*                                                                         *)
(* libevent's loop is external: event_base_dispatch clears the break flag  *)
(* when it starts, tests it before each poll, and a signal interrupts a    *)
(* poll that has begun.  loopbreak, called in the thread of the loop, sets *)
(* the flag and wakes nobody.                                              *)
(***************************************************************************)
EXTENDS Naturals

CONSTANT MaxSignals   \* bound: signals delivered

ASSUME SignalsAssumption == MaxSignals \in Nat

VARIABLES pc,        \* where main is
          base,      \* the event base: "null", "live", "freed"
          run,       \* run
          brk,       \* the event base's break flag
          signals,   \* signals delivered so far
          came       \* the places in main at which they arrived (history)

vars == <<pc, base, run, brk, signals, came>>

Startup  == {"begin", "config", "listen", "channel", "test"}
Loop     == {"check", "enter", "poll", "callbacks"}
Shutdown == {"closing", "stopping", "freeing", "destroying"}
Ended    == {"failed", "exited"}
Places   == Startup \cup {"dispatch"} \cup Loop \cup Shutdown \cup Ended

Init == /\ pc = "begin" /\ base = "null" /\ run = TRUE
        /\ brk = FALSE /\ signals = 0 /\ came = {}

Goto(from, to) == pc = from /\ pc' = to

-----------------------------------------------------------------------------
\* Mutant: the result of event_base_new is not tested.
BaseUntested == /\ Goto("begin", "config")
                /\ base' \in {"null", "live"}
                /\ UNCHANGED <<run, brk, signals, came>>

\* The handlers are installed; event_base_new may fail.
NewBase == /\ \/ Goto("begin", "config") /\ base' = "live"
              \/ Goto("begin", "failed") /\ UNCHANGED base
           /\ UNCHANGED <<run, brk, signals, came>>

\* parseCmdLine and read.
Configure == /\ Goto("config", "listen") \/ Goto("config", "failed")
             /\ UNCHANGED <<base, run, brk, signals, came>>

\* Server::init.
Listen == /\ Goto("listen", "channel") \/ Goto("listen", "failed")
          /\ UNCHANGED <<base, run, brk, signals, came>>

\* The managers, the controller and ControlChannel::start.  AMQP::Address throws
\* if the connection string is none.
StartChannel == /\ Goto("channel", "test") \/ Goto("channel", "failed")
                /\ UNCHANGED <<base, run, brk, signals, came>>

\* Mutant: event_base_dispatch without the test of run.
NoTest == /\ Goto("test", "dispatch")
          /\ UNCHANGED <<base, run, brk, signals, came>>

TestRun == /\ Goto("test", IF run THEN "dispatch" ELSE "closing")
           /\ UNCHANGED <<base, run, brk, signals, came>>

\* event_base_dispatch.
EnterLoop == /\ Goto("dispatch", "check")
             /\ brk' = FALSE
             /\ UNCHANGED <<base, run, signals, came>>

CheckBreak == /\ Goto("check", IF brk THEN "closing" ELSE "enter")
              /\ UNCHANGED <<base, run, brk, signals, came>>

Poll == /\ Goto("enter", "poll")
        /\ UNCHANGED <<base, run, brk, signals, came>>

Event == /\ Goto("poll", "callbacks")
         /\ UNCHANGED <<base, run, brk, signals, came>>

\* Nothing catches an exception that leaves a callback.
Callbacks == /\ Goto("callbacks", "check") \/ Goto("callbacks", "failed")
             /\ UNCHANGED <<base, run, brk, signals, came>>

\* A failing accept: errorCbProxy and the lambda main installs.
AcceptError == /\ Goto("callbacks", "check")
               /\ brk' = TRUE
               /\ UNCHANGED <<base, run, signals, came>>

\* CLOSE_ALL, ControlChannel::stop, event_base_free, the destructors.
CloseAll == Goto("closing", "stopping") /\ UNCHANGED <<base, run, brk, signals, came>>

StopChannel == Goto("stopping", "freeing") /\ UNCHANGED <<base, run, brk, signals, came>>

FreeBase == /\ Goto("freeing", "destroying")
            /\ base' = "freed"
            /\ UNCHANGED <<run, brk, signals, came>>

Return == Goto("destroying", "exited") /\ UNCHANGED <<base, run, brk, signals, came>>

-----------------------------------------------------------------------------
\* Mutant: the handler does not break the loop.
SignalOnlyFlag ==
  /\ signals < MaxSignals /\ pc \notin Ended
  /\ signals' = signals + 1 /\ run' = FALSE
  /\ came' = came \cup {pc}
  /\ pc' = IF pc = "poll" THEN "check" ELSE pc
  /\ UNCHANGED <<base, brk>>

\* sig_handler.  base is not reset when it is freed: what loopbreak then does
\* to the memory is undefined, and may end the process.
SigHandler ==
  /\ signals < MaxSignals /\ pc \notin Ended
  /\ signals' = signals + 1 /\ run' = FALSE
  /\ came' = came \cup {pc}
  /\ brk' = (brk \/ base = "live")
  /\ \/ pc' = IF pc = "poll" THEN "check" ELSE pc
     \/ base = "freed" /\ pc' = "failed"
  /\ UNCHANGED base

\* What main and libevent do by themselves.  An event is not among it: a poll
\* without descriptors that are ready and without a timer lasts for ever, and the
\* only timer, that of the heartbeats, ends with the AMQP connection.
Progress == \/ NewBase \/ Configure \/ Listen \/ StartChannel \/ TestRun
            \/ EnterLoop \/ CheckBreak \/ Poll \/ Callbacks \/ AcceptError
            \/ CloseAll \/ StopChannel \/ FreeBase \/ Return

Next == Progress \/ Event \/ SigHandler

Spec == Init /\ [][Next]_vars

\* main goes on unless it waits for an event.
FairSpec == Spec /\ WF_vars(Progress)

-----------------------------------------------------------------------------
\* What base may be at each point of main.
BaseAt(p) == CASE p = "begin"                     -> {"null"}
               [] p \in {"destroying", "exited"}  -> {"freed"}
               [] p = "failed"                    -> {"null", "live", "freed"}
               [] OTHER                           -> {"live"}

\* The type of the state; the event base is there from its creation until it
\* is freed (main.cpp:66-69, 133).
TypeOK == /\ pc \in Places /\ came \subseteq Places
          /\ base \in BaseAt(pc)
          /\ run \in BOOLEAN /\ brk \in BOOLEAN
          /\ signals \in 0..MaxSignals

\* The loop goes on after a signal without a break pending only if the signal
\* arrived after `run' was tested and before dispatch cleared the flag
\* (main.cpp:36-39, 123-125).
LostOnlyInGap == pc \in Loop /\ ~run /\ ~brk => "dispatch" \in came

\* A signal that ends the program: one outside of the gap, and outside of the
\* moment between the test of the break flag and the poll, whose flag is seen
\* only when an event has ended the poll.
Heard == \/ came \ {"dispatch", "enter"} # {}
         \/ "enter" \in came /\ pc = "callbacks"

\* A signal at start-up, in a poll or in the callbacks ends the program, with no
\* event to help.  One between the test of the break flag and the poll ends it
\* at the next event, should there be one (main.cpp:34-41, 123-134).
SignalEnds == Heard ~> pc \in Ended
=============================================================================
