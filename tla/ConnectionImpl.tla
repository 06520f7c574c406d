--------------------------- MODULE ConnectionImpl ---------------------------
(***************************************************************************)
(* The AMQP connection (connection.h, connectionimpl.h): its handshake and *)
(* its end, while the program's handler (connectionhandler.h) may call     *)
(* back into it, fail it or destroy it.  The methods whose bodies are not  *)
(* in the repository (parse, close, fail, sendClose, setReady, add) do     *)
(* here what their declarations and comments say.                          *)
(***************************************************************************)
EXTENDS Integers, Sequences, FiniteSets

CONSTANTS FrameSizes,   \* the frame sizes a server may ask for
          MaxWord,      \* 2^32, cut down: one more than the largest uint32_t
          Overhead,     \* the 8 octets around the payload of a frame
          Intervals,    \* heartbeat intervals
          MaxQueue      \* bound: instructions

VARIABLES state,      \* _state
          closed,     \* _closed: close() has been called
          alive,      \* the object exists
          running,    \* setProtocolOk waits for onProperties to return
          watched,    \* its monitor is valid
          maxFrame,   \* _maxFrame, or the default
          beat,       \* the heartbeat interval that was agreed on
          queue,      \* _queue: instructions that wait for the connection
          sent,       \* instructions sent
          told,       \* what the handler was told, in order
          touched     \* the object was written to after its end

vars == <<state, closed, alive, running, watched, maxFrame, beat, queue, sent, told, touched>>

DefaultFrame == MaxWord - 1

Init == /\ state = "protocol" /\ closed = FALSE /\ alive = TRUE
        /\ running = FALSE /\ watched = FALSE
        /\ maxFrame = DefaultFrame /\ beat = 0
        /\ queue = 0 /\ sent = 0 /\ told = <<>> /\ touched = FALSE

-----------------------------------------------------------------------------
(* Questions.                                                              *)

protocolOk == state \in {"handshake", "connected"}
ready      == state = "connected"
closing    == state = "closing"

usable == state \in {"protocol", "handshake", "connected"} /\ ~closed

\* Mutant: the end-of-frame octet is forgotten.
PayloadLarge(frame) == (frame - (Overhead - 1)) % MaxWord

maxPayload(frame) == (frame - Overhead) % MaxWord

-----------------------------------------------------------------------------
(* Frames of the server.                                                   *)

Quiet == alive /\ ~running     \* the event loop calls parse() from outside

\* The server starts: setProtocolOk up to the callback.
setProtocolOk == /\ Quiet /\ state = "protocol" /\ "start" \notin {told[i] : i \in 1..Len(told)}
                 /\ running' = TRUE /\ watched' = TRUE
                 /\ told' = Append(told, "start")
                 /\ UNCHANGED <<state, closed, alive, maxFrame, beat, queue, sent, touched>>

\* Mutant: the state is not looked at again.
ReturnsAlways == /\ running /\ running' = FALSE /\ watched' = FALSE
                 /\ state' = IF watched THEN "handshake" ELSE state
                 /\ touched' = (touched \/ (~alive /\ watched))
                 /\ UNCHANGED <<closed, alive, maxFrame, beat, queue, sent, told>>

\* Mutant: the monitor is not asked.
ReturnsUnwatched == /\ running /\ running' = FALSE /\ watched' = FALSE
                    /\ state' = IF state = "protocol" THEN "handshake" ELSE state
                    /\ touched' = (touched \/ (~alive /\ state = "protocol"))
                    /\ UNCHANGED <<closed, alive, maxFrame, beat, queue, sent, told>>

\* ... and from the return of onProperties.
propertiesReturns ==
  /\ running /\ running' = FALSE /\ watched' = FALSE
  /\ state' = IF watched /\ state = "protocol" THEN "handshake" ELSE state
  /\ touched' = (touched \/ (~alive /\ watched))
  /\ UNCHANGED <<closed, alive, maxFrame, beat, queue, sent, told>>

setCapacity(channels, size) == maxFrame' = size

\* ConnectionHandler::onNegotiate by default, or a handler that accepts.
onNegotiate(interval) == {0, interval}

\* The server tunes: capacity and heartbeat.
Tune(size, interval) ==
  /\ Quiet /\ state = "handshake" /\ "tune" \notin {told[i] : i \in 1..Len(told)}
  /\ setCapacity(MaxWord, size)
  /\ beat' \in onNegotiate(interval)
  /\ told' = Append(told, "tune")
  /\ UNCHANGED <<state, closed, alive, running, watched, queue, sent, touched>>

\* The server opens: setReady, which flushes the queue, and closes if close() was
\* called meanwhile.
setReady == /\ Quiet /\ state = "handshake" /\ "tune" \in {told[i] : i \in 1..Len(told)}
            /\ state' = IF closed THEN "closing" ELSE "connected"
            /\ sent' = sent + queue /\ queue' = 0
            /\ told' = Append(told, "ready")
            /\ UNCHANGED <<closed, alive, running, watched, maxFrame, beat, touched>>

\* The server answers our close frame.
reportClosed == /\ Quiet /\ state = "closing"
                /\ state' = "closed" /\ told' = Append(told, "closed")
                /\ UNCHANGED <<closed, alive, running, watched, maxFrame, beat, queue, sent, touched>>

\* A frame that does not match, or the server closes: reportError.
reportError == /\ Quiet /\ state # "closed"
               /\ state' = "closed" /\ told' = Append(told, "error") /\ queue' = 0
               /\ UNCHANGED <<closed, alive, running, watched, maxFrame, beat, sent, touched>>

-----------------------------------------------------------------------------
(* The program, from within a callback or not.                             *)

\* An instruction on a channel: at once, or when the connection is set up.
Send == /\ alive /\ usable /\ sent + queue < MaxQueue
        /\ IF state = "connected" THEN sent' = sent + 1 /\ UNCHANGED queue
           ELSE queue' = queue + 1 /\ UNCHANGED sent
        /\ UNCHANGED <<state, closed, alive, running, watched, maxFrame, beat, told, touched>>

close == /\ alive /\ ~closed
         /\ closed' = TRUE
         /\ state' = IF ready THEN "closing" ELSE state
         /\ UNCHANGED <<alive, running, watched, maxFrame, beat, queue, sent, told, touched>>

fail == /\ alive /\ state # "closed"
        /\ state' = "closed" /\ queue' = 0
        /\ UNCHANGED <<closed, alive, running, watched, maxFrame, beat, sent, told, touched>>

Destroy == /\ alive /\ alive' = FALSE /\ watched' = FALSE
           /\ UNCHANGED <<state, closed, running, maxFrame, beat, queue, sent, told, touched>>

Next == \/ setProtocolOk \/ propertiesReturns \/ setReady \/ reportClosed \/ reportError
        \/ \E n \in FrameSizes, i \in Intervals : Tune(n, i)
        \/ Send \/ close \/ fail \/ Destroy

Spec == Init /\ [][Next]_vars

-----------------------------------------------------------------------------
\* The type of the state.
TypeOK == /\ state \in {"protocol", "handshake", "connected", "closing", "closed"}
          /\ {closed, alive, running, watched, touched} \subseteq BOOLEAN
          /\ maxFrame \in FrameSizes \cup {DefaultFrame} /\ beat \in Intervals \cup {0}
          /\ queue \in Nat /\ sent \in Nat /\ sent + queue <= MaxQueue

Rank(s) == CASE s = "protocol" -> 1 [] s = "handshake" -> 2 [] s = "connected" -> 3
             [] s = "closing" -> 4 [] s = "closed" -> 5

\* A connection never goes back, and one that has stopped being usable stays so,
\* even when the handler fails or closes it from within onProperties
\* (connectionimpl.h:205-218, 254-257).
Forward == Rank(state') >= Rank(state) /\ (~usable => ~usable')

\* No method writes to a connection that its own callback destroyed
\* (connectionimpl.h:214).
DeadIsUntouched == ~touched

\* Whatever size the server asks for, a frame with the largest payload is no larger
\* than agreed, and a payload fits at all: so for the sizes of the protocol, and for
\* 0, which means no limit (connectionimpl.h:307-311).
PayloadFits == maxFrame = 0 \/ maxFrame > Overhead =>
  /\ maxPayload(maxFrame) > 0
  /\ maxFrame > 0 => maxPayload(maxFrame) + Overhead <= maxFrame
=============================================================================
