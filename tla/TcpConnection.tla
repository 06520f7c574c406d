--------------------------- MODULE TcpConnection ---------------------------
(***************************************************************************)
(* AMQP::TcpConnection as an event loop's handler sees it                  *)
(* (linux_tcp/tcpconnection.h, tcphandler.h): which descriptors it asks to *)
(* be monitored, and the calls that mark the phases of its life.  The      *)
(* bodies of its methods are not in the repository; here they may call     *)
(* the handler in any order that the contract of TcpHandler allows, from   *)
(* within process() or outside.                                            *)
(***************************************************************************)
CONSTANTS Conn, Fd, None

ASSUME TcpAssumption == None \notin Conn

Kinds == {"readable", "writable"}

VARIABLES phase,   \* "new", "opened", "connected", "negotiated", "lost", "gone"
          owner,   \* the connection that has the descriptor open, or None
          asked,   \* the kinds of event it last asked to be told of
          call     \* the process() call under way, {} if none

tcpVars == <<phase, owner, asked, call>>

Call == [conn : Conn, fd : Fd, ev : SUBSET Kinds]

TcpInit == /\ phase = [c \in Conn |-> "new"]
           /\ owner = [f \in Fd |-> None]
           /\ asked = [f \in Fd |-> {}]
           /\ call = {}

Alive(c) == phase[c] \in {"opened", "connected", "negotiated"}
Owns(c)  == {f \in Fd : owner[f] = c}

To(c, p) == /\ phase' = [phase EXCEPT ![c] = p]
            /\ UNCHANGED <<owner, asked, call>>

-----------------------------------------------------------------------------
\* The constructor, and onAttached.
Construct(c) == phase[c] = "new" /\ To(c, "opened")

\* A state of the connection opens a descriptor, first of the resolver and then
\* the socket.
Open(c, f, ks) ==
  /\ Alive(c) /\ owner[f] = None /\ Owns(c) = {} /\ ks # {}
  /\ owner' = [owner EXCEPT ![f] = c]
  /\ asked' = [asked EXCEPT ![f] = ks]
  /\ UNCHANGED <<phase, call>>

\* onIdle with other events.
Idle(c, f, ks) ==
  /\ Alive(c) /\ owner[f] = c /\ ks # {}
  /\ asked' = [asked EXCEPT ![f] = ks]
  /\ UNCHANGED <<phase, owner, call>>

\* onIdle without events, and close of the descriptor.
Shut(c, f) ==
  /\ Alive(c) /\ owner[f] = c
  /\ owner' = [owner EXCEPT ![f] = None]
  /\ asked' = [asked EXCEPT ![f] = {}]
  /\ UNCHANGED <<phase, call>>

Connected(c) == phase[c] = "opened" /\ Owns(c) # {} /\ To(c, "connected")
Negotiate(c) == phase[c] = "connected" /\ Owns(c) # {} /\ To(c, "negotiated")

\* onLost follows every onConnected, once the descriptor is closed.
Lost(c) == phase[c] \in {"connected", "negotiated"} /\ Owns(c) = {} /\ To(c, "lost")

\* The end of the destructor, and onDetached.
Detach(c) == phase[c] \in {"opened", "lost"} /\ Owns(c) = {} /\ To(c, "gone")

-----------------------------------------------------------------------------
\* process(fd, ev); calls of the handler happen between its begin and its end.
Begin(c, f, ev) == /\ call = {}
                   /\ call' = {[conn |-> c, fd |-> f, ev |-> ev]}
                   /\ UNCHANGED <<phase, owner, asked>>

End == call # {} /\ call' = {} /\ UNCHANGED <<phase, owner, asked>>

TcpTypeOK == /\ phase \in [Conn -> {"new", "opened", "connected", "negotiated", "lost", "gone"}]
             /\ owner \in [Fd -> Conn \cup {None}]
             /\ asked \in [Fd -> SUBSET Kinds]
             /\ call \in SUBSET Call
=============================================================================
