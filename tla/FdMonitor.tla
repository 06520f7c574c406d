------------------------------ MODULE FdMonitor ------------------------------
(***************************************************************************)
(* What TcpHandler::monitor promises (tcphandler.h): process() is called   *)
(* for a descriptor only on behalf of the connection that owns it at that  *)
(* moment, and only with events that it asked for last.  A handler may     *)
(* report an error of the descriptor as both kinds of event.               *)
(***************************************************************************)
CONSTANTS Conn, Fd, None

VARIABLES owner, asked, call,
          errorsAsBoth   \* is this such a handler?

vars == <<owner, asked, call, errorsAsBoth>>

Kinds == {"readable", "writable"}

Init == /\ owner = [f \in Fd |-> None]
        /\ asked = [f \in Fd |-> {}]
        /\ call = {}
        /\ errorsAsBoth \in BOOLEAN

\* What a connection asks for changes at any time.
Ask(f) == \E c \in Conn \cup {None}, ks \in SUBSET Kinds :
            /\ owner' = [owner EXCEPT ![f] = c]
            /\ asked' = [asked EXCEPT ![f] = ks]
            /\ c = None <=> ks = {}
            /\ UNCHANGED <<call, errorsAsBoth>>

Process(f, ev) ==
  /\ call = {} /\ owner[f] \in Conn
  /\ ev # {} /\ (ev \subseteq asked[f] \/ (errorsAsBoth /\ ev = Kinds))
  /\ call' = {[conn |-> owner[f], fd |-> f, ev |-> ev]}
  /\ UNCHANGED <<owner, asked, errorsAsBoth>>

Done == call # {} /\ call' = {} /\ UNCHANGED <<owner, asked, errorsAsBoth>>

Next == \/ \E f \in Fd : Ask(f)
        \/ \E f \in Fd, ev \in SUBSET Kinds : Process(f, ev)
        \/ Done

Spec == Init /\ [][Next]_vars
=============================================================================
