--------------------------- MODULE LibEventHandler ---------------------------
(***************************************************************************)
(* AMQP::LibEventHandler (libevent.h), the handler the program uses: one   *)
(* persistent event per monitored descriptor, and the heartbeat timer this *)
(* repository added, kept in a map by the address of the connection.       *)
(*                                                                         *)
(* libevent is external: it calls back for an event that is added, with    *)
(* some of its flags, and never for one that was deleted.                  *)
(***************************************************************************)
EXTENDS TcpConnection, Integers

CONSTANT AddressReuse   \* may a connection be built where another one was?

VARIABLES watchers,   \* _watchers: the connection and the flags of each event
          timers,     \* _timer_events: "none" (no entry), "added", "freed"
          beats,      \* did this connection send a heartbeat?
          twice       \* was an event freed a second time?

vars == <<tcpVars, watchers, timers, beats, twice>>

Init == /\ TcpInit
        /\ watchers = [f \in {} |-> {}]
        /\ timers = [c \in Conn |-> "none"]
        /\ beats = [c \in Conn |-> FALSE]
        /\ twice = FALSE

Map(f, w) == [g \in DOMAIN watchers \cup {f} |-> IF g = f THEN w ELSE watchers[g]]

\* Mutant: events() adds the new flags to the old ones.
MonitorMore(c, f, ks) ==
  watchers' = IF ks = {} THEN [g \in DOMAIN watchers \ {f} |-> watchers[g]]
              ELSE Map(f, [conn |-> c,
                           kinds |-> ks \cup IF f \in DOMAIN watchers THEN watchers[f].kinds ELSE {}])

\* Mutant: changing the events leaves the event deleted.
MonitorOnce(c, f, ks) ==
  watchers' = IF ks = {} \/ f \in DOMAIN watchers
              THEN [g \in DOMAIN watchers \ {f} |-> watchers[g]]
              ELSE Map(f, [conn |-> c, kinds |-> ks])

\* A watcher that exists keeps the connection it was built with.
monitor(c, f, ks) ==
  watchers' = IF ks = {} THEN [g \in DOMAIN watchers \ {f} |-> watchers[g]]
              ELSE Map(f, [conn |-> IF f \in DOMAIN watchers THEN watchers[f].conn ELSE c,
                           kinds |-> ks])

-----------------------------------------------------------------------------
\* The connection's calls, and what the handler does in each.
Ask(c) ==
  /\ \E f \in Fd :
       \/ \E ks \in SUBSET Kinds : (Open(c, f, ks) \/ Idle(c, f, ks)) /\ monitor(c, f, ks)
       \/ Shut(c, f) /\ monitor(c, f, {})
  /\ UNCHANGED <<timers, beats, twice>>

\* The default of TcpHandler: nothing.
Ignored(c) == /\ Construct(c) \/ Connected(c) \/ Detach(c)
              /\ UNCHANGED <<watchers, timers, beats, twice>>

\* Mutant: an entry that is there is taken for a timer.
NegotiateOnce(c) ==
  /\ Negotiate(c)
  /\ timers' = [timers EXCEPT ![c] = IF @ = "none" THEN "added" ELSE @]
  /\ UNCHANGED <<watchers, beats, twice>>

onNegotiate(c) ==
  /\ Negotiate(c)
  /\ timers' = [timers EXCEPT ![c] = "added"]
  /\ UNCHANGED <<watchers, beats, twice>>

\* Mutant: the timer outlives the connection.
LostKeeps(c) == Lost(c) /\ UNCHANGED <<watchers, timers, beats, twice>>

\* The entry stays in the map.
onLost(c) ==
  /\ Lost(c)
  /\ timers' = [timers EXCEPT ![c] = IF @ = "none" THEN @ ELSE "freed"]
  /\ twice' = (twice \/ timers[c] = "freed")
  /\ UNCHANGED <<watchers, beats>>

\* The allocator hands out the address of a connection that is gone.
Reuse(c) == /\ AddressReuse /\ phase[c] = "gone"
            /\ To(c, "new")
            /\ beats' = [beats EXCEPT ![c] = FALSE]
            /\ UNCHANGED <<watchers, timers, twice>>

-----------------------------------------------------------------------------
\* Watcher::callback.
callback(f, ev) ==
  /\ f \in DOMAIN watchers /\ ev # {} /\ ev \subseteq watchers[f].kinds
  /\ Begin(watchers[f].conn, f, ev)
  /\ UNCHANGED <<watchers, timers, beats, twice>>

processed == End /\ UNCHANGED <<watchers, timers, beats, twice>>

timerCallback(c) ==
  /\ timers[c] = "added" /\ call = {}
  /\ beats' = [beats EXCEPT ![c] = TRUE]
  /\ UNCHANGED <<tcpVars, watchers, timers, twice>>

Next == \/ \E c \in Conn : \/ Ask(c) \/ Ignored(c) \/ onNegotiate(c) \/ onLost(c)
                           \/ Reuse(c) \/ timerCallback(c)
        \/ \E f \in Fd, ev \in SUBSET Kinds : callback(f, ev)
        \/ processed

Spec == Init /\ [][Next]_vars

\* The loop tells of a descriptor that can be read.
Readable(f) == \E ev \in SUBSET Kinds : "readable" \in ev /\ callback(f, ev)

-----------------------------------------------------------------------------
\* The type of the state.
TypeOK == /\ TcpTypeOK
          /\ DOMAIN watchers \subseteq Fd
          /\ \A f \in DOMAIN watchers : watchers[f] \in [conn : Conn, kinds : (SUBSET Kinds) \ {{}}]
          /\ timers \in [Conn -> {"none", "added", "freed"}]
          /\ beats \in [Conn -> BOOLEAN] /\ twice \in BOOLEAN

\* A timer that may fire belongs to a connection that exists, for its callback
\* dereferences the raw pointer, and heartbeats follow the negotiation, also of a
\* connection that is built where another one was (libevent.h:178-210).
TimersLive == \A c \in Conn : /\ timers[c] = "added" => Alive(c)
                            /\ beats[c] => phase[c] \in {"negotiated", "lost", "gone"}

\* A timer that was freed is freed again only for a connection that was lost before
\* it negotiated, at the address of an earlier one (libevent.h:186-193).
FreedAgain == twice' /\ ~twice => \E c \in Conn : phase[c] = "connected" /\ timers[c] = "freed"
=============================================================================
