---------------------------- MODULE LibUvHandler ----------------------------
(***************************************************************************)
(* AMQP::LibUvHandler (libuv.h): a uv_poll_t per monitored descriptor,     *)
(* whose memory is freed by the callback of uv_close, after the watcher.   *)
(*                                                                         *)
(* libuv is external: it calls back for a handle that was started and not  *)
(* stopped, with its events or with an error, and runs each close callback *)
(* once, in a later turn of the loop.                                      *)
(***************************************************************************)
EXTENDS TcpConnection, Naturals, Functions

CONSTANT MaxPolls   \* bound: handles ever created

Poll == 1..MaxPolls

VARIABLES watchers,   \* _watchers: the handle of each descriptor, 0 if none
          polls,      \* handles created so far
          handle      \* each handle: its connection, descriptor, events, state

vars == <<tcpVars, watchers, polls, handle>>

Init == /\ TcpInit
        /\ watchers = [f \in Fd |-> 0] /\ polls = 0
        /\ handle = [p \in {} |-> 0]

\* amqp_to_uv_events and uv_to_amqp_events; an error is reported as both.
ToUv(ks) == {IF k = "readable" THEN "UV_READABLE" ELSE "UV_WRITABLE" : k \in ks}

ToAmqp(status, es) == IF status # 0 THEN Kinds
                      ELSE {k \in Kinds : ToUv({k}) \subseteq es}

NewPoll(c, f, ks) == [conn |-> c, fd |-> f, events |-> ToUv(ks), state |-> "started"]

\* Mutant: a descriptor that is asked for again gets a new handle.
MonitorAnew(c, f, ks) ==
  LET p == watchers[f]
  IN  \/ /\ ks # {} /\ polls < MaxPolls
         /\ polls' = polls + 1
         /\ watchers' = [watchers EXCEPT ![f] = polls + 1]
         /\ handle' = [q \in 1..polls + 1 |->
                         IF q = polls + 1 THEN NewPoll(c, f, ks) ELSE handle[q]]
      \/ /\ p # 0 /\ ks = {}
         /\ watchers' = [watchers EXCEPT ![f] = 0]
         /\ handle' = [handle EXCEPT ![p].state = "closing"]
         /\ UNCHANGED polls

monitor(c, f, ks) ==
  LET p == watchers[f]
  IN  \/ /\ p = 0 /\ ks # {} /\ polls < MaxPolls
         /\ polls' = polls + 1
         /\ watchers' = [watchers EXCEPT ![f] = polls + 1]
         /\ handle' = [q \in 1..polls + 1 |->
                         IF q = polls + 1 THEN NewPoll(c, f, ks) ELSE handle[q]]
      \/ /\ p # 0 /\ ks = {}
         /\ watchers' = [watchers EXCEPT ![f] = 0]
         /\ handle' = [handle EXCEPT ![p].state = "closing"]
         /\ UNCHANGED polls
      \/ /\ p # 0 /\ ks # {}
         /\ handle' = [handle EXCEPT ![p].events = ToUv(ks)]
         /\ UNCHANGED <<polls, watchers>>

Ask(c) == \E f \in Fd :
            \/ \E ks \in SUBSET Kinds : (Open(c, f, ks) \/ Idle(c, f, ks)) /\ monitor(c, f, ks)
            \/ Shut(c, f) /\ monitor(c, f, {})

\* The default of TcpHandler: nothing.  What else it is told of makes no difference.
Ignored(c) == /\ Construct(c) \/ Detach(c)
              /\ UNCHANGED <<watchers, polls, handle>>

-----------------------------------------------------------------------------
\* Watcher::callback, with an error or with some of the events.
callback(p, status, es) ==
  /\ p \in DOMAIN handle /\ handle[p].state = "started"
  /\ status = 0 => es # {} /\ es \subseteq handle[p].events
  /\ Begin(handle[p].conn, handle[p].fd, ToAmqp(status, es))
  /\ UNCHANGED <<watchers, polls, handle>>

processed == End /\ UNCHANGED <<watchers, polls, handle>>

\* The callback of uv_close deletes the handle.
closed(p) == /\ p \in DOMAIN handle /\ handle[p].state = "closing" /\ call = {}
             /\ handle' = [handle EXCEPT ![p].state = "deleted"]
             /\ UNCHANGED <<tcpVars, watchers, polls>>

\* The loop tells of a descriptor that can be read, or has failed.
Readable(f) == \E p \in DOMAIN handle, status \in {0, 1}, es \in SUBSET ToUv(Kinds) :
                 /\ handle[p].fd = f /\ "readable" \in ToAmqp(status, es)
                 /\ callback(p, status, es)

Next == \/ \E c \in Conn : Ask(c) \/ Ignored(c)
        \/ \E p \in Poll : closed(p) \/ \E status \in {0, 1}, es \in SUBSET ToUv(Kinds) : callback(p, status, es)
        \/ processed

Spec == Init /\ [][Next]_vars

-----------------------------------------------------------------------------
\* The type of the state.
TypeOK == /\ TcpTypeOK
          /\ polls \in 0..MaxPolls /\ watchers \in [Fd -> 0..polls]
          /\ handle \in [1..polls -> [conn : Conn, fd : Fd, events : SUBSET ToUv(Kinds),
                                      state : {"started", "closing", "deleted"}]]
          /\ \A k \in call : k.ev # {}

\* The watchers in the map, and only they, have a handle that may still call
\* back: none refers to memory that the close callback has freed, and no handle
\* is left behind without a watcher to close it (libuv.h:80-116, 182-206).
HandlesOwned ==
  \A p \in DOMAIN handle : handle[p].state = "started" <=> p \in Range(watchers)

=============================================================================
