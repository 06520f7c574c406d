------------------------- MODULE LibBoostAsioHandler -------------------------
(***************************************************************************)
(* AMQP::LibBoostAsioHandler (libboostasio.h): a watcher per descriptor    *)
(* that starts an asynchronous wait for each kind of event, and starts it  *)
(* again when it has completed.  A completion may be queued when its       *)
(* watcher is gone; a weak pointer tells.  The class Timer is left out:    *)
(* nothing creates one.                                                    *)
(*                                                                         *)
(* boost::asio is external: a wait completes some time, with an error if   *)
(* the watcher has released its descriptor, and the strand runs one        *)
(* completion at a time.                                                   *)
(***************************************************************************)
EXTENDS TcpConnection, Naturals, Functions

CONSTANTS MaxWatchers,   \* bound: watchers ever built
          MaxOps         \* bound: waits started for one kind by one watcher

Watcher == 1..MaxWatchers

VARIABLES watchers,   \* _watchers: the watcher of each descriptor, 0 if none
          built,      \* watchers built so far
          fdOf,       \* the descriptor of each watcher
          want,       \* _read, _write
          pending,    \* _read_pending, _write_pending
          ops,        \* waits started, by watcher, kind and bound connection
          running,    \* the handler that is in process(): {} or <<watcher, kind>>
          strand      \* is the handler object, and its strand, alive?

vars == <<tcpVars, watchers, built, fdOf, want, pending, ops, running, strand>>

Init == /\ TcpInit
        /\ watchers = [f \in Fd |-> 0] /\ built = 0
        /\ fdOf \in [Watcher -> {CHOOSE f \in Fd : TRUE}]
        /\ want = [w \in Watcher |-> {}] /\ pending = [w \in Watcher |-> {}]
        /\ ops = [o \in Watcher \X Kinds \X Conn |-> 0]
        /\ running = {} /\ strand = TRUE

\* Is awpWatcher.lock() not null?  A handler in process() holds its watcher.
Locked(w) == w \in Range(watchers) \/ \E k \in Kinds : <<w, k>> \in running

-----------------------------------------------------------------------------
\* Watcher::events
events(w, c, ks) ==
  /\ want' = [want EXCEPT ![w] = ks]
  /\ pending' = [pending EXCEPT ![w] = @ \cup ks]
  /\ ops' = [o \in DOMAIN ops |->
               IF o[1] = w /\ o[3] = c /\ o[2] \in ks \ pending[w] THEN ops[o] + 1 ELSE ops[o]]

monitor(c, f, ks) ==
  \/ /\ watchers[f] = 0 /\ ks # {} /\ built < MaxWatchers
     /\ built' = built + 1
     /\ fdOf' = [fdOf EXCEPT ![built + 1] = f]
     /\ watchers' = [watchers EXCEPT ![f] = built + 1]
     /\ events(built + 1, c, ks)
  \/ /\ watchers[f] # 0 /\ ks = {}
     /\ watchers' = [watchers EXCEPT ![f] = 0]
     /\ UNCHANGED <<built, fdOf, want, pending, ops>>
  \/ /\ watchers[f] # 0 /\ ks # {}
     /\ events(watchers[f], c, ks)
     /\ UNCHANGED <<watchers, built, fdOf>>

\* The connection asks; the bound is on the waits that run after it.
Ask(c) ==
  /\ strand
  /\ \E f \in Fd : \/ \E ks \in SUBSET Kinds : (Open(c, f, ks) \/ Idle(c, f, ks)) /\ monitor(c, f, ks)
                   \/ Shut(c, f) /\ monitor(c, f, {})
  /\ \A o \in DOMAIN ops : ops'[o] + (IF <<o[1], o[2]>> \in running THEN 1 ELSE 0) <= MaxOps
  /\ UNCHANGED <<running, strand>>

\* The default of TcpHandler: nothing.  What else it is told of makes no difference.
Ignored(c) == /\ Construct(c) \/ Detach(c)
              /\ UNCHANGED <<watchers, built, fdOf, want, pending, ops, running, strand>>

\* ~LibBoostAsioHandler
Destroy == /\ strand /\ call = {}
           /\ strand' = FALSE
           /\ watchers' = [f \in Fd |-> 0]
           /\ UNCHANGED <<tcpVars, built, fdOf, want, pending, ops, running>>

-----------------------------------------------------------------------------
\* read_handler and write_handler, dispatched by get_dispatch_wrapper: up to
\* the call of process() ...
Handler(w, k, c) ==
  /\ call = {} /\ ops[<<w, k, c>>] > 0
  /\ ops' = [ops EXCEPT ![<<w, k, c>>] = @ - 1]
  /\ pending' = IF Locked(w) THEN [pending EXCEPT ![w] = @ \ {k}] ELSE pending
  /\ IF Locked(w) /\ strand /\ k \in want[w]
     THEN Begin(c, fdOf[w], {k}) /\ running' = {<<w, k>>}
     ELSE UNCHANGED <<tcpVars, running>>
  /\ UNCHANGED <<watchers, built, fdOf, want, strand>>

\* Mutant: the wait is not started again.
RearmNot ==
  /\ running # {}
  /\ End /\ running' = {}
  /\ UNCHANGED <<watchers, built, fdOf, want, strand, pending, ops>>

\* ... and the rest, which starts the next wait.
Rearm ==
  \E k \in call : \E r \in running :
    /\ End /\ running' = {}
    /\ pending' = [pending EXCEPT ![r[1]] = @ \cup {r[2]}]
    /\ ops' = [ops EXCEPT ![<<r[1], r[2], k.conn>>] = @ + 1]
    /\ UNCHANGED <<watchers, built, fdOf, want, strand>>

\* The loop tells of a descriptor that can be read.
Readable(f) == \E w \in Watcher, c \in Conn : fdOf[w] = f /\ Handler(w, "readable", c)

Next == \/ \E c \in Conn : Ask(c) \/ Ignored(c)
        \/ \E w \in Watcher, k \in Kinds, c \in Conn : Handler(w, k, c)
        \/ Rearm \/ Destroy

Spec == Init /\ [][Next]_vars

-----------------------------------------------------------------------------
\* The type of the state.
TypeOK == /\ TcpTypeOK
          /\ watchers \in [Fd -> 0..built] /\ built \in 0..MaxWatchers
          /\ fdOf \in [Watcher -> Fd]
          /\ want \in [Watcher -> SUBSET Kinds] /\ pending \in [Watcher -> SUBSET Kinds]
          /\ ops \in [Watcher \X Kinds \X Conn -> 0..MaxOps]
          /\ running \subseteq Watcher \X Kinds /\ strand \in BOOLEAN
          /\ call # {} <=> running # {}

\* While a connection asks for a kind of event, a wait for it is under way or
\* will be started by the handler that runs: no wake-up is lost, however
\* process() changes the flags (libboostasio.h:189-199, 281-305).
ArmedWhenAsked ==
  strand => \A f \in Fd : \A k \in asked[f] :
    LET w == watchers[f]
    IN  w # 0 /\ (<<w, k>> \in running \/ \E c \in Conn : ops[<<w, k, c>>] > 0)

=============================================================================
