---------------------------- MODULE LibEvHandler ----------------------------
(***************************************************************************)
(* AMQP::LibEvHandler (libev.h): a wrapper per connection with its         *)
(* I/O watchers and one timer, which first bounds the time for setting up  *)
(* the connection, and then sends heartbeats and finds out that the server *)
(* is silent.  Times are in half seconds.                                  *)
(*                                                                         *)
(* libev is external: a timer that does not repeat stops when it expires,  *)
(* ev_timer_again starts, moves or stops one by its repeat value, starting *)
(* and stopping count references of the loop.  The loop serves a timer at  *)
(* most MaxLate after it is due.                                           *)
(***************************************************************************)
EXTENDS TcpConnection, Integers

CONSTANTS ConnectTimeout,   \* the time reserved for setting up a connection
          Timeouts,         \* the timeouts a server may suggest, in seconds
          MaxLate,          \* how late the loop may serve a timer
          MaxTime           \* bound: the end of time

VARIABLES now,      \* ev_now
          wrap,     \* _wrappers: by connection
          timer,    \* libev's active timers: by connection, at and repeat
          refs,     \* references the timers have taken from the loop
          ready,    \* TcpConnection::ready
          closing,  \* was close() called, with or without `immediate'?
          beat,     \* when the last heartbeat was sent, or the timeout negotiated
          heard     \* when the server was last heard since then, -1: never

timeVars == <<now, wrap, timer, refs, ready, closing, beat, heard>>
vars     == <<tcpVars, timeVars>>

Init == /\ TcpInit
        /\ now = 0 /\ refs = 0
        /\ wrap = [c \in {} |-> 0] /\ timer = [c \in {} |-> 0]
        /\ ready = [c \in Conn |-> FALSE] /\ closing = [c \in Conn |-> "no"]
        /\ beat = [c \in Conn |-> 0] /\ heard = [c \in Conn |-> -1]

HalfTimeout(t) == 2 * (IF t \div 2 > 1 THEN t \div 2 ELSE 1)
Least(a, b)    == IF a < b THEN a ELSE b
Most(a, b)     == IF a > b THEN a ELSE b

Put(m, c, x)  == [d \in DOMAIN m \cup {c} |-> IF d = c THEN x ELSE m[d]]
Drop(m, c)    == [d \in DOMAIN m \ {c} |-> m[d]]

\* ev_timer_again, with the repeat value r; it may be negative when a heartbeat
\* is overdue, and the timer is then due at once.
TimerAgain(c, r) ==
  IF r = 0
  THEN /\ timer' = Drop(timer, c)
       /\ refs' = IF c \in DOMAIN timer THEN refs - 1 ELSE refs
  ELSE /\ timer' = Put(timer, c, [at |-> now + r, repeat |-> r])
       /\ refs' = IF c \in DOMAIN timer THEN refs ELSE refs + 1

-----------------------------------------------------------------------------
\* A new Wrapper starts its timer and gives the reference back.
NewWrap == [next |-> 0, expire |-> now + ConnectTimeout, timeout |-> 0,
            fds |-> [f \in Fd |-> {}]]

lookup(c) == IF c \in DOMAIN wrap THEN wrap[c] ELSE NewWrap

\* Wrapper::monitor keeps one watcher per descriptor.
monitor(c, f, ks) ==
  /\ wrap' = Put(wrap, c, [lookup(c) EXCEPT !.fds[f] = ks])
  /\ timer' = IF c \in DOMAIN wrap THEN timer
              ELSE Put(timer, c, [at |-> now + ConnectTimeout, repeat |-> 0])
  /\ UNCHANGED <<now, refs, ready, closing, beat, heard>>

Ask(c) == \E f \in Fd :
            \/ \E ks \in SUBSET Kinds : (Open(c, f, ks) \/ Idle(c, f, ks)) /\ monitor(c, f, ks)
            \/ Shut(c, f) /\ monitor(c, f, {})

\* onNegotiate and Wrapper::start, from within process(): libev has served a timer
\* that is due before, so the time for setting up is not over.
start(c, t) ==
  /\ c \in DOMAIN wrap /\ closing[c] = "no" /\ now < wrap[c].expire
  /\ Negotiate(c)
  /\ LET next == now + HalfTimeout(t)
     IN  IF t = 0
         THEN UNCHANGED <<wrap, timer, refs>>
         ELSE /\ wrap' = [wrap EXCEPT ![c].timeout = t, ![c].next = next]
              /\ TimerAgain(c, Least(next, wrap[c].expire) - now)
  /\ beat' = [beat EXCEPT ![c] = now]
  /\ UNCHANGED <<now, ready, closing, heard>>

\* The login handshake is complete.
Ready(c) == /\ phase[c] = "negotiated" /\ closing[c] = "no" /\ ~ready[c]
            /\ ready' = [ready EXCEPT ![c] = TRUE]
            /\ UNCHANGED <<tcpVars, now, wrap, timer, refs, closing, beat, heard>>

\* What the handler does not react to, onDetached without a wrapper included.
Ignored(c) == /\ \/ Construct(c) \/ Connected(c) \/ Lost(c)
                 \/ Detach(c) /\ c \notin DOMAIN wrap
              /\ UNCHANGED timeVars

\* Mutant: the timer is not stopped.
DetachOnly(c) ==
  /\ Detach(c) /\ c \in DOMAIN wrap
  /\ wrap' = Drop(wrap, c)
  /\ UNCHANGED <<now, timer, refs, ready, closing, beat, heard>>

\* onDetached and ~Wrapper.
onDetached(c) ==
  /\ Detach(c) /\ c \in DOMAIN wrap
  /\ IF wrap[c].timeout = 0
     THEN UNCHANGED <<timer, refs>>
     ELSE /\ timer' = Drop(timer, c)
          /\ refs' = IF c \in DOMAIN timer THEN refs ELSE refs + 1
  /\ wrap' = Drop(wrap, c)
  /\ UNCHANGED <<now, ready, closing, beat, heard>>

-----------------------------------------------------------------------------
\* Wrapper::onActive
onActive(c, f, ev) ==
  /\ c \in DOMAIN wrap /\ ev # {} /\ ev \subseteq wrap[c].fds[f]
  /\ Begin(c, f, ev)
  /\ IF wrap[c].timeout # 0 /\ "readable" \in ev
     THEN /\ wrap' = [wrap EXCEPT ![c].expire = now + 3 * wrap[c].timeout]
          /\ heard' = [heard EXCEPT ![c] = now]
     ELSE UNCHANGED <<wrap, heard>>
  /\ UNCHANGED <<now, timer, refs, ready, closing, beat>>

processed == End /\ UNCHANGED timeVars

\* A timer of a wrapper is due.
Due(c) == /\ call = {} /\ c \in DOMAIN timer \cap DOMAIN wrap
          /\ timer[c].at <= now

\* Wrapper::onExpired before a timeout is negotiated.
SetupExpired(c) ==
  /\ Due(c) /\ wrap[c].timeout = 0
  /\ timer' = Drop(timer, c)
  /\ IF ready[c]
     THEN UNCHANGED <<refs, closing>>
     ELSE refs' = refs - 1 /\ closing' = [closing EXCEPT ![c] = "immediate"]
  /\ UNCHANGED <<tcpVars, now, wrap, ready, beat, heard>>

\* Mutant: the expiry is not looked at.
SilentAlways(c) ==
  /\ Due(c) /\ wrap[c].timeout # 0
  /\ closing' = [closing EXCEPT ![c] = "asked"]
  /\ UNCHANGED <<tcpVars, now, wrap, timer, refs, ready, beat, heard>>

\* Wrapper::onExpired afterwards: the server was silent for too long ...
Silent(c) ==
  /\ Due(c) /\ wrap[c].timeout # 0 /\ now >= wrap[c].expire
  /\ closing' = [closing EXCEPT ![c] = "asked"]
  /\ timer' = [timer EXCEPT ![c].at = now + Most(timer[c].repeat, 0)]
  /\ UNCHANGED <<tcpVars, now, wrap, refs, ready, beat, heard>>

\* Mutant: heartbeats are sent once in a timeout.
BeatRarely(c) ==
  /\ Due(c) /\ wrap[c].timeout # 0 /\ now < wrap[c].expire
  /\ LET due  == now >= wrap[c].next
         next == wrap[c].next + IF due THEN 2 * HalfTimeout(wrap[c].timeout) ELSE 0
     IN  /\ wrap' = [wrap EXCEPT ![c].next = next]
         /\ beat' = IF due THEN [beat EXCEPT ![c] = now] ELSE beat
         /\ TimerAgain(c, Least(next, wrap[c].expire) - now)
  /\ UNCHANGED <<tcpVars, now, ready, closing, heard>>

\* Mutant: the timer is set for the next heartbeat only.
BeatBlind(c) ==
  /\ Due(c) /\ wrap[c].timeout # 0 /\ now < wrap[c].expire
  /\ LET due  == now >= wrap[c].next
         next == wrap[c].next + IF due THEN HalfTimeout(wrap[c].timeout) ELSE 0
     IN  /\ wrap' = [wrap EXCEPT ![c].next = next]
         /\ beat' = IF due THEN [beat EXCEPT ![c] = now] ELSE beat
         /\ TimerAgain(c, next - now)
  /\ UNCHANGED <<tcpVars, now, ready, closing, heard>>

\* ... or a heartbeat may be due, and the timer is set for what comes first.
Beat(c) ==
  /\ Due(c) /\ wrap[c].timeout # 0 /\ now < wrap[c].expire
  /\ LET due  == now >= wrap[c].next
         next == wrap[c].next + IF due THEN HalfTimeout(wrap[c].timeout) ELSE 0
     IN  /\ wrap' = [wrap EXCEPT ![c].next = next]
         /\ beat' = IF due THEN [beat EXCEPT ![c] = now] ELSE beat
         /\ TimerAgain(c, Least(next, wrap[c].expire) - now)
  /\ UNCHANGED <<tcpVars, now, ready, closing, heard>>

Tick == /\ now < MaxTime /\ call = {}
        /\ \A c \in DOMAIN timer \cap DOMAIN wrap : now < timer[c].at + MaxLate
        /\ now' = now + 1
        /\ UNCHANGED <<tcpVars, wrap, timer, refs, ready, closing, beat, heard>>

\* The loop tells of a descriptor that can be read.
Readable(f) == \E c \in Conn, ev \in SUBSET Kinds : "readable" \in ev /\ onActive(c, f, ev)

Next == \/ \E c \in Conn : \/ Ask(c) \/ Ready(c) \/ Ignored(c) \/ onDetached(c)
                           \/ SetupExpired(c) \/ Silent(c) \/ Beat(c)
                           \/ \E t \in Timeouts : start(c, t)
                           \/ \E f \in Fd, ev \in SUBSET Kinds : onActive(c, f, ev)
        \/ processed \/ Tick

Spec == Init /\ [][Next]_vars

-----------------------------------------------------------------------------
\* The type of the state.
TypeOK == /\ TcpTypeOK
          /\ now \in 0..MaxTime /\ refs \in Int
          /\ DOMAIN wrap \subseteq Conn
          /\ \A c \in DOMAIN wrap :
               wrap[c] \in [next : Nat, expire : Nat, timeout : Timeouts \cup {0},
                            fds : [Fd -> SUBSET Kinds]]
          /\ DOMAIN timer \subseteq Conn
          /\ \A c \in DOMAIN timer : timer[c] \in [at : Int, repeat : Int]
          /\ ready \in [Conn -> BOOLEAN]
          /\ closing \in [Conn -> {"no", "asked", "immediate"}]
          /\ beat \in [Conn -> 0..MaxTime] /\ heard \in [Conn -> -1..MaxTime]

Negotiated(c) == c \in DOMAIN wrap /\ wrap[c].timeout # 0

\* Between two heartbeats, and until the first, never more than half the timeout
\* passes, but for the lateness of the loop: "A heartbeat must be sent every
\* _timeout / 2 seconds" (libev.h:196, 252-265).
BeatsInTime == \A c \in Conn :
  Negotiated(c) /\ closing[c] = "no"
    => now - beat[c] <= HalfTimeout(wrap[c].timeout) + MaxLate

\* A server that is silent for one and a half timeouts, or that does not let the
\* connection get ready in time, has its connection closed (libev.h:225-249).
SilenceCloses == \A c \in DOMAIN wrap :
  closing[c] = "no" /\ (Negotiated(c) \/ ~ready[c])
    => now <= MaxLate + IF heard[c] >= 0 THEN heard[c] + 3 * wrap[c].timeout
                        ELSE wrap[c].expire

\* A connection is closed for silence only if its server was silent for one and
\* a half timeouts, or has not said a word in the time for setting it up
\* (libev.h:249, 279).
KeepsLivePeer == \A c \in Conn :
  closing[c] = "no" /\ closing'[c] = "asked" /\ heard[c] >= 0
    => now - heard[c] >= 3 * wrap[c].timeout

\* A timer whose wrapper is gone, and the reference of the loop it stands for, are
\* left only by a connection that was never told a timeout; the others stop their
\* timer and restore the count (libev.h:322-334).
TimersExplained ==
  /\ \A c \in DOMAIN timer \ DOMAIN wrap : timer[c].repeat = 0
  /\ DOMAIN wrap = {} /\ DOMAIN timer = {} /\ refs # 0
       => \E c \in Conn : closing[c] = "immediate"

=============================================================================
