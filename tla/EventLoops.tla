----------------------------- MODULE EventLoops -----------------------------
(***************************************************************************)
(* A program links AMQP-CPP with the handler of one event loop: this one   *)
(* with LibEventHandler, others with libev, libuv or boost::asio.  Each of *)
(* the four handlers serves the same TcpConnection, and each must keep     *)
(* what TcpHandler::monitor promises.                                      *)
(*                                                                         *)
(* A behaviour is one of one handler, which the initial state chooses.     *)
(***************************************************************************)
EXTENDS TcpConnection, Integers

CONSTANTS AddressReuse,                  \* of LibEventHandler
          MaxWatchers, MaxOps,           \* of LibBoostAsioHandler
          MaxPolls,                      \* of LibUvHandler
          TimedConn, ConnectTimeout, Timeouts, MaxLate, MaxTime   \* of LibEvHandler

ASSUME LoopsAssumption ==
  /\ Fd # {} /\ AddressReuse \in BOOLEAN
  /\ MaxWatchers \in Nat /\ MaxOps \in Nat /\ MaxPolls \in Nat
  /\ TimedConn \subseteq Conn /\ ConnectTimeout \in Nat \ {0}
  /\ Timeouts \subseteq Nat /\ MaxLate \in Nat /\ MaxTime \in Nat

VARIABLES loop,   \* the event loop the program was built for
          eventWatchers, timers, beats, twice,
          asioWatchers, built, fdOf, want, pending, ops, running, strand,
          uvWatchers, polls, handle,
          now, wrap, timer, refs, ready, closing, beat, heard

eventVars == <<eventWatchers, timers, beats, twice>>
asioVars  == <<asioWatchers, built, fdOf, want, pending, ops, running, strand>>
uvVars    == <<uvWatchers, polls, handle>>
evVars    == <<now, wrap, timer, refs, ready, closing, beat, heard>>
vars      == <<loop, tcpVars, eventVars, asioVars, uvVars, evVars>>

LibEvent == INSTANCE LibEventHandler WITH watchers <- eventWatchers
Asio     == INSTANCE LibBoostAsioHandler WITH watchers <- asioWatchers
LibUv    == INSTANCE LibUvHandler WITH watchers <- uvWatchers
LibEv    == INSTANCE LibEvHandler WITH Conn <- TimedConn

\* The handlers that are not built are in some fixed state.
NoEvent == eventWatchers = <<>> /\ timers = <<>> /\ beats = <<>> /\ twice = FALSE
NoAsio  == /\ asioWatchers = <<>> /\ built = 0 /\ fdOf = <<>> /\ want = <<>>
           /\ pending = <<>> /\ ops = <<>> /\ running = {} /\ strand = FALSE
NoUv    == uvWatchers = <<>> /\ polls = 0 /\ handle = <<>>
NoEv    == /\ now = 0 /\ wrap = <<>> /\ timer = <<>> /\ refs = 0
           /\ ready = <<>> /\ closing = <<>> /\ beat = <<>> /\ heard = <<>>

Init == \/ loop = "libevent" /\ LibEvent!Init /\ NoAsio /\ NoUv /\ NoEv
        \/ loop = "asio"     /\ Asio!Init /\ NoEvent /\ NoUv /\ NoEv
        \/ loop = "libuv"    /\ LibUv!Init /\ NoEvent /\ NoAsio /\ NoEv
        \/ loop = "libev"    /\ LibEv!Init /\ NoEvent /\ NoAsio /\ NoUv

Next == \/ loop = "libevent" /\ LibEvent!Next /\ UNCHANGED <<loop, asioVars, uvVars, evVars>>
        \/ loop = "asio"     /\ Asio!Next     /\ UNCHANGED <<loop, eventVars, uvVars, evVars>>
        \/ loop = "libuv"    /\ LibUv!Next    /\ UNCHANGED <<loop, eventVars, asioVars, evVars>>
        \/ loop = "libev"    /\ LibEv!Next    /\ UNCHANGED <<loop, eventVars, asioVars, uvVars>>

Spec == Init /\ [][Next]_vars

\* process() returns, and ...
Returned == \/ loop = "libevent" /\ LibEvent!processed /\ UNCHANGED <<loop, asioVars, uvVars, evVars>>
            \/ loop = "asio"     /\ Asio!Rearm      /\ UNCHANGED <<loop, eventVars, uvVars, evVars>>
            \/ loop = "libuv"    /\ LibUv!processed /\ UNCHANGED <<loop, eventVars, asioVars, evVars>>
            \/ loop = "libev"    /\ LibEv!processed /\ UNCHANGED <<loop, eventVars, asioVars, uvVars>>

\* ... the loop serves a descriptor that can be read again and again.
Readable(f) == \/ loop = "libevent" /\ LibEvent!Readable(f) /\ UNCHANGED <<loop, asioVars, uvVars, evVars>>
               \/ loop = "asio"     /\ Asio!Readable(f)  /\ UNCHANGED <<loop, eventVars, uvVars, evVars>>
               \/ loop = "libuv"    /\ LibUv!Readable(f) /\ UNCHANGED <<loop, eventVars, asioVars, evVars>>
               \/ loop = "libev"    /\ LibEv!Readable(f) /\ UNCHANGED <<loop, eventVars, asioVars, uvVars>>

FairSpec == Spec /\ WF_vars(Returned) /\ \A f \in Fd : SF_vars(Readable(f))

-----------------------------------------------------------------------------
\* The type of the state.
TypeOK == /\ loop \in {"libevent", "asio", "libuv", "libev"}
          /\ loop = "libevent" => LibEvent!TypeOK
          /\ loop = "asio"     => Asio!TypeOK
          /\ loop = "libuv"    => LibUv!TypeOK
          /\ loop = "libev"    => LibEv!TypeOK

Monitor == INSTANCE FdMonitor WITH errorsAsBoth <- loop = "libuv"

\* process() is called for what the owner of the descriptor asked for last, and for
\* nothing else, although descriptors pass from one connection to the next, flags
\* change within process(), and completions are queued for watchers that are gone
\* (libevent.h:54-68, 153-177; libboostasio.h:178-306; libuv.h:61-70, 133-159;
\* libev.h:274-283, 382-408).
MonitorsWhatIsAsked == Monitor!Spec

\* A descriptor that a connection keeps asking to read is read again and again, as
\* long as the handler exists (libevent.h:153-177, libboostasio.h:189-199).
ReadsGoOn == \A f \in Fd :
  (\E c \in Conn : <>[](owner[f] = c /\ "readable" \in asked[f] /\ (loop = "asio" => strand)))
     => []<>(\E k \in call : k.fd = f /\ "readable" \in k.ev)

\* The state has its type, and what the loop may call back has its owner, and an owner
\* its callback.  A timer of libevent that may fire belongs to a connection that
\* exists (libevent.h:178-210); only a connection without a timeout leaves its libev
\* timer (libev.h:322-334); of libuv exactly the watchers in the map have a handle
\* that may call back (libuv.h:80-116); with asio no wake-up is lost while process()
\* changes flags (libboostasio.h:189-199).
CallbacksOwned == /\ TypeOK
                  /\ loop = "libevent" => LibEvent!TimersLive
                  /\ loop = "asio"     => Asio!ArmedWhenAsked
                  /\ loop = "libuv"    => LibUv!HandlesOwned
                  /\ loop = "libev"    => LibEv!TimersExplained

\* A timer that was freed is freed again only for a connection that was lost before
\* it negotiated, at the address of an earlier one (libevent.h:186-193).
FreedAgainExplained == [][loop = "libevent" => LibEvent!FreedAgain]_vars

\* With libev heartbeats come in time, but for the lateness of the loop, and a silent
\* server has its connection closed, but no other one has (libev.h:225-265, 279).
HeartbeatsKept ==
  /\ [](loop = "libev" => LibEv!BeatsInTime /\ LibEv!SilenceCloses)
  /\ [][loop = "libev" => LibEv!KeepsLivePeer]_vars
=============================================================================
