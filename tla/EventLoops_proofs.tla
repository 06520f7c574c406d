------------------------- MODULE EventLoops_proofs --------------------------
(***************************************************************************)
(* Proofs about the four handlers, for every set of connections and of     *)
(* descriptors and every bound: the callbacks belong to their owners, and  *)
(* each handler implements FdMonitor.                                      *)
(***************************************************************************)
EXTENDS EventLoops, FiniteSets, FiniteSetTheorems, TLAPS

\* A descriptor has an owner as long as something is asked of it.
Opened == \A f \in Fd : owner[f] = None <=> asked[f] = {}

\* A call of the handler's monitor() is a step Ask of FdMonitor.
LEMMA MonitorAsk ==
  ASSUME NEW f \in Fd, NEW c \in Conn \cup {None}, NEW ks \in SUBSET Kinds,
         owner' = [owner EXCEPT ![f] = c], asked' = [asked EXCEPT ![f] = ks],
         c = None <=> ks = {}, call' = call, loop' = loop
  PROVE  [Monitor!Next]_(Monitor!vars)
  BY DEF Monitor!Next, Monitor!Ask, Monitor!vars, Monitor!Kinds, Kinds

\* A call of process() is a step of FdMonitor.
LEMMA MonitorProcess ==
  ASSUME NEW f \in Fd, NEW ev \in SUBSET Kinds, call = {}, owner[f] \in Conn, ev # {},
         ev \subseteq asked[f] \/ (loop = "libuv" /\ ev = Kinds),
         call' = {[conn |-> owner[f], fd |-> f, ev |-> ev]},
         owner' = owner, asked' = asked, loop' = loop
  PROVE  [Monitor!Next]_(Monitor!vars)
  BY DEF Monitor!Next, Monitor!Process, Monitor!Kinds, Kinds

\* So is its return.
LEMMA MonitorDone ==
  ASSUME call # {}, call' = {}, owner' = owner, asked' = asked, loop' = loop
  PROVE  [Monitor!Next]_(Monitor!vars)
  BY DEF Monitor!Next, Monitor!Done

\* Whatever else happens it does not see.
LEMMA MonitorStutters ==
  ASSUME UNCHANGED <<owner, asked, call, loop>>
  PROVE  [Monitor!Next]_(Monitor!vars)
  BY DEF Monitor!vars

-----------------------------------------------------------------------------
\* The tables of LibEventHandler agree with what the connections ask for, and a
\* connection has a timer that may fire exactly while it is negotiated.
EventWatched ==
  \A f \in Fd : /\ f \in DOMAIN eventWatchers <=> owner[f] # None
                /\ f \in DOMAIN eventWatchers =>
                     eventWatchers[f].conn = owner[f] /\ eventWatchers[f].kinds = asked[f]

EventTimers ==
  \A c \in Conn : /\ timers[c] = "added" <=> phase[c] = "negotiated"
                  /\ beats[c] => phase[c] \in {"negotiated", "lost", "gone"}

EventInv == LibEvent!TypeOK /\ Opened /\ EventWatched /\ EventTimers

\* A call of monitor() keeps the tables.
LEMMA EventMonitor ==
  ASSUME EventInv, NEW c \in Conn, NEW f \in Fd, NEW ks \in SUBSET Kinds, NEW o \in Conn \cup {None},
         LibEvent!monitor(c, f, ks), owner' = [owner EXCEPT ![f] = o], asked' = [asked EXCEPT ![f] = ks],
         ks # {} => o = c /\ owner[f] \in {None, c}, ks = {} => o = None,
         UNCHANGED <<phase, call, timers, beats, twice>>
  PROVE  EventInv'
<1> USE TcpAssumption
<1>1. /\ owner \in [Fd -> Conn \cup {None}] /\ asked \in [Fd -> SUBSET Kinds]
      /\ DOMAIN eventWatchers \subseteq Fd
      /\ \A g \in DOMAIN eventWatchers :
           eventWatchers[g] \in [conn : Conn, kinds : (SUBSET Kinds) \ {{}}]
  BY DEF EventInv, LibEvent!TypeOK, LibEvent!TcpTypeOK, LibEvent!Kinds, Kinds
<1>2. owner' \in [Fd -> Conn \cup {None}] /\ asked' \in [Fd -> SUBSET Kinds] /\ Opened'
  BY <1>1 DEF EventInv, Opened
<1>3. /\ ks = {} => eventWatchers' = [g \in DOMAIN eventWatchers \ {f} |-> eventWatchers[g]]
      /\ ks # {} => eventWatchers' = [g \in DOMAIN eventWatchers \cup {f} |->
                       IF g = f THEN [conn |-> c, kinds |-> ks] ELSE eventWatchers[g]]
  BY DEF LibEvent!monitor, LibEvent!Map, EventInv, EventWatched
<1>4. /\ DOMAIN eventWatchers' \subseteq Fd
      /\ \A g \in DOMAIN eventWatchers' :
           eventWatchers'[g] \in [conn : Conn, kinds : (SUBSET Kinds) \ {{}}]
  BY <1>1, <1>3
<1>5. EventWatched'
  BY <1>1, <1>3 DEF EventInv, EventWatched
<1>6. EventTimers'
  BY DEF EventInv, EventTimers
<1>7. LibEvent!TypeOK'
  BY <1>2, <1>4 DEF EventInv, LibEvent!TypeOK, LibEvent!TcpTypeOK, LibEvent!Kinds, Kinds, LibEvent!Call
<1> QED BY <1>2, <1>5, <1>6, <1>7 DEF EventInv

\* Every step of LibEventHandler keeps its invariant, is one of FdMonitor, and frees

\* a timer again only for a connection lost before it negotiated.
LEMMA EventStep ==
  ASSUME EventInv, LibEvent!Next, loop = "libevent", loop' = loop
  PROVE  EventInv' /\ [Monitor!Next]_(Monitor!vars) /\ LibEvent!FreedAgain
<1> USE TcpAssumption
<1>0. /\ phase \in [Conn -> {"new", "opened", "connected", "negotiated", "lost", "gone"}]
      /\ owner \in [Fd -> Conn \cup {None}] /\ asked \in [Fd -> SUBSET Kinds]
      /\ timers \in [Conn -> {"none", "added", "freed"}]
      /\ beats \in [Conn -> BOOLEAN] /\ twice \in BOOLEAN
  BY DEF EventInv, LibEvent!TypeOK, LibEvent!TcpTypeOK, LibEvent!Kinds, Kinds
<1>1. ASSUME NEW c \in Conn, LibEvent!Ask(c) PROVE EventInv' /\ [Monitor!Next]_(Monitor!vars) /\ twice' = twice
  <2>1. PICK f \in Fd, ks \in SUBSET Kinds :
             /\ LibEvent!monitor(c, f, ks)
             /\ LibEvent!Open(c, f, ks) \/ LibEvent!Idle(c, f, ks) \/ (ks = {} /\ LibEvent!Shut(c, f))
    BY <1>1 DEF LibEvent!Ask, LibEvent!Kinds, Kinds
  <2>2. UNCHANGED <<timers, beats, twice>>
    BY <1>1 DEF LibEvent!Ask
  <2>3. PICK o \in Conn \cup {None} :
             /\ owner' = [owner EXCEPT ![f] = o] /\ asked' = [asked EXCEPT ![f] = ks]
             /\ ks # {} => o = c /\ owner[f] \in {None, c}
             /\ ks = {} => o = None
             /\ UNCHANGED <<phase, call>>
    <3>1. CASE LibEvent!Open(c, f, ks)
      BY <3>1 DEF LibEvent!Open
    <3>2. CASE LibEvent!Idle(c, f, ks)
      <4>1. owner' = [owner EXCEPT ![f] = c]
        BY <1>0, <3>2 DEF LibEvent!Idle
      <4> QED BY <3>2, <4>1 DEF LibEvent!Idle
    <3>3. CASE ks = {} /\ LibEvent!Shut(c, f)
      BY <3>3 DEF LibEvent!Shut
    <3> QED BY <2>1, <3>1, <3>2, <3>3
  <2>4. EventInv'
    BY <2>1, <2>2, <2>3, EventMonitor
  <2>5. o = None <=> ks = {}
    BY <2>3
  <2> QED BY <2>2, <2>3, <2>4, <2>5, MonitorAsk
<1>2. ASSUME NEW c \in Conn, UNCHANGED <<owner, asked, call, eventWatchers>>,
             phase' \in [Conn -> {"new", "opened", "connected", "negotiated", "lost", "gone"}],
             timers' \in [Conn -> {"none", "added", "freed"}], beats' \in [Conn -> BOOLEAN],
             twice' \in BOOLEAN, EventTimers'
      PROVE  EventInv' /\ [Monitor!Next]_(Monitor!vars)
  <2>1. EventInv'
    BY <1>2 DEF EventInv, LibEvent!TypeOK, LibEvent!TcpTypeOK, LibEvent!Kinds, LibEvent!Call, Opened, EventWatched
  <2> QED BY <1>2, <2>1, MonitorStutters
<1>3. ASSUME NEW c \in Conn, LibEvent!Ignored(c)
      PROVE  EventInv' /\ [Monitor!Next]_(Monitor!vars) /\ twice' = twice
  <2>1. EventTimers'
    BY <1>0, <1>3 DEF LibEvent!Ignored, LibEvent!Construct, LibEvent!Connected, LibEvent!Detach, LibEvent!To,
       EventInv, EventTimers
  <2>2. phase' \in [Conn -> {"new", "opened", "connected", "negotiated", "lost", "gone"}]
    BY <1>0, <1>3 DEF LibEvent!Ignored, LibEvent!Construct, LibEvent!Connected, LibEvent!Detach, LibEvent!To
  <2>3. UNCHANGED <<owner, asked, call, eventWatchers, timers, beats, twice>>
    BY <1>3 DEF LibEvent!Ignored, LibEvent!Construct, LibEvent!Connected, LibEvent!Detach, LibEvent!To
  <2> QED BY <1>0, <1>2, <2>1, <2>2, <2>3
<1>4. ASSUME NEW c \in Conn, LibEvent!onNegotiate(c)
      PROVE  EventInv' /\ [Monitor!Next]_(Monitor!vars) /\ twice' = twice
  <2>1. EventTimers'
    BY <1>0, <1>4 DEF LibEvent!onNegotiate, LibEvent!Negotiate, LibEvent!To, EventInv, EventTimers
  <2>2. /\ phase' \in [Conn -> {"new", "opened", "connected", "negotiated", "lost", "gone"}]
        /\ timers' \in [Conn -> {"none", "added", "freed"}]
    BY <1>0, <1>4 DEF LibEvent!onNegotiate, LibEvent!Negotiate, LibEvent!To
  <2>3. UNCHANGED <<owner, asked, call, eventWatchers, beats, twice>>
    BY <1>4 DEF LibEvent!onNegotiate, LibEvent!Negotiate, LibEvent!To
  <2> QED BY <1>0, <1>2, <2>1, <2>2, <2>3
<1>5. ASSUME NEW c \in Conn, LibEvent!onLost(c)
      PROVE  EventInv' /\ [Monitor!Next]_(Monitor!vars) /\ LibEvent!FreedAgain
  <2>1. EventTimers'
    BY <1>0, <1>5 DEF LibEvent!onLost, LibEvent!Lost, LibEvent!To, EventInv, EventTimers
  <2>2. /\ phase' \in [Conn -> {"new", "opened", "connected", "negotiated", "lost", "gone"}]
        /\ timers' \in [Conn -> {"none", "added", "freed"}]
    BY <1>0, <1>5 DEF LibEvent!onLost, LibEvent!Lost, LibEvent!To
  <2>3. UNCHANGED <<owner, asked, call, eventWatchers, beats>>
    BY <1>5 DEF LibEvent!onLost, LibEvent!Lost, LibEvent!To
  <2>4. twice' \in BOOLEAN /\ (twice' /\ ~twice => timers[c] = "freed")
    BY <1>5, Zenon DEF LibEvent!onLost
  <2>5. timers[c] = "freed" => phase[c] = "connected"
    BY <1>0, <1>5 DEF LibEvent!onLost, LibEvent!Lost, EventInv, EventTimers
  <2>6. EventInv' /\ [Monitor!Next]_(Monitor!vars)
    BY <1>0, <1>2, <2>1, <2>2, <2>3, <2>4
  <2> QED BY <2>4, <2>5, <2>6 DEF LibEvent!FreedAgain
<1>6. ASSUME NEW c \in Conn, LibEvent!Reuse(c)
      PROVE  EventInv' /\ [Monitor!Next]_(Monitor!vars) /\ twice' = twice
  <2>1. EventTimers'
    BY <1>0, <1>6 DEF LibEvent!Reuse, LibEvent!To, EventInv, EventTimers
  <2>2. /\ phase' \in [Conn -> {"new", "opened", "connected", "negotiated", "lost", "gone"}]
        /\ beats' \in [Conn -> BOOLEAN]
    BY <1>0, <1>6 DEF LibEvent!Reuse, LibEvent!To
  <2>3. UNCHANGED <<owner, asked, call, eventWatchers, timers, twice>>
    BY <1>6 DEF LibEvent!Reuse, LibEvent!To
  <2> QED BY <1>0, <1>2, <2>1, <2>2, <2>3
<1>7. ASSUME NEW c \in Conn, LibEvent!timerCallback(c)
      PROVE  EventInv' /\ [Monitor!Next]_(Monitor!vars) /\ twice' = twice
  <2>1. UNCHANGED <<owner, asked, call, phase, eventWatchers, timers, twice>>
    BY <1>7 DEF LibEvent!timerCallback, LibEvent!tcpVars
  <2>2. beats' = [beats EXCEPT ![c] = TRUE] /\ timers[c] = "added"
    BY <1>7 DEF LibEvent!timerCallback
  <2>3. EventTimers'
    BY <1>0, <2>1, <2>2 DEF EventInv, EventTimers
  <2>4. beats' \in [Conn -> BOOLEAN]
    BY <1>0, <2>2
  <2> QED BY <1>0, <1>2, <2>1, <2>3, <2>4
<1>8. ASSUME NEW f \in Fd, NEW ev \in SUBSET Kinds, LibEvent!callback(f, ev)
      PROVE  EventInv' /\ [Monitor!Next]_(Monitor!vars) /\ twice' = twice
  <2>1. /\ f \in DOMAIN eventWatchers /\ ev # {} /\ ev \subseteq asked[f]
        /\ owner[f] \in Conn /\ eventWatchers[f].conn = owner[f]
    BY <1>0, <1>8 DEF LibEvent!callback, EventInv, EventWatched
  <2>2. /\ call = {} /\ call' = {[conn |-> owner[f], fd |-> f, ev |-> ev]}
        /\ UNCHANGED <<phase, owner, asked, eventWatchers, timers, beats, twice>>
    BY <1>8, <2>1 DEF LibEvent!callback, LibEvent!Begin
  <2>3. call' \in SUBSET LibEvent!Call
    BY <2>1, <2>2 DEF LibEvent!Call, LibEvent!Kinds, Kinds
  <2>4. EventInv'
    BY <2>2, <2>3 DEF EventInv, LibEvent!TypeOK, LibEvent!TcpTypeOK, LibEvent!Kinds, Opened,
       EventWatched, EventTimers
  <2> QED BY <2>1, <2>2, <2>4, MonitorProcess
<1>9. ASSUME LibEvent!processed PROVE EventInv' /\ [Monitor!Next]_(Monitor!vars) /\ twice' = twice
  <2>1. call # {} /\ call' = {} /\ UNCHANGED <<phase, owner, asked, eventWatchers, timers, beats, twice>>
    BY <1>9 DEF LibEvent!processed, LibEvent!End
  <2>2. EventInv'
    BY <2>1 DEF EventInv, LibEvent!TypeOK, LibEvent!TcpTypeOK, LibEvent!Kinds, Opened,
       EventWatched, EventTimers
  <2> QED BY <2>1, <2>2, MonitorDone
<1> QED BY <1>1, <1>3, <1>4, <1>5, <1>6, <1>7, <1>8, <1>9 DEF LibEvent!Next, LibEvent!FreedAgain, LibEvent!Kinds, Kinds

\* The handler starts with empty tables.
LEMMA EventInit == ASSUME LibEvent!Init PROVE EventInv
<1> USE TcpAssumption
<1>1. /\ phase = [c \in Conn |-> "new"] /\ owner = [f \in Fd |-> None] /\ asked = [f \in Fd |-> {}]
      /\ call = {} /\ eventWatchers = [f \in {} |-> {}] /\ timers = [c \in Conn |-> "none"]
      /\ beats = [c \in Conn |-> FALSE]
  BY DEF LibEvent!Init, LibEvent!TcpInit
<1>2. twice \in BOOLEAN
  BY Zenon DEF LibEvent!Init
<1> QED BY <1>1, <1>2 DEF EventInv, LibEvent!TypeOK, LibEvent!TcpTypeOK, Opened, EventWatched, EventTimers

-----------------------------------------------------------------------------
\* The handles of LibUvHandler that are started are those of the watchers, each
\* with the descriptor, the connection and the events that were asked for.
UvWatched ==
  \A f \in Fd : /\ uvWatchers[f] # 0 <=> owner[f] # None
                /\ uvWatchers[f] # 0 =>
                     handle[uvWatchers[f]] = [conn |-> owner[f], fd |-> f,
                                              events |-> LibUv!ToUv(asked[f]), state |-> "started"]

UvOwned == \A p \in 1..polls : handle[p].state = "started" => uvWatchers[handle[p].fd] = p

UvInv == LibUv!TypeOK /\ Opened /\ UvWatched /\ UvOwned

UvHandle == [conn : Conn, fd : Fd, events : SUBSET LibUv!ToUv(Kinds),
             state : {"started", "closing", "deleted"}]

\* The conversions of the events are inverse to each other.
LEMMA UvEvents ==
  /\ LibUv!ToUv(Kinds) = {"UV_READABLE", "UV_WRITABLE"}
  /\ \A ks \in SUBSET Kinds : LibUv!ToUv(ks) \in SUBSET LibUv!ToUv(Kinds)
  /\ \A ks \in SUBSET Kinds : \A es : es # {} /\ es \subseteq LibUv!ToUv(ks)
        => LibUv!ToAmqp(0, es) # {} /\ LibUv!ToAmqp(0, es) \subseteq ks
<1>1. LibUv!ToUv(Kinds) = {"UV_READABLE", "UV_WRITABLE"}
  BY DEF LibUv!ToUv, Kinds
<1>2. \A ks \in SUBSET Kinds : LibUv!ToUv(ks) \in SUBSET LibUv!ToUv(Kinds)
  BY DEF LibUv!ToUv
<1>3. ASSUME NEW ks \in SUBSET Kinds, NEW es, es # {}, es \subseteq LibUv!ToUv(ks)
      PROVE  LibUv!ToAmqp(0, es) # {} /\ LibUv!ToAmqp(0, es) \subseteq ks
  <2>1. LibUv!ToAmqp(0, es) = {k \in Kinds : LibUv!ToUv({k}) \subseteq es}
    BY DEF LibUv!ToAmqp, LibUv!Kinds, Kinds
  <2>2. /\ LibUv!ToUv({"readable"}) = {"UV_READABLE"} /\ LibUv!ToUv({"writable"}) = {"UV_WRITABLE"}
        /\ "UV_READABLE" \in LibUv!ToUv(ks) <=> "readable" \in ks
        /\ "UV_WRITABLE" \in LibUv!ToUv(ks) <=> "writable" \in ks
        /\ \A e \in LibUv!ToUv(ks) : e \in {"UV_READABLE", "UV_WRITABLE"}
    BY DEF LibUv!ToUv, Kinds
  <2> QED BY <1>3, <2>1, <2>2 DEF Kinds
<1> QED BY <1>1, <1>2, <1>3

\* The handle of a watcher.
LEMMA UvHandleOf ==
  ASSUME UvInv, NEW f \in Fd, uvWatchers[f] # 0
  PROVE  handle[uvWatchers[f]].fd = f /\ handle[uvWatchers[f]].state = "started"
<1>1. UvWatched
  BY DEF UvInv
<1>2. handle[uvWatchers[f]] = [conn |-> owner[f], fd |-> f, events |-> LibUv!ToUv(asked[f]), state |-> "started"]
  BY <1>1 DEF UvWatched
<1> QED BY <1>2

\* A call of monitor() keeps the handles.
LEMMA UvMonitor ==
  ASSUME UvInv, NEW c \in Conn, NEW f \in Fd, NEW ks \in SUBSET Kinds, NEW o \in Conn \cup {None},
         LibUv!monitor(c, f, ks), owner' = [owner EXCEPT ![f] = o], asked' = [asked EXCEPT ![f] = ks],
         ks # {} => o = c /\ owner[f] \in {None, c}, ks = {} => o = None,
         UNCHANGED <<phase, call>>
  PROVE  UvInv'
<1> USE TcpAssumption
<1>1. /\ owner \in [Fd -> Conn \cup {None}] /\ asked \in [Fd -> SUBSET Kinds]
      /\ polls \in 0..MaxPolls /\ polls \in Nat /\ uvWatchers \in [Fd -> 0..polls]
      /\ handle \in [1..polls -> UvHandle]
  BY LoopsAssumption DEF UvInv, LibUv!TypeOK, LibUv!TcpTypeOK, LibUv!Kinds, Kinds, UvHandle
<1>2. owner' \in [Fd -> Conn \cup {None}] /\ asked' \in [Fd -> SUBSET Kinds] /\ Opened'
  BY <1>1 DEF UvInv, Opened
<1>3. LibUv!ToUv(ks) \in SUBSET LibUv!ToUv(Kinds)
  BY UvEvents
<1> SUFFICES /\ polls' \in 0..MaxPolls /\ uvWatchers' \in [Fd -> 0..polls']
             /\ handle' \in [1..polls' -> UvHandle] /\ UvWatched' /\ UvOwned'
  BY <1>2 DEF UvInv, LibUv!TypeOK, LibUv!TcpTypeOK, LibUv!Kinds, Kinds, UvHandle, LibUv!Call
<1>4. CASE uvWatchers[f] = 0 /\ ks # {} /\ polls < MaxPolls
  <2>1. /\ polls' = polls + 1 /\ uvWatchers' = [uvWatchers EXCEPT ![f] = polls + 1]
        /\ handle' = [q \in 1..polls + 1 |->
              IF q = polls + 1 THEN [conn |-> c, fd |-> f, events |-> LibUv!ToUv(ks), state |-> "started"]
              ELSE handle[q]]
    BY <1>4 DEF LibUv!monitor, LibUv!NewPoll
  <2>2. polls' \in 0..MaxPolls /\ uvWatchers' \in [Fd -> 0..polls']
    BY <1>1, <1>4, <2>1, LoopsAssumption
  <2>3. [conn |-> c, fd |-> f, events |-> LibUv!ToUv(ks), state |-> "started"] \in UvHandle
    BY <1>3 DEF UvHandle
  <2>4. \A q \in 1..polls + 1 : q = polls + 1 \/ q \in 1..polls
    BY <1>1
  <2>5. handle' \in [1..polls' -> UvHandle]
    BY <1>1, <2>1, <2>3, <2>4
  <2>6. /\ handle'[polls + 1] = [conn |-> c, fd |-> f, events |-> LibUv!ToUv(ks), state |-> "started"]
        /\ \A q \in 1..polls : handle'[q] = handle[q] /\ q # polls + 1
    BY <1>1, <2>1
  <2>7. UvWatched'
    <3> SUFFICES ASSUME NEW g \in Fd
                 PROVE  /\ uvWatchers'[g] # 0 <=> owner'[g] # None
                        /\ uvWatchers'[g] # 0 =>
                             handle'[uvWatchers'[g]] = [conn |-> owner'[g], fd |-> g,
                                                events |-> LibUv!ToUv(asked'[g]), state |-> "started"]
      BY DEF UvWatched, LibUv!ToUv
    <3>1. CASE g = f
      BY <1>1, <1>4, <2>1, <2>6, <3>1
    <3>2. CASE g # f
      <4>1. uvWatchers'[g] = uvWatchers[g] /\ owner'[g] = owner[g] /\ asked'[g] = asked[g]
        BY <1>1, <2>1, <3>2
      <4>2. uvWatchers[g] # 0 => uvWatchers[g] \in 1..polls
        BY <1>1
      <4> QED BY <2>6, <4>1, <4>2 DEF UvInv, UvWatched
    <3> QED BY <3>1, <3>2
  <2>8. UvOwned'
    <3> SUFFICES ASSUME NEW q \in 1..polls', handle'[q].state = "started" PROVE uvWatchers'[handle'[q].fd] = q
      BY DEF UvOwned
    <3>1. CASE q = polls + 1
      BY <1>1, <2>1, <2>6, <3>1
    <3>2. CASE q \in 1..polls
      <4>1. uvWatchers[handle[q].fd] = q /\ handle'[q] = handle[q] /\ handle[q].fd \in Fd
        BY <1>1, <2>6, <3>2 DEF UvInv, UvOwned, UvHandle
      <4>2. handle[q].fd # f
        BY <1>4, <3>2, <4>1
      <4> QED BY <1>1, <2>1, <4>1, <4>2
    <3> QED BY <2>1, <2>4, <3>1, <3>2
  <2> QED BY <2>2, <2>5, <2>7, <2>8
<1>5. CASE uvWatchers[f] # 0
  <2> DEFINE p == uvWatchers[f]
  <2>1. p \in 1..polls /\ handle[p] \in UvHandle /\ owner[f] # None
        /\ handle[p] = [conn |-> owner[f], fd |-> f, events |-> LibUv!ToUv(asked[f]), state |-> "started"]
    BY <1>1, <1>5 DEF UvInv, UvWatched
  <2>2. \A g \in Fd : g # f => uvWatchers[g] # p
    <3>1. ASSUME NEW g \in Fd, uvWatchers[g] = p PROVE g = f
      <4>1. uvWatchers[g] # 0
        BY <1>5, <3>1
      <4>2. handle[uvWatchers[g]].fd = g
        BY <4>1, UvHandleOf
      <4>3. handle[p].fd = f
        BY <2>1
      <4> QED BY <3>1, <4>2, <4>3
    <3> QED BY <3>1
  <2>3. ASSUME NEW h \in UvHandle, handle' = [handle EXCEPT ![p] = h], polls' = polls,
               h.fd = f, \/ h.state = "closing" /\ ks = {} /\ uvWatchers' = [uvWatchers EXCEPT ![f] = 0]
                         \/ /\ ks # {} /\ uvWatchers' = uvWatchers
                            /\ h = [conn |-> owner'[f], fd |-> f, events |-> LibUv!ToUv(ks), state |-> "started"]
        PROVE  /\ polls' \in 0..MaxPolls /\ uvWatchers' \in [Fd -> 0..polls']
               /\ handle' \in [1..polls' -> UvHandle] /\ UvWatched' /\ UvOwned'
    <3>1. /\ polls' \in 0..MaxPolls /\ uvWatchers' \in [Fd -> 0..polls'] /\ handle' \in [1..polls' -> UvHandle]
          /\ handle'[p] = h /\ \A q \in 1..polls : q # p => handle'[q] = handle[q]
      BY <1>1, <2>1, <2>3
    <3>2. \A g \in Fd : g # f => /\ uvWatchers'[g] = uvWatchers[g] /\ owner'[g] = owner[g]
                                /\ asked'[g] = asked[g] /\ (uvWatchers[g] # 0 => uvWatchers[g] \in 1..polls)
      BY <1>1, <2>3
    <3>3. asked'[f] = ks /\ owner'[f] = o
      BY <1>1
    <3>4. UvWatched'
      <4> SUFFICES ASSUME NEW g \in Fd
                   PROVE  /\ uvWatchers'[g] # 0 <=> owner'[g] # None
                          /\ uvWatchers'[g] # 0 =>
                               handle'[uvWatchers'[g]] = [conn |-> owner'[g], fd |-> g,
                                                  events |-> LibUv!ToUv(asked'[g]), state |-> "started"]
        BY DEF UvWatched, LibUv!ToUv
      <4>1. CASE g = f
        BY <1>1, <1>5, <2>3, <3>1, <3>3, <4>1
      <4>2. CASE g # f
        <5>1. uvWatchers[g] # 0 => handle'[uvWatchers[g]] = handle[uvWatchers[g]]
          BY <2>2, <3>1, <3>2, <4>2
        <5> QED BY <3>2, <4>2, <5>1 DEF UvInv, UvWatched
      <4> QED BY <4>1, <4>2
    <3>5. UvOwned'
      <4> SUFFICES ASSUME NEW q \in 1..polls, handle'[q].state = "started" PROVE uvWatchers'[handle'[q].fd] = q
        BY <2>3 DEF UvOwned
      <4>1. CASE q = p
        BY <2>3, <3>1, <4>1
      <4>2. CASE q # p
        <5>1. uvWatchers[handle[q].fd] = q /\ handle'[q] = handle[q] /\ handle[q].fd \in Fd
          BY <1>1, <3>1, <4>2 DEF UvInv, UvOwned, UvHandle
        <5> QED BY <3>2, <4>2, <5>1
      <4> QED BY <4>1, <4>2
    <3> QED BY <3>1, <3>4, <3>5
  <2>4. CASE ks = {}
    <3> DEFINE h == [handle[p] EXCEPT !.state = "closing"]
    <3>1. /\ uvWatchers' = [uvWatchers EXCEPT ![f] = 0] /\ polls' = polls
          /\ handle' = [handle EXCEPT ![p] = h]
      BY <1>5, <2>4 DEF LibUv!monitor
    <3>2. h \in UvHandle /\ h.fd = f /\ h.state = "closing"
      BY <2>1 DEF UvHandle
    <3> QED BY <2>3, <2>4, <3>1, <3>2
  <2>5. CASE ks # {}
    <3> DEFINE h == [handle[p] EXCEPT !.events = LibUv!ToUv(ks)]
    <3>1. uvWatchers' = uvWatchers /\ polls' = polls /\ handle' = [handle EXCEPT ![p] = h]
      BY <1>5, <2>5 DEF LibUv!monitor
    <3>2. owner'[f] = owner[f]
      BY <1>1, <2>1, <2>5
    <3>3. /\ h = [conn |-> owner'[f], fd |-> f, events |-> LibUv!ToUv(ks), state |-> "started"]
          /\ h \in UvHandle /\ h.fd = f
      BY <1>3, <2>1, <3>2 DEF UvHandle
    <3> QED BY <2>3, <2>5, <3>1, <3>3
  <2> QED BY <2>4, <2>5
<1> QED BY <1>4, <1>5 DEF LibUv!monitor

\* Every step of LibUvHandler keeps its invariant and is one of FdMonitor.
LEMMA UvStep ==
  ASSUME UvInv, LibUv!Next, loop = "libuv", loop' = loop
  PROVE  UvInv' /\ [Monitor!Next]_(Monitor!vars)
<1> USE TcpAssumption
<1>0. /\ phase \in [Conn -> {"new", "opened", "connected", "negotiated", "lost", "gone"}]
      /\ owner \in [Fd -> Conn \cup {None}] /\ asked \in [Fd -> SUBSET Kinds]
      /\ polls \in Nat /\ uvWatchers \in [Fd -> 0..polls] /\ handle \in [1..polls -> UvHandle]
  BY LoopsAssumption DEF UvInv, LibUv!TypeOK, LibUv!TcpTypeOK, LibUv!Kinds, Kinds, UvHandle
<1>1. ASSUME NEW c \in Conn, LibUv!Ask(c) PROVE UvInv' /\ [Monitor!Next]_(Monitor!vars)
  <2>1. PICK f \in Fd, ks \in SUBSET Kinds :
             /\ LibUv!monitor(c, f, ks)
             /\ LibUv!Open(c, f, ks) \/ LibUv!Idle(c, f, ks) \/ (ks = {} /\ LibUv!Shut(c, f))
    BY <1>1 DEF LibUv!Ask, LibUv!Kinds, Kinds
  <2>2. PICK o \in Conn \cup {None} :
             /\ owner' = [owner EXCEPT ![f] = o] /\ asked' = [asked EXCEPT ![f] = ks]
             /\ ks # {} => o = c /\ owner[f] \in {None, c}
             /\ ks = {} => o = None
             /\ UNCHANGED <<phase, call>>
    <3>1. CASE LibUv!Open(c, f, ks)
      BY <3>1 DEF LibUv!Open
    <3>2. CASE LibUv!Idle(c, f, ks)
      <4>1. owner' = [owner EXCEPT ![f] = c]
        BY <1>0, <3>2 DEF LibUv!Idle
      <4> QED BY <3>2, <4>1 DEF LibUv!Idle
    <3>3. CASE ks = {} /\ LibUv!Shut(c, f)
      BY <3>3 DEF LibUv!Shut
    <3> QED BY <2>1, <3>1, <3>2, <3>3
  <2>3. UvInv'
    BY <2>1, <2>2, UvMonitor
  <2>4. o = None <=> ks = {}
    BY <2>2
  <2> QED BY <2>2, <2>3, <2>4, MonitorAsk
<1>2. ASSUME NEW c \in Conn, LibUv!Ignored(c) PROVE UvInv' /\ [Monitor!Next]_(Monitor!vars)
  <2>1. UNCHANGED <<owner, asked, call, uvWatchers, polls, handle>>
    BY <1>2 DEF LibUv!Ignored, LibUv!Construct, LibUv!Detach, LibUv!To
  <2>2. phase' \in [Conn -> {"new", "opened", "connected", "negotiated", "lost", "gone"}]
    BY <1>0, <1>2 DEF LibUv!Ignored, LibUv!Construct, LibUv!Detach, LibUv!To
  <2>3. UvInv'
    BY <2>1, <2>2 DEF UvInv, LibUv!TypeOK, LibUv!TcpTypeOK, LibUv!Kinds, LibUv!Call, LibUv!ToUv,
       Opened, UvWatched, UvOwned
  <2> QED BY <2>1, <2>3, MonitorStutters
<1>3. ASSUME NEW p \in LibUv!Poll, LibUv!closed(p) PROVE UvInv' /\ [Monitor!Next]_(Monitor!vars)
  <2>1. /\ p \in 1..polls /\ handle[p].state = "closing" /\ handle[p] \in UvHandle
        /\ handle' = [handle EXCEPT ![p] = [handle[p] EXCEPT !.state = "deleted"]]
        /\ UNCHANGED <<owner, asked, call, phase, uvWatchers, polls>>
    BY <1>0, <1>3 DEF LibUv!closed, LibUv!tcpVars
  <2>2. [handle[p] EXCEPT !.state = "deleted"] \in UvHandle /\ [handle[p] EXCEPT !.state = "deleted"].state = "deleted"
    BY <2>1 DEF UvHandle
  <2>3. /\ handle' \in [1..polls -> UvHandle] /\ handle'[p].state = "deleted"
        /\ \A q \in 1..polls : q # p => handle'[q] = handle[q]
    BY <1>0, <2>1, <2>2
  <2>4. \A f \in Fd : uvWatchers[f] # 0 => uvWatchers[f] \in 1..polls /\ handle[uvWatchers[f]].state = "started"
    BY <1>0, UvHandleOf
  <2>5. \A f \in Fd : uvWatchers[f] # 0 => handle'[uvWatchers[f]] = handle[uvWatchers[f]]
    BY <2>1, <2>3, <2>4
  <2>6. UvWatched'
    BY <2>1, <2>5 DEF UvInv, UvWatched, LibUv!ToUv
  <2>7. UvOwned'
    BY <2>1, <2>3 DEF UvInv, UvOwned
  <2>8. UvInv'
    BY <2>1, <2>3, <2>6, <2>7 DEF UvInv, LibUv!TypeOK, LibUv!TcpTypeOK, LibUv!Kinds, Kinds, LibUv!Call,
       UvHandle, Opened, LibUv!ToUv
  <2> QED BY <2>1, <2>8, MonitorStutters
<1>4. ASSUME NEW p \in LibUv!Poll, NEW status \in {0, 1}, NEW es, LibUv!callback(p, status, es)
      PROVE  UvInv' /\ [Monitor!Next]_(Monitor!vars)
  <2> DEFINE f == handle[p].fd
             ev == LibUv!ToAmqp(status, es)
  <2>1. p \in 1..polls /\ handle[p].state = "started" /\ f \in Fd /\ uvWatchers[f] = p
    BY <1>0, <1>4 DEF LibUv!callback, UvHandle, UvInv, UvOwned
  <2>2. /\ p # 0 /\ owner[f] # None
        /\ handle[p] = [conn |-> owner[f], fd |-> f, events |-> LibUv!ToUv(asked[f]), state |-> "started"]
    <3>1. p # 0
      BY <1>0, <2>1
    <3> QED BY <2>1, <3>1 DEF UvInv, UvWatched
  <2>3. owner[f] \in Conn /\ handle[p].conn = owner[f] /\ handle[p].events = LibUv!ToUv(asked[f]) /\ asked[f] \in SUBSET Kinds
    BY <1>0, <2>1, <2>2
  <2>4. /\ ev # {} /\ ev \in SUBSET Kinds /\ (ev \subseteq asked[f] \/ ev = Kinds)
    <3>1. CASE status = 0
      BY <1>4, <2>3, <3>1, UvEvents DEF LibUv!callback
    <3>2. CASE status # 0
      BY <3>2 DEF LibUv!ToAmqp, LibUv!Kinds, Kinds
    <3> QED BY <3>1, <3>2
  <2>5. /\ call = {} /\ call' = {[conn |-> owner[f], fd |-> f, ev |-> ev]}
        /\ UNCHANGED <<phase, owner, asked, uvWatchers, polls, handle>>
    BY <1>4, <2>3 DEF LibUv!callback, LibUv!Begin
  <2> HIDE DEF ev
  <2>6. call' \in SUBSET LibUv!Call /\ \A k \in call' : k.ev # {}
    BY <2>1, <2>3, <2>4, <2>5 DEF LibUv!Call, LibUv!Kinds, Kinds
  <2>7. UvInv'
    BY <2>5, <2>6 DEF UvInv, LibUv!TypeOK, LibUv!TcpTypeOK, LibUv!Kinds, LibUv!ToUv, Opened, UvWatched, UvOwned
  <2> QED BY <2>1, <2>3, <2>4, <2>5, <2>7, MonitorProcess
<1>5. ASSUME LibUv!processed PROVE UvInv' /\ [Monitor!Next]_(Monitor!vars)
  <2>1. call # {} /\ call' = {} /\ UNCHANGED <<phase, owner, asked, uvWatchers, polls, handle>>
    BY <1>5 DEF LibUv!processed, LibUv!End
  <2>2. UvInv'
    BY <2>1 DEF UvInv, LibUv!TypeOK, LibUv!TcpTypeOK, LibUv!Kinds, LibUv!ToUv, Opened, UvWatched, UvOwned
  <2> QED BY <2>1, <2>2, MonitorDone
<1> QED BY <1>1, <1>2, <1>3, <1>4, <1>5 DEF LibUv!Next

\* No handle exists at first.
LEMMA UvInit == ASSUME LibUv!Init PROVE UvInv
<1> USE TcpAssumption, LoopsAssumption
<1>1. /\ phase = [c \in Conn |-> "new"] /\ owner = [f \in Fd |-> None] /\ asked = [f \in Fd |-> {}]
      /\ call = {} /\ uvWatchers = [f \in Fd |-> 0] /\ polls = 0 /\ handle = [q \in {} |-> 0]
  BY DEF LibUv!Init, LibUv!TcpInit
<1>2. 1..polls = {}
  BY <1>1
<1> QED BY <1>1, <1>2 DEF UvInv, LibUv!TypeOK, LibUv!TcpTypeOK, Opened, UvWatched, UvOwned

\* The invariant of libuv says what HandlesOwned says.
LEMMA UvHandlesOwned == ASSUME UvInv PROVE LibUv!HandlesOwned
<1>1. /\ polls \in Nat /\ uvWatchers \in [Fd -> 0..polls] /\ handle \in [1..polls -> UvHandle]
  BY LoopsAssumption DEF UvInv, LibUv!TypeOK, LibUv!Kinds, Kinds, UvHandle
<1>2. ASSUME NEW p \in 1..polls, handle[p].state = "started" PROVE p \in LibUv!Range(uvWatchers)
  <2>1. uvWatchers[handle[p].fd] = p /\ handle[p].fd \in Fd
    BY <1>1, <1>2 DEF UvInv, UvOwned, UvHandle
  <2> QED BY <1>1, <2>1 DEF LibUv!Range
<1>3. ASSUME NEW p \in 1..polls, p \in LibUv!Range(uvWatchers) PROVE handle[p].state = "started"
  <2>1. PICK f \in Fd : uvWatchers[f] = p
    BY <1>1, <1>3 DEF LibUv!Range
  <2>2. p # 0
    BY <1>1
  <2> QED BY <2>1, <2>2, UvHandleOf
<1> QED BY <1>1, <1>2, <1>3 DEF LibUv!HandlesOwned

-----------------------------------------------------------------------------
\* The watchers of LibBoostAsioHandler agree with what is asked; none is left when
\* the handler is gone.
AsioWatched ==
  \A f \in Fd : /\ asioWatchers[f] # 0 => strand /\ fdOf[asioWatchers[f]] = f
                                         /\ want[asioWatchers[f]] = asked[f]
                /\ strand => (asioWatchers[f] # 0 <=> owner[f] # None)

\* The waits of a watcher in the map were started for the owner of its descriptor;
\* a kind that is marked pending has a wait, and a kind that is wanted is marked,
\* or its handler is running.
AsioArmed ==
  \A f \in Fd : asioWatchers[f] # 0 =>
    /\ \A k \in Kinds, c \in Conn : ops[<<asioWatchers[f], k, c>>] > 0 => c = owner[f]
    /\ \A k \in pending[asioWatchers[f]] : ops[<<asioWatchers[f], k, owner[f]>>] > 0
    /\ \A k \in want[asioWatchers[f]] : k \in pending[asioWatchers[f]] \/ <<asioWatchers[f], k>> \in running

\* At most one handler is running; it may start one more wait, for the connection
\* it serves.
AsioRunning ==
  /\ \A r, q \in running : r = q
  /\ \A r \in running : r[1] \in 1..built
  /\ \A r \in running, k \in call :
       /\ ops[<<r[1], r[2], k.conn>>] < MaxOps
       /\ \A f \in Fd : asioWatchers[f] = r[1] => k.conn = owner[f]

\* A watcher that has not been built has no waits.
AsioFresh ==
  \A w \in Asio!Watcher : w > built => /\ pending[w] = {}
                                      /\ \A k \in Kinds, c \in Conn : ops[<<w, k, c>>] = 0

AsioInv == Asio!TypeOK /\ Opened /\ AsioWatched /\ AsioArmed /\ AsioRunning /\ AsioFresh

\* The types that the steps need.
AsioTyped ==
  /\ phase \in [Conn -> {"new", "opened", "connected", "negotiated", "lost", "gone"}]
  /\ owner \in [Fd -> Conn \cup {None}] /\ asked \in [Fd -> SUBSET Kinds]
  /\ call \in SUBSET [conn : Conn, fd : Fd, ev : SUBSET Kinds]
  /\ built \in 0..MaxWatchers /\ asioWatchers \in [Fd -> 0..built]
  /\ fdOf \in [1..MaxWatchers -> Fd]
  /\ want \in [1..MaxWatchers -> SUBSET Kinds] /\ pending \in [1..MaxWatchers -> SUBSET Kinds]
  /\ ops \in [(1..MaxWatchers) \X Kinds \X Conn -> 0..MaxOps]
  /\ running \subseteq (1..MaxWatchers) \X Kinds /\ strand \in BOOLEAN
  /\ call # {} <=> running # {}

\* TypeOK of asio, spelled out.
LEMMA AsioTypes == (Asio!TypeOK <=> AsioTyped) /\ (Asio!TypeOK' <=> AsioTyped')
  BY DEF Asio!TypeOK, AsioTyped, Asio!TcpTypeOK, Asio!Call, Asio!Kinds, Kinds, Asio!Watcher

\* Watcher::events starts a wait for each kind that has none pending.
LEMMA AsioEvents ==
  ASSUME AsioTyped, NEW w \in 1..MaxWatchers, NEW c \in Conn, NEW ks \in SUBSET Kinds, Asio!events(w, c, ks),
         \A o \in DOMAIN ops : ops'[o] + (IF <<o[1], o[2]>> \in running THEN 1 ELSE 0) <= MaxOps
  PROVE  /\ want' = [want EXCEPT ![w] = ks] /\ pending' = [pending EXCEPT ![w] = pending[w] \cup ks]
         /\ want' \in [1..MaxWatchers -> SUBSET Kinds] /\ pending' \in [1..MaxWatchers -> SUBSET Kinds]
         /\ ops' \in [(1..MaxWatchers) \X Kinds \X Conn -> 0..MaxOps]
         /\ \A v \in 1..MaxWatchers, k \in Kinds, d \in Conn :
              /\ ops'[<<v, k, d>>] = IF v = w /\ d = c /\ k \in ks \ pending[w]
                                    THEN ops[<<v, k, d>>] + 1 ELSE ops[<<v, k, d>>]
              /\ <<v, k>> \in running => ops'[<<v, k, d>>] < MaxOps
<1>1. /\ want' = [want EXCEPT ![w] = ks] /\ pending' = [pending EXCEPT ![w] = pending[w] \cup ks]
      /\ want' \in [1..MaxWatchers -> SUBSET Kinds] /\ pending' \in [1..MaxWatchers -> SUBSET Kinds]
  BY DEF Asio!events, AsioTyped
<1>2. DOMAIN ops = (1..MaxWatchers) \X Kinds \X Conn /\ MaxOps \in Nat
  BY LoopsAssumption DEF AsioTyped
<1>3. ops' = [o \in (1..MaxWatchers) \X Kinds \X Conn |->
                IF o[1] = w /\ o[3] = c /\ o[2] \in ks \ pending[w] THEN ops[o] + 1 ELSE ops[o]]
  BY <1>2 DEF Asio!events
<1>4. \A o \in (1..MaxWatchers) \X Kinds \X Conn : ops[o] \in 0..MaxOps
  BY DEF AsioTyped
<1>5. ASSUME NEW o \in (1..MaxWatchers) \X Kinds \X Conn
      PROVE  ops'[o] \in 0..MaxOps /\ (<<o[1], o[2]>> \in running => ops'[o] < MaxOps)
  <2>1. ops'[o] \in Nat
    BY <1>2, <1>3, <1>4
  <2>2. ops'[o] + (IF <<o[1], o[2]>> \in running THEN 1 ELSE 0) <= MaxOps
    BY <1>2
  <2> QED BY <1>2, <2>1, <2>2
<1>6. ops' \in [(1..MaxWatchers) \X Kinds \X Conn -> 0..MaxOps]
  BY <1>3, <1>5
<1>7. ASSUME NEW v \in 1..MaxWatchers, NEW k \in Kinds, NEW d \in Conn
      PROVE  /\ ops'[<<v, k, d>>] = IF v = w /\ d = c /\ k \in ks \ pending[w]
                                   THEN ops[<<v, k, d>>] + 1 ELSE ops[<<v, k, d>>]
             /\ <<v, k>> \in running => ops'[<<v, k, d>>] < MaxOps
  <2>1. /\ <<v, k, d>> \in (1..MaxWatchers) \X Kinds \X Conn
        /\ <<v, k, d>>[1] = v /\ <<v, k, d>>[2] = k /\ <<v, k, d>>[3] = d
    OBVIOUS
  <2> QED BY <1>3, <1>5, <2>1
<1> QED BY <1>1, <1>6, <1>7

\* A call of monitor() keeps the invariant of asio.
LEMMA AsioMonitor ==
  ASSUME AsioInv, NEW c \in Conn, NEW f \in Fd, NEW ks \in SUBSET Kinds, NEW o \in Conn \cup {None},
         Asio!monitor(c, f, ks), owner' = [owner EXCEPT ![f] = o], asked' = [asked EXCEPT ![f] = ks],
         ks # {} => o = c /\ owner[f] \in {None, c}, ks = {} => o = None, strand,
         \A i \in DOMAIN ops : ops'[i] + (IF <<i[1], i[2]>> \in running THEN 1 ELSE 0) <= MaxOps,
         UNCHANGED <<phase, call, running, strand>>
  PROVE  AsioInv'
<1> USE TcpAssumption
<1>1. AsioTyped /\ MaxWatchers \in Nat /\ MaxOps \in Nat /\ built \in Nat
  <2>1. AsioTyped
    BY AsioTypes DEF AsioInv
  <2> QED BY <2>1, LoopsAssumption DEF AsioTyped
<1>2. Opened' /\ owner' \in [Fd -> Conn \cup {None}] /\ asked' \in [Fd -> SUBSET Kinds]
      /\ owner'[f] = o /\ asked'[f] = ks
      /\ \A g \in Fd : g # f => owner'[g] = owner[g] /\ asked'[g] = asked[g]
  BY <1>1 DEF AsioInv, Opened, AsioTyped
<1>3. \A g \in Fd : asioWatchers[g] \in 0..built /\ (asioWatchers[g] # 0 => asioWatchers[g] \in 1..MaxWatchers)
  BY <1>1 DEF AsioTyped
<1>4. \A g, h \in Fd : asioWatchers[g] # 0 /\ asioWatchers[g] = asioWatchers[h] => g = h
  BY DEF AsioInv, AsioWatched
<1>5. CASE asioWatchers[f] = 0 /\ ks # {} /\ built < MaxWatchers
  <2> DEFINE w == built + 1
  <2>1. /\ built' = w /\ fdOf' = [fdOf EXCEPT ![w] = f] /\ asioWatchers' = [asioWatchers EXCEPT ![f] = w]
        /\ Asio!events(w, c, ks) /\ w \in 1..MaxWatchers /\ w \in Nat /\ w # 0 /\ w > built
    BY <1>1, <1>5 DEF Asio!monitor
  <2> HIDE DEF w
  <2>2. /\ want'[w] = ks /\ pending'[w] = pending[w] \cup ks
        /\ \A v \in 1..MaxWatchers : v # w => want'[v] = want[v] /\ pending'[v] = pending[v]
        /\ want' \in [1..MaxWatchers -> SUBSET Kinds] /\ pending' \in [1..MaxWatchers -> SUBSET Kinds]
    <3>1. /\ want' = [want EXCEPT ![w] = ks] /\ pending' = [pending EXCEPT ![w] = pending[w] \cup ks]
          /\ want' \in [1..MaxWatchers -> SUBSET Kinds] /\ pending' \in [1..MaxWatchers -> SUBSET Kinds]
      BY <1>1, <2>1, AsioEvents
    <3> QED BY <1>1, <2>1, <3>1 DEF AsioTyped
  <2>3. /\ ops' \in [(1..MaxWatchers) \X Kinds \X Conn -> 0..MaxOps]
        /\ \A v \in 1..MaxWatchers, k \in Kinds, d \in Conn :
             /\ ops'[<<v, k, d>>] = IF v = w /\ d = c /\ k \in ks \ pending[w]
                                   THEN ops[<<v, k, d>>] + 1 ELSE ops[<<v, k, d>>]
             /\ <<v, k>> \in running => ops'[<<v, k, d>>] < MaxOps
    BY <1>1, <2>1, AsioEvents
  <2>4. pending[w] = {} /\ \A k \in Kinds, d \in Conn : ops[<<w, k, d>>] = 0
    BY <2>1 DEF AsioInv, AsioFresh, Asio!Watcher
  <2>5. /\ asioWatchers'[f] = w /\ fdOf'[w] = f
        /\ \A g \in Fd : g # f => asioWatchers'[g] = asioWatchers[g] /\ asioWatchers[g] # w
        /\ \A v \in 1..MaxWatchers : v # w => fdOf'[v] = fdOf[v]
    BY <1>1, <1>3, <2>1 DEF AsioTyped
  <2>6. AsioTyped'
    <3>1. built' \in 0..MaxWatchers /\ asioWatchers' \in [Fd -> 0..built'] /\ fdOf' \in [1..MaxWatchers -> Fd]
      BY <1>1, <2>1 DEF AsioTyped, w
    <3> QED BY <1>1, <1>2, <2>2, <2>3, <3>1 DEF AsioTyped
  <2>7. AsioWatched'
    BY <1>2, <1>3, <1>5, <2>1, <2>2, <2>5 DEF AsioInv, AsioWatched
  <2>8. AsioArmed'
    <3> SUFFICES ASSUME NEW g \in Fd, asioWatchers'[g] # 0
          PROVE /\ \A k \in Kinds, d \in Conn : ops'[<<asioWatchers'[g], k, d>>] > 0 => d = owner'[g]
                /\ \A k \in pending'[asioWatchers'[g]] : ops'[<<asioWatchers'[g], k, owner'[g]>>] > 0
                /\ \A k \in want'[asioWatchers'[g]] :
                     k \in pending'[asioWatchers'[g]] \/ <<asioWatchers'[g], k>> \in running'
      BY DEF AsioArmed
    <3>1. CASE g = f
      <4>1. \A k \in Kinds, d \in Conn : ops'[<<w, k, d>>] = IF d = c /\ k \in ks THEN 1 ELSE 0
        <5>1. ASSUME NEW k \in Kinds, NEW d \in Conn PROVE ops'[<<w, k, d>>] = IF d = c /\ k \in ks THEN 1 ELSE 0
          <6>1. ops[<<w, k, d>>] = 0 /\ pending[w] = {}
            BY <2>4
          <6>2. ops'[<<w, k, d>>] = IF w = w /\ d = c /\ k \in ks \ pending[w]
                                   THEN ops[<<w, k, d>>] + 1 ELSE ops[<<w, k, d>>]
            BY <2>1, <2>3
          <6> QED BY <6>1, <6>2
        <5> QED BY <5>1
      <4>2. asioWatchers'[g] = w /\ owner'[g] = c /\ pending'[w] = ks /\ want'[w] = ks
        BY <1>2, <1>5, <2>2, <2>4, <2>5, <3>1
      <4> QED BY <4>1, <4>2
    <3>2. CASE g # f
      <4>1. /\ asioWatchers'[g] = asioWatchers[g] /\ asioWatchers[g] # w /\ asioWatchers[g] \in 1..MaxWatchers
            /\ owner'[g] = owner[g] /\ owner[g] \in Conn
        BY <1>1, <1>2, <1>3, <2>5, <3>2 DEF AsioInv, AsioWatched, AsioTyped
      <4>2. \A k \in Kinds, d \in Conn : ops'[<<asioWatchers[g], k, d>>] = ops[<<asioWatchers[g], k, d>>]
        BY <2>3, <4>1
      <4>3. pending'[asioWatchers[g]] = pending[asioWatchers[g]] /\ pending[asioWatchers[g]] \subseteq Kinds
            /\ want'[asioWatchers[g]] = want[asioWatchers[g]]
        BY <1>1, <2>2, <4>1 DEF AsioTyped
      <4> QED BY <4>1, <4>2, <4>3 DEF AsioInv, AsioArmed
    <3> QED BY <3>1, <3>2
  <2>9. AsioRunning'
    <3>1. \A r \in running : r[1] \in 1..built' /\ r[1] # w /\ r[1] \in 1..MaxWatchers /\ r[2] \in Kinds
      BY <1>1, <2>1 DEF AsioInv, AsioRunning, AsioTyped, w
    <3>2. ASSUME NEW r \in running, NEW k \in call
          PROVE  /\ ops'[<<r[1], r[2], k.conn>>] < MaxOps
                 /\ \A g \in Fd : asioWatchers'[g] = r[1] => k.conn = owner'[g]
      <4>1. k.conn \in Conn
        BY <1>1 DEF AsioTyped
      <4>2. ops'[<<r[1], r[2], k.conn>>] < MaxOps
        BY <2>3, <3>1, <4>1 DEF AsioInv, AsioRunning
      <4> QED BY <1>2, <2>5, <3>1, <4>2 DEF AsioInv, AsioRunning
    <3> QED BY <3>1, <3>2 DEF AsioInv, AsioRunning
  <2>10. AsioFresh'
    <3> SUFFICES ASSUME NEW v \in 1..MaxWatchers, v > built'
                 PROVE  pending'[v] = {} /\ \A k \in Kinds, d \in Conn : ops'[<<v, k, d>>] = 0
      BY DEF AsioFresh, Asio!Watcher
    <3>1. v # w /\ v > built
      BY <1>1, <2>1
    <3>2. pending'[v] = pending[v] /\ \A k \in Kinds, d \in Conn : ops'[<<v, k, d>>] = ops[<<v, k, d>>]
      BY <2>2, <2>3, <3>1
    <3>3. pending[v] = {} /\ \A k \in Kinds, d \in Conn : ops[<<v, k, d>>] = 0
      BY <3>1 DEF AsioInv, AsioFresh, Asio!Watcher
    <3> QED BY <3>2, <3>3
  <2> QED BY <1>2, <2>6, <2>7, <2>8, <2>9, <2>10, AsioTypes DEF AsioInv
<1>6. CASE asioWatchers[f] # 0 /\ ks = {}
  <2>1. asioWatchers' = [asioWatchers EXCEPT ![f] = 0] /\ UNCHANGED <<built, fdOf, want, pending, ops>>
    BY <1>6 DEF Asio!monitor
  <2>2. asioWatchers'[f] = 0 /\ \A g \in Fd : g # f => asioWatchers'[g] = asioWatchers[g]
    BY <1>1, <2>1 DEF AsioTyped
  <2>3. AsioTyped'
    <3>1. asioWatchers' \in [Fd -> 0..built']
      BY <1>1, <2>1 DEF AsioTyped
    <3> QED BY <1>1, <1>2, <2>1, <3>1 DEF AsioTyped
  <2>4. AsioWatched'
    BY <1>2, <1>6, <2>1, <2>2 DEF AsioInv, AsioWatched
  <2>5. AsioArmed'
    BY <1>2, <2>1, <2>2 DEF AsioInv, AsioArmed
  <2>6. AsioRunning'
    <3>1. \A r \in running : r[1] # 0
      BY <1>1 DEF AsioInv, AsioRunning
    <3> QED BY <1>2, <2>1, <2>2, <3>1 DEF AsioInv, AsioRunning
  <2>7. AsioFresh'
    BY <2>1 DEF AsioInv, AsioFresh
  <2> QED BY <1>2, <2>3, <2>4, <2>5, <2>6, <2>7, AsioTypes DEF AsioInv
<1>7. CASE asioWatchers[f] # 0 /\ ks # {}
  <2> DEFINE w == asioWatchers[f]
  <2>1. /\ Asio!events(w, c, ks) /\ UNCHANGED <<asioWatchers, built, fdOf>>
        /\ w \in 1..MaxWatchers /\ w # 0 /\ w <= built /\ owner[f] = c /\ o = c
    BY <1>1, <1>3, <1>7 DEF Asio!monitor, AsioInv, AsioWatched
  <2>w. w = asioWatchers[f]
    OBVIOUS
  <2> HIDE DEF w
  <2>2. /\ want'[w] = ks /\ pending'[w] = pending[w] \cup ks /\ pending[w] \in SUBSET Kinds
        /\ \A v \in 1..MaxWatchers : v # w => want'[v] = want[v] /\ pending'[v] = pending[v]
        /\ want' \in [1..MaxWatchers -> SUBSET Kinds] /\ pending' \in [1..MaxWatchers -> SUBSET Kinds]
    <3>1. /\ want' = [want EXCEPT ![w] = ks] /\ pending' = [pending EXCEPT ![w] = pending[w] \cup ks]
          /\ want' \in [1..MaxWatchers -> SUBSET Kinds] /\ pending' \in [1..MaxWatchers -> SUBSET Kinds]
      BY <1>1, <2>1, AsioEvents
    <3> QED BY <1>1, <2>1, <3>1 DEF AsioTyped
  <2>3. /\ ops' \in [(1..MaxWatchers) \X Kinds \X Conn -> 0..MaxOps]
        /\ \A v \in 1..MaxWatchers, k \in Kinds, d \in Conn :
             /\ ops'[<<v, k, d>>] = IF v = w /\ d = c /\ k \in ks \ pending[w]
                                   THEN ops[<<v, k, d>>] + 1 ELSE ops[<<v, k, d>>]
             /\ <<v, k>> \in running => ops'[<<v, k, d>>] < MaxOps
    <3>1. w \in 1..MaxWatchers /\ Asio!events(w, c, ks) /\ AsioTyped
      BY <1>1, <2>1
    <3> QED BY <3>1, AsioEvents
  <2>4. AsioTyped'
    BY <1>1, <1>2, <2>1, <2>2, <2>3 DEF AsioTyped
  <2>5. \A g \in Fd : g # f => asioWatchers[g] # w
    BY <1>4, <2>1, <2>w
  <2>6. AsioWatched'
    <3> SUFFICES ASSUME NEW g \in Fd
                 PROVE  /\ asioWatchers'[g] # 0 => strand' /\ fdOf'[asioWatchers'[g]] = g
                                                         /\ want'[asioWatchers'[g]] = asked'[g]
                        /\ strand' => (asioWatchers'[g] # 0 <=> owner'[g] # None)
      BY DEF AsioWatched
    <3>1. CASE g = f
      BY <1>2, <2>1, <2>2, <2>w, <3>1 DEF AsioInv, AsioWatched
    <3>2. CASE g # f
      BY <1>2, <1>3, <2>1, <2>2, <2>5, <3>2 DEF AsioInv, AsioWatched
    <3> QED BY <3>1, <3>2
  <2>7. AsioArmed'
    <3> SUFFICES ASSUME NEW g \in Fd, asioWatchers[g] # 0
          PROVE /\ \A k \in Kinds, d \in Conn : ops'[<<asioWatchers[g], k, d>>] > 0 => d = owner'[g]
                /\ \A k \in pending'[asioWatchers[g]] : ops'[<<asioWatchers[g], k, owner'[g]>>] > 0
                /\ \A k \in want'[asioWatchers[g]] :
                     k \in pending'[asioWatchers[g]] \/ <<asioWatchers[g], k>> \in running'
      BY <2>1 DEF AsioArmed
    <3>1. CASE g = f
      <4>1. /\ \A k \in Kinds, d \in Conn : ops[<<w, k, d>>] > 0 => d = c
            /\ \A k \in pending[w] : ops[<<w, k, c>>] > 0
        BY <2>1, <2>w DEF AsioInv, AsioArmed
      <4>2. \A k \in Kinds, d \in Conn : ops[<<w, k, d>>] \in 0..MaxOps
        BY <1>1, <2>1 DEF AsioTyped
      <4>3. \A k \in Kinds, d \in Conn : ops'[<<w, k, d>>] > 0 => d = c
        BY <2>1, <2>3, <4>1
      <4>4. \A k \in pending[w] \cup ks : ops'[<<w, k, c>>] > 0
        <5>1. \A k \in pending[w] \cup ks : k \in Kinds
          BY <2>2
        <5>2. \A k \in Kinds : ops'[<<w, k, c>>] = IF k \in ks \ pending[w] THEN ops[<<w, k, c>>] + 1
                                                   ELSE ops[<<w, k, c>>]
          BY <2>1, <2>3
        <5> QED BY <4>1, <4>2, <5>1, <5>2
      <4> QED BY <1>2, <2>1, <2>2, <2>w, <3>1, <4>3, <4>4
    <3>2. CASE g # f
      <4>1. /\ asioWatchers[g] # w /\ asioWatchers[g] \in 1..MaxWatchers
            /\ owner'[g] = owner[g] /\ owner[g] \in Conn
        BY <1>1, <1>2, <1>3, <2>5, <3>2 DEF AsioInv, AsioWatched, AsioTyped
      <4>2. \A k \in Kinds, d \in Conn : ops'[<<asioWatchers[g], k, d>>] = ops[<<asioWatchers[g], k, d>>]
        BY <2>3, <4>1
      <4>3. pending'[asioWatchers[g]] = pending[asioWatchers[g]] /\ pending[asioWatchers[g]] \subseteq Kinds
            /\ want'[asioWatchers[g]] = want[asioWatchers[g]]
        BY <1>1, <2>2, <4>1 DEF AsioTyped
      <4> QED BY <4>1, <4>2, <4>3 DEF AsioInv, AsioArmed
    <3> QED BY <3>1, <3>2
  <2>8. AsioRunning'
    <3>1. \A r \in running : r[1] \in 1..built /\ r[1] \in 1..MaxWatchers /\ r[2] \in Kinds /\ r = <<r[1], r[2]>>
      BY <1>1 DEF AsioInv, AsioRunning, AsioTyped
    <3>2. ASSUME NEW r \in running, NEW k \in call
          PROVE  /\ ops'[<<r[1], r[2], k.conn>>] < MaxOps
                 /\ \A g \in Fd : asioWatchers[g] = r[1] => k.conn = owner'[g]
      <4>1. k.conn \in Conn
        BY <1>1 DEF AsioTyped
      <4>2. ops'[<<r[1], r[2], k.conn>>] < MaxOps
        BY <2>3, <3>1, <4>1
      <4>3. \A g \in Fd : owner'[g] = owner[g]
        BY <1>2, <2>1
      <4> QED BY <4>2, <4>3 DEF AsioInv, AsioRunning
    <3> QED BY <2>1, <3>1, <3>2 DEF AsioInv, AsioRunning
  <2>9. AsioFresh'
    <3> SUFFICES ASSUME NEW v \in 1..MaxWatchers, v > built
                 PROVE  pending'[v] = {} /\ \A k \in Kinds, d \in Conn : ops'[<<v, k, d>>] = 0
      BY <2>1 DEF AsioFresh, Asio!Watcher
    <3>1. v # w
      BY <1>1, <2>1
    <3>2. pending'[v] = pending[v] /\ \A k \in Kinds, d \in Conn : ops'[<<v, k, d>>] = ops[<<v, k, d>>]
      BY <2>2, <2>3, <3>1
    <3>3. pending[v] = {} /\ \A k \in Kinds, d \in Conn : ops[<<v, k, d>>] = 0
      BY <3>1 DEF AsioInv, AsioFresh, Asio!Watcher
    <3> QED BY <3>2, <3>3
  <2> QED BY <1>2, <2>4, <2>6, <2>7, <2>8, <2>9, AsioTypes DEF AsioInv
<1> QED BY <1>5, <1>6, <1>7 DEF Asio!monitor

\* A completion decreases the waits of its watcher, and process() is called only if

\* the watcher is in the map and wants the event.
LEMMA AsioHandler ==
  ASSUME AsioInv, NEW w \in 1..MaxWatchers, NEW k \in Kinds, NEW c \in Conn, Asio!Handler(w, k, c), loop' = loop
  PROVE  AsioInv' /\ [Monitor!Next]_(Monitor!vars)
<1> USE TcpAssumption
<1>1. AsioTyped /\ MaxOps \in Nat
  <2>1. AsioTyped
    BY AsioTypes DEF AsioInv
  <2> QED BY <2>1, LoopsAssumption
<1>2. /\ call = {} /\ running = {} /\ ops[<<w, k, c>>] > 0 /\ ops[<<w, k, c>>] \in 0..MaxOps
      /\ UNCHANGED <<asioWatchers, built, fdOf, want, strand>>
      /\ UNCHANGED <<phase, owner, asked>>
  BY <1>1 DEF Asio!Handler, Asio!Begin, Asio!tcpVars, AsioTyped
<1>3. /\ ops' = [ops EXCEPT ![<<w, k, c>>] = ops[<<w, k, c>>] - 1]
      /\ ops' \in [(1..MaxWatchers) \X Kinds \X Conn -> 0..MaxOps]
  <2>1. ops' = [ops EXCEPT ![<<w, k, c>>] = ops[<<w, k, c>>] - 1]
    BY DEF Asio!Handler
  <2>2. ops[<<w, k, c>>] - 1 \in 0..MaxOps
    BY <1>1, <1>2
  <2> QED BY <1>1, <2>1, <2>2 DEF AsioTyped
<1>4. /\ ops'[<<w, k, c>>] = ops[<<w, k, c>>] - 1
      /\ \A v \in 1..MaxWatchers, j \in Kinds, d \in Conn :
           <<v, j, d>> # <<w, k, c>> => ops'[<<v, j, d>>] = ops[<<v, j, d>>]
  <2>1. <<w, k, c>> \in DOMAIN ops /\ \A v \in 1..MaxWatchers, j \in Kinds, d \in Conn : <<v, j, d>> \in DOMAIN ops
    BY <1>1 DEF AsioTyped
  <2> QED BY <1>3, <2>1
<1>5. AsioFresh' /\ AsioWatched' /\ Opened'
  <2>1. Opened' /\ AsioWatched'
    BY <1>2 DEF AsioInv, Opened, AsioWatched
  <2>2. ASSUME NEW v \in 1..MaxWatchers, v > built
        PROVE  pending'[v] = {} /\ \A j \in Kinds, d \in Conn : ops'[<<v, j, d>>] = 0
    <3>1. pending[v] = {} /\ \A j \in Kinds, d \in Conn : ops[<<v, j, d>>] = 0
      BY <2>2 DEF AsioInv, AsioFresh, Asio!Watcher
    <3>2. v # w
      BY <1>2, <3>1
    <3>3. pending'[v] = pending[v]
      BY <1>1, <3>2 DEF Asio!Handler, AsioTyped
    <3>4. ASSUME NEW j \in Kinds, NEW d \in Conn PROVE ops'[<<v, j, d>>] = 0
      BY <1>4, <3>1, <3>2
    <3> QED BY <3>1, <3>3, <3>4
  <2> QED BY <1>2, <2>1, <2>2 DEF AsioFresh, Asio!Watcher
<1>6. Asio!Locked(w) <=> \E f \in Fd : asioWatchers[f] = w
  BY <1>1, <1>2 DEF Asio!Locked, Asio!Range, AsioTyped
<1>9. ASSUME NEW g \in Fd, asioWatchers[g] # 0
      PROVE  /\ asioWatchers[g] \in 1..MaxWatchers
             /\ pending[asioWatchers[g]] \subseteq Kinds /\ owner[g] \in Conn
  <2>1. built \in Nat /\ MaxWatchers \in Nat /\ built <= MaxWatchers
    BY <1>1, LoopsAssumption DEF AsioTyped
  <2>2. asioWatchers[g] \in 0..built
    BY <1>1 DEF AsioTyped
  <2>3. asioWatchers[g] \in 1..MaxWatchers
    BY <1>9, <2>1, <2>2
  <2>4. pending[asioWatchers[g]] \subseteq Kinds
    BY <1>1, <2>3 DEF AsioTyped
  <2>5. owner[g] # None
    BY <1>9 DEF AsioInv, AsioWatched
  <2>6. owner[g] \in Conn
    BY <1>1, <2>5 DEF AsioTyped
  <2> QED BY <2>3, <2>4, <2>6
<1>7. CASE ~Asio!Locked(w)
  <2>1. pending' = pending /\ UNCHANGED <<call, running>>
    BY <1>7 DEF Asio!Handler, Asio!tcpVars
  <2>2. AsioTyped'
    BY <1>1, <1>2, <1>3, <2>1 DEF AsioTyped
  <2>3. AsioArmed'
    <3> SUFFICES ASSUME NEW g \in Fd, asioWatchers[g] # 0
          PROVE /\ \A j \in Kinds, d \in Conn : ops'[<<asioWatchers[g], j, d>>] > 0 => d = owner[g]
                /\ \A j \in pending[asioWatchers[g]] : ops'[<<asioWatchers[g], j, owner[g]>>] > 0
                /\ \A j \in want[asioWatchers[g]] :
                     j \in pending[asioWatchers[g]] \/ <<asioWatchers[g], j>> \in running
      BY <1>2, <2>1 DEF AsioArmed
    <3>1. /\ asioWatchers[g] # w /\ asioWatchers[g] \in 1..MaxWatchers
          /\ pending[asioWatchers[g]] \subseteq Kinds /\ owner[g] \in Conn
      BY <1>6, <1>7, <1>9
    <3>2. \A j \in Kinds, d \in Conn : ops'[<<asioWatchers[g], j, d>>] = ops[<<asioWatchers[g], j, d>>]
      BY <1>4, <3>1
    <3> QED BY <3>1, <3>2 DEF AsioInv, AsioArmed
  <2>4. AsioRunning'
    BY <1>2, <2>1 DEF AsioRunning
  <2> QED BY <1>2, <1>5, <2>1, <2>2, <2>3, <2>4, AsioTypes, MonitorStutters DEF AsioInv
<1>8. CASE Asio!Locked(w)
  <2>1. PICK f \in Fd : asioWatchers[f] = w
    BY <1>6, <1>8
  <2>2. w # 0 /\ strand /\ fdOf[w] = f /\ want[w] = asked[f] /\ c = owner[f]
    BY <1>2, <2>1 DEF AsioInv, AsioWatched, AsioArmed
  <2>3. \A g \in Fd : asioWatchers[g] = w => g = f
    BY <2>1, <2>2 DEF AsioInv, AsioWatched
  <2>4. /\ pending' = [pending EXCEPT ![w] = pending[w] \ {k}]
        /\ pending' \in [1..MaxWatchers -> SUBSET Kinds]
        /\ pending'[w] = pending[w] \ {k} /\ pending[w] \subseteq Kinds
        /\ \A v \in 1..MaxWatchers : v # w => pending'[v] = pending[v]
    <3>1. pending' = [pending EXCEPT ![w] = pending[w] \ {k}]
      BY <1>8 DEF Asio!Handler
    <3> QED BY <1>1, <3>1 DEF AsioTyped
  <2>5. \/ /\ k \in want[w] /\ call' = {[conn |-> c, fd |-> f, ev |-> {k}]} /\ running' = {<<w, k>>}
        \/ k \notin want[w] /\ UNCHANGED <<call, running>>
    BY <1>8, <2>2 DEF Asio!Handler, Asio!Begin, Asio!tcpVars
  <2>6. AsioArmed'
    <3> SUFFICES ASSUME NEW g \in Fd, asioWatchers[g] # 0
          PROVE /\ \A j \in Kinds, d \in Conn : ops'[<<asioWatchers[g], j, d>>] > 0 => d = owner[g]
                /\ \A j \in pending'[asioWatchers[g]] : ops'[<<asioWatchers[g], j, owner[g]>>] > 0
                /\ \A j \in want[asioWatchers[g]] :
                     j \in pending'[asioWatchers[g]] \/ <<asioWatchers[g], j>> \in running'
      BY <1>2 DEF AsioArmed
    <3>1. CASE g = f
      <4>1. /\ \A j \in Kinds, d \in Conn : ops[<<w, j, d>>] > 0 => d = c
            /\ \A j \in pending[w] : ops[<<w, j, c>>] > 0
            /\ \A j \in want[w] : j \in pending[w]
        BY <1>2, <2>1, <2>2 DEF AsioInv, AsioArmed
      <4>2. \A j \in Kinds, d \in Conn : d # c => ops'[<<w, j, d>>] = ops[<<w, j, d>>]
        BY <1>4
      <4>3. \A j \in pending[w] \ {k} : ops'[<<w, j, c>>] = ops[<<w, j, c>>]
        BY <1>4, <2>4
      <4>4. \A j \in want[w] : j \in pending[w] \ {k} \/ <<w, j>> \in running'
        BY <2>5, <4>1
      <4> QED BY <2>1, <2>2, <2>4, <3>1, <4>1, <4>2, <4>3, <4>4
    <3>2. CASE g # f
      <4>1. /\ asioWatchers[g] # w /\ asioWatchers[g] \in 1..MaxWatchers
            /\ pending[asioWatchers[g]] \subseteq Kinds /\ owner[g] \in Conn
        BY <1>9, <2>3, <3>2
      <4>2. \A j \in Kinds, d \in Conn : ops'[<<asioWatchers[g], j, d>>] = ops[<<asioWatchers[g], j, d>>]
        BY <1>4, <4>1
      <4>3. \A j \in want[asioWatchers[g]] : j \in pending[asioWatchers[g]]
        BY <1>2 DEF AsioInv, AsioArmed
      <4> QED BY <2>4, <4>1, <4>2, <4>3 DEF AsioInv, AsioArmed
    <3> QED BY <3>1, <3>2
  <2>7. CASE k \in want[w] /\ call' = {[conn |-> c, fd |-> f, ev |-> {k}]} /\ running' = {<<w, k>>}
    <3>1. AsioTyped'
      <4>1. /\ [conn |-> c, fd |-> f, ev |-> {k}] \in [conn : Conn, fd : Fd, ev : SUBSET Kinds]
            /\ <<w, k>> \in (1..MaxWatchers) \X Kinds
        OBVIOUS
      <4> QED BY <1>1, <1>2, <1>3, <2>4, <2>7, <4>1 DEF AsioTyped
    <3>2. w \in 1..built
      BY <1>1, <2>1, <2>2 DEF AsioTyped
    <3>3. ops'[<<w, k, c>>] < MaxOps
      BY <1>1, <1>2, <1>4
    <3>4. /\ \A r, q \in running' : r = q
          /\ \A r \in running' : r[1] = w /\ r[2] = k
          /\ \A j \in call' : j.conn = c
      BY <2>7
    <3>5. AsioRunning'
      BY <1>2, <2>2, <2>3, <3>2, <3>3, <3>4 DEF AsioRunning
    <3>6. AsioInv'
      BY <1>5, <2>6, <3>1, <3>5, AsioTypes DEF AsioInv
    <3>7. owner[f] \in Conn /\ {k} \in SUBSET Kinds /\ {k} # {} /\ {k} \subseteq asked[f]
          /\ call' = {[conn |-> owner[f], fd |-> f, ev |-> {k}]}
      BY <2>2, <2>7
    <3> QED BY <1>2, <3>6, <3>7, MonitorProcess
  <2>8. CASE k \notin want[w] /\ UNCHANGED <<call, running>>
    <3>1. AsioTyped'
      BY <1>1, <1>2, <1>3, <2>4, <2>8 DEF AsioTyped
    <3>2. AsioRunning'
      BY <1>2, <2>8 DEF AsioRunning
    <3> QED BY <1>2, <1>5, <2>6, <2>8, <3>1, <3>2, AsioTypes, MonitorStutters DEF AsioInv
  <2> QED BY <2>5, <2>7, <2>8
<1> QED BY <1>7, <1>8

\* When process() returns the handler starts its next wait.
LEMMA AsioRearm ==
  ASSUME AsioInv, Asio!Rearm, loop' = loop
  PROVE  AsioInv' /\ [Monitor!Next]_(Monitor!vars)
<1> USE TcpAssumption
<1>1. AsioTyped /\ MaxOps \in Nat /\ MaxWatchers \in Nat /\ built \in Nat
  <2>1. AsioTyped
    BY AsioTypes DEF AsioInv
  <2> QED BY <2>1, LoopsAssumption DEF AsioTyped
<1>2. PICK k \in call, r \in running :
           /\ call # {} /\ call' = {} /\ running' = {}
           /\ pending' = [pending EXCEPT ![r[1]] = pending[r[1]] \cup {r[2]}]
           /\ ops' = [ops EXCEPT ![<<r[1], r[2], k.conn>>] = ops[<<r[1], r[2], k.conn>>] + 1]
           /\ UNCHANGED <<asioWatchers, built, fdOf, want, strand, phase, owner, asked>>
  BY DEF Asio!Rearm, Asio!End
<1> DEFINE w == r[1]
           i == r[2]
           c == k.conn
<1>3. /\ r = <<w, i>> /\ w \in 1..MaxWatchers /\ i \in Kinds /\ c \in Conn
      /\ <<w, i, c>> \in (1..MaxWatchers) \X Kinds \X Conn
  BY <1>1, <1>2 DEF AsioTyped
<1>4. /\ \A q \in running : q = <<w, i>>
      /\ ops[<<w, i, c>>] < MaxOps
      /\ \A f \in Fd : asioWatchers[f] = w => c = owner[f]
  BY <1>2, <1>3 DEF AsioInv, AsioRunning
<1>5. /\ pending' = [pending EXCEPT ![w] = pending[w] \cup {i}]
      /\ ops' = [ops EXCEPT ![<<w, i, c>>] = ops[<<w, i, c>>] + 1]
  BY <1>2
<1> HIDE DEF w, i, c
<1>6. /\ ops' \in [(1..MaxWatchers) \X Kinds \X Conn -> 0..MaxOps]
      /\ ops'[<<w, i, c>>] = ops[<<w, i, c>>] + 1 /\ ops[<<w, i, c>>] \in Nat
      /\ \A v \in 1..MaxWatchers, j \in Kinds, d \in Conn :
           <<v, j, d>> # <<w, i, c>> => ops'[<<v, j, d>>] = ops[<<v, j, d>>]
  <2>1. ops[<<w, i, c>>] \in 0..MaxOps /\ ops[<<w, i, c>>] + 1 \in 0..MaxOps
    BY <1>1, <1>3, <1>4 DEF AsioTyped
  <2>2. ops' \in [(1..MaxWatchers) \X Kinds \X Conn -> 0..MaxOps]
    BY <1>1, <1>5, <2>1 DEF AsioTyped
  <2>3. DOMAIN ops = (1..MaxWatchers) \X Kinds \X Conn
    BY <1>1 DEF AsioTyped
  <2>4. \A v \in 1..MaxWatchers, j \in Kinds, d \in Conn : <<v, j, d>> \in (1..MaxWatchers) \X Kinds \X Conn
    OBVIOUS
  <2> QED BY <1>1, <1>3, <1>5, <2>1, <2>2, <2>3, <2>4
<1>7. /\ pending' \in [1..MaxWatchers -> SUBSET Kinds] /\ pending'[w] = pending[w] \cup {i}
      /\ \A v \in 1..MaxWatchers : v # w => pending'[v] = pending[v]
  BY <1>1, <1>3, <1>5 DEF AsioTyped
<1>8. AsioTyped'
  BY <1>1, <1>2, <1>6, <1>7 DEF AsioTyped
<1>9. Opened' /\ AsioWatched' /\ AsioRunning'
  BY <1>2 DEF AsioInv, Opened, AsioWatched, AsioRunning
<1>10. AsioArmed'
  <2> SUFFICES ASSUME NEW g \in Fd, asioWatchers[g] # 0
        PROVE /\ \A j \in Kinds, d \in Conn : ops'[<<asioWatchers[g], j, d>>] > 0 => d = owner[g]
              /\ \A j \in pending'[asioWatchers[g]] : ops'[<<asioWatchers[g], j, owner[g]>>] > 0
              /\ \A j \in want[asioWatchers[g]] : j \in pending'[asioWatchers[g]]
    BY <1>2 DEF AsioArmed
  <2> DEFINE v == asioWatchers[g]
  <2>1. /\ v \in 1..MaxWatchers
    <3>1. asioWatchers[g] \in 0..built /\ built <= MaxWatchers
      BY <1>1 DEF AsioTyped
    <3> QED BY <1>1, <3>1
  <2>2. owner[g] # None
    BY DEF AsioInv, AsioWatched
  <2>3. owner[g] \in Conn
    BY <1>1, <2>2 DEF AsioTyped
  <2>4. pending[v] \subseteq Kinds /\ want[v] \subseteq Kinds
    BY <1>1, <2>1 DEF AsioTyped
  <2>5. /\ \A j \in Kinds, d \in Conn : ops[<<v, j, d>>] > 0 => d = owner[g]
        /\ \A j \in pending[v] : ops[<<v, j, owner[g]>>] > 0
        /\ \A j \in want[v] : j \in pending[v] \/ <<v, j>> \in running
    BY DEF AsioInv, AsioArmed
  <2>6. v = w => c = owner[g]
    BY <1>4
  <2> HIDE DEF v
  <2>7. CASE v = w
    <3>1. \A j \in Kinds, d \in Conn : ops'[<<v, j, d>>] > 0 => d = owner[g]
      BY <1>3, <1>6, <2>5, <2>6, <2>7
    <3>2. ASSUME NEW j \in pending'[v] PROVE ops'[<<v, j, owner[g]>>] > 0
      <4>1. CASE j = i
        BY <1>6, <2>6, <2>7, <4>1
      <4>2. CASE j # i
        <5>1. j \in pending[v] /\ j \in Kinds
          BY <1>7, <2>4, <2>7, <3>2, <4>2
        <5>2. ops'[<<v, j, owner[g]>>] = ops[<<v, j, owner[g]>>]
          BY <1>6, <2>1, <2>3, <4>2, <5>1
        <5> QED BY <2>5, <5>1, <5>2
      <4> QED BY <4>1, <4>2
    <3>3. ASSUME NEW j \in want[v] PROVE j \in pending'[v]
      <4>1. <<v, j>> \in running => j = i
        BY <1>4
      <4> QED BY <1>7, <2>5, <2>7, <4>1
    <3> QED BY <3>1, <3>2, <3>3 DEF v
  <2>8. CASE v # w
    <3>1. \A j \in Kinds, d \in Conn : ops'[<<v, j, d>>] = ops[<<v, j, d>>]
      BY <1>6, <2>1, <2>8
    <3>2. pending'[v] = pending[v]
      BY <1>7, <2>1, <2>8
    <3>3. \A j \in want[v] : <<v, j>> \notin running
      BY <1>4, <2>8
    <3> QED BY <2>3, <2>4, <2>5, <3>1, <3>2, <3>3 DEF v
  <2> QED BY <2>7, <2>8
<1>11. AsioFresh'
  <2>1. w <= built /\ w \in Nat
    BY <1>1, <1>2 DEF AsioInv, AsioRunning, w
  <2>2. ASSUME NEW v \in 1..MaxWatchers, v > built
        PROVE  pending'[v] = {} /\ \A j \in Kinds, d \in Conn : ops'[<<v, j, d>>] = 0
    <3>1. v # w
      BY <1>1, <2>1, <2>2
    <3>2. pending[v] = {} /\ \A j \in Kinds, d \in Conn : ops[<<v, j, d>>] = 0
      BY <2>2 DEF AsioInv, AsioFresh, Asio!Watcher
    <3> QED BY <1>6, <1>7, <3>1, <3>2
  <2> QED BY <1>2, <2>2 DEF AsioFresh, Asio!Watcher
<1> QED BY <1>2, <1>8, <1>9, <1>10, <1>11, AsioTypes, MonitorDone DEF AsioInv

\* Every step of LibBoostAsioHandler keeps its invariant and is one of FdMonitor.
LEMMA AsioStep ==
  ASSUME AsioInv, Asio!Next, loop = "asio", loop' = loop
  PROVE  AsioInv' /\ [Monitor!Next]_(Monitor!vars)
<1> USE TcpAssumption
<1>0. AsioTyped
  BY AsioTypes DEF AsioInv
<1>1. ASSUME NEW c \in Conn, Asio!Ask(c) PROVE AsioInv' /\ [Monitor!Next]_(Monitor!vars)
  <2>1. PICK f \in Fd, ks \in SUBSET Kinds :
             /\ Asio!monitor(c, f, ks)
             /\ Asio!Open(c, f, ks) \/ Asio!Idle(c, f, ks) \/ (ks = {} /\ Asio!Shut(c, f))
    BY <1>1 DEF Asio!Ask, Asio!Kinds, Kinds
  <2>2. /\ strand /\ UNCHANGED <<running, strand>>
        /\ \A i \in DOMAIN ops : ops'[i] + (IF <<i[1], i[2]>> \in running THEN 1 ELSE 0) <= MaxOps
    BY <1>1 DEF Asio!Ask
  <2>3. PICK o \in Conn \cup {None} :
             /\ owner' = [owner EXCEPT ![f] = o] /\ asked' = [asked EXCEPT ![f] = ks]
             /\ ks # {} => o = c /\ owner[f] \in {None, c}
             /\ ks = {} => o = None
             /\ UNCHANGED <<phase, call>>
    <3>1. CASE Asio!Open(c, f, ks)
      BY <3>1 DEF Asio!Open
    <3>2. CASE Asio!Idle(c, f, ks)
      <4>1. owner' = [owner EXCEPT ![f] = c]
        BY <1>0, <3>2 DEF Asio!Idle, AsioTyped
      <4> QED BY <3>2, <4>1 DEF Asio!Idle
    <3>3. CASE ks = {} /\ Asio!Shut(c, f)
      BY <3>3 DEF Asio!Shut
    <3> QED BY <2>1, <3>1, <3>2, <3>3
  <2>4. AsioInv'
    BY <2>1, <2>2, <2>3, AsioMonitor
  <2>5. o = None <=> ks = {}
    BY <2>3
  <2> QED BY <2>3, <2>4, <2>5, MonitorAsk
<1>2. ASSUME NEW c \in Conn, Asio!Ignored(c) PROVE AsioInv' /\ [Monitor!Next]_(Monitor!vars)
  <2>1. /\ UNCHANGED <<owner, asked, call, asioWatchers, built, fdOf, want, pending, ops, running, strand>>
        /\ phase' \in [Conn -> {"new", "opened", "connected", "negotiated", "lost", "gone"}]
    BY <1>0, <1>2 DEF Asio!Ignored, Asio!Construct, Asio!Detach, Asio!To, AsioTyped
  <2>2. AsioTyped'
    BY <1>0, <2>1 DEF AsioTyped
  <2>3. Opened' /\ AsioWatched' /\ AsioArmed' /\ AsioRunning' /\ AsioFresh'
    BY <2>1 DEF AsioInv, Opened, AsioWatched, AsioArmed, AsioRunning, AsioFresh
  <2> QED BY <2>1, <2>2, <2>3, AsioTypes, MonitorStutters DEF AsioInv
<1>3. ASSUME NEW w \in 1..MaxWatchers, NEW k \in Kinds, NEW c \in Conn, Asio!Handler(w, k, c)
      PROVE  AsioInv' /\ [Monitor!Next]_(Monitor!vars)
  BY <1>3, AsioHandler
<1>4. ASSUME Asio!Destroy PROVE AsioInv' /\ [Monitor!Next]_(Monitor!vars)
  <2>1. /\ call = {} /\ running = {} /\ strand' = FALSE /\ asioWatchers' = [f \in Fd |-> 0]
        /\ UNCHANGED <<phase, owner, asked, call, built, fdOf, want, pending, ops, running>>
    BY <1>0, <1>4 DEF Asio!Destroy, Asio!tcpVars, AsioTyped
  <2>2. AsioTyped'
    <3>1. 0 \in 0..built
      BY <1>0, LoopsAssumption DEF AsioTyped
    <3> QED BY <1>0, <2>1, <3>1 DEF AsioTyped
  <2>3. Opened' /\ AsioWatched' /\ AsioArmed' /\ AsioRunning' /\ AsioFresh'
    BY <2>1 DEF AsioInv, Opened, AsioWatched, AsioArmed, AsioRunning, AsioFresh
  <2> QED BY <2>1, <2>2, <2>3, AsioTypes, MonitorStutters DEF AsioInv
<1> QED BY <1>1, <1>2, <1>3, <1>4, AsioRearm DEF Asio!Next, Asio!Watcher, Asio!Kinds, Kinds

\* No watcher exists at first.
LEMMA AsioInit == ASSUME Asio!Init PROVE AsioInv
<1> USE TcpAssumption, LoopsAssumption
<1>1. /\ phase = [c \in Conn |-> "new"] /\ owner = [f \in Fd |-> None] /\ asked = [f \in Fd |-> {}]
      /\ call = {} /\ asioWatchers = [f \in Fd |-> 0] /\ built = 0 /\ running = {} /\ strand = TRUE
      /\ want = [w \in 1..MaxWatchers |-> {}] /\ pending = [w \in 1..MaxWatchers |-> {}]
      /\ ops = [o \in (1..MaxWatchers) \X Kinds \X Conn |-> 0]
  BY DEF Asio!Init, Asio!TcpInit, Asio!Watcher, Asio!Kinds, Kinds
<1>2. fdOf \in [1..MaxWatchers -> Fd]
  BY DEF Asio!Init, Asio!Watcher
<1>3. AsioTyped
  BY <1>1, <1>2 DEF AsioTyped
<1>4. AsioFresh
  <2>1. ASSUME NEW w \in 1..MaxWatchers, NEW k \in Kinds, NEW c \in Conn PROVE ops[<<w, k, c>>] = 0
    <3>1. <<w, k, c>> \in (1..MaxWatchers) \X Kinds \X Conn
      OBVIOUS
    <3> QED BY <1>1, <3>1
  <2>2. \A w \in 1..MaxWatchers : pending[w] = {}
    BY <1>1
  <2> QED BY <2>1, <2>2 DEF AsioFresh, Asio!Watcher
<1> QED BY <1>1, <1>3, <1>4, AsioTypes DEF AsioInv, Opened, AsioWatched, AsioArmed, AsioRunning

\* The invariant of asio implies that no wake-up is lost.
LEMMA AsioArmedWhenAsked == ASSUME AsioInv PROVE Asio!ArmedWhenAsked
<1> USE TcpAssumption
<1>0. AsioTyped
  BY AsioTypes DEF AsioInv
<1> SUFFICES ASSUME strand, NEW f \in Fd, NEW k \in asked[f]
             PROVE  /\ asioWatchers[f] # 0
                    /\ \/ <<asioWatchers[f], k>> \in running
                       \/ \E c \in Conn : ops[<<asioWatchers[f], k, c>>] > 0
  BY DEF Asio!ArmedWhenAsked
<1>1. owner[f] # None
  BY DEF AsioInv, Opened
<1>2. owner[f] \in Conn /\ asioWatchers[f] # 0 /\ want[asioWatchers[f]] = asked[f]
  BY <1>0, <1>1 DEF AsioInv, AsioWatched, AsioTyped
<1>3. k \in pending[asioWatchers[f]] \/ <<asioWatchers[f], k>> \in running
  BY <1>2 DEF AsioInv, AsioArmed
<1>4. k \in pending[asioWatchers[f]] => ops[<<asioWatchers[f], k, owner[f]>>] > 0
  BY <1>2 DEF AsioInv, AsioArmed
<1> QED BY <1>2, <1>3, <1>4
-----------------------------------------------------------------------------
\* The types that the steps of LibEvHandler need.
EvTyped ==
  /\ phase \in [TimedConn -> {"new", "opened", "connected", "negotiated", "lost", "gone"}]
  /\ owner \in [Fd -> TimedConn \cup {None}] /\ asked \in [Fd -> SUBSET Kinds]
  /\ call \in SUBSET [conn : TimedConn, fd : Fd, ev : SUBSET Kinds]
  /\ now \in 0..MaxTime /\ refs \in Int
  /\ DOMAIN wrap \subseteq TimedConn
  /\ \A c \in DOMAIN wrap :
       wrap[c] \in [next : Nat, expire : Nat, timeout : Timeouts \cup {0}, fds : [Fd -> SUBSET Kinds]]
  /\ DOMAIN timer \subseteq TimedConn
  /\ \A c \in DOMAIN timer : timer[c] \in [at : Int, repeat : Int]
  /\ ready \in [TimedConn -> BOOLEAN] /\ closing \in [TimedConn -> {"no", "asked", "immediate"}]
  /\ beat \in [TimedConn -> 0..MaxTime] /\ heard \in [TimedConn -> -1..MaxTime]

\* The I/O watchers of a wrapper agree with what its connection asks for.
EvWatched ==
  /\ \A c \in DOMAIN wrap, f \in Fd : wrap[c].fds[f] = IF owner[f] = c THEN asked[f] ELSE {}
  /\ \A f \in Fd : owner[f] # None => owner[f] \in DOMAIN wrap

\* The stages of the timer of a connection: no wrapper yet; a wrapper without a
\* timeout, whose timer bounds the time for setting up; one with a timeout.
EvNoWrap(c) ==
  c \notin DOMAIN wrap =>
    /\ c \in DOMAIN timer => timer[c].repeat = 0
    /\ phase[c] # "gone" => closing[c] = "no" /\ heard[c] = -1

EvSetup(c) ==
  c \in DOMAIN wrap /\ wrap[c].timeout = 0 =>
    /\ heard[c] = -1
    /\ c \in DOMAIN timer => timer[c].repeat = 0
    /\ ~ready[c] /\ closing[c] = "no" => c \in DOMAIN timer /\ timer[c].at = wrap[c].expire
    /\ closing[c] = "immediate" => c \notin DOMAIN timer

EvTimed(c) ==
  c \in DOMAIN wrap /\ wrap[c].timeout # 0 =>
    /\ closing[c] # "immediate" /\ phase[c] \in {"negotiated", "lost", "gone"}
    /\ heard[c] >= 0 => wrap[c].expire = heard[c] + 3 * wrap[c].timeout

EvReady(c) == ready[c] => phase[c] \in {"negotiated", "lost", "gone"}

EvStage(c) == EvNoWrap(c) /\ EvSetup(c) /\ EvTimed(c) /\ EvReady(c)

\* The references of the loop: one is missing for every timer that a wrapper with a
\* timeout has stopped, and for every connection that was not set up in time.
Stopped   == {c \in DOMAIN wrap : wrap[c].timeout # 0 /\ c \notin DOMAIN timer}
Immediate == {c \in TimedConn : closing[c] = "immediate"}

EvRefs ==
  /\ IsFiniteSet(Stopped) /\ IsFiniteSet(Immediate)
  /\ refs = -Cardinality(Stopped) - Cardinality(Immediate)

EvInv == EvTyped /\ Opened /\ EvWatched /\ (\A c \in TimedConn : EvStage(c)) /\ EvRefs

\* While a connection is not being closed, its timer is set for what comes first, the
\* next heartbeat or the expiry, and is not served too late.
EvOnTime(c) ==
  c \in DOMAIN wrap /\ closing[c] = "no" =>
    /\ c \in DOMAIN timer => now <= timer[c].at + MaxLate
    /\ wrap[c].timeout # 0 =>
         /\ c \in DOMAIN timer /\ timer[c].at <= wrap[c].next /\ timer[c].at <= wrap[c].expire
         /\ wrap[c].next <= beat[c] + LibEv!HalfTimeout(wrap[c].timeout) /\ beat[c] <= now

\* The loop serves a timer late by less than half the smallest timeout.
Prompt == \A t \in Timeouts \ {0} : MaxLate < LibEv!HalfTimeout(t)
EvPunctual == \A c \in TimedConn : EvOnTime(c)

\* TypeOK of libev, spelled out.
LEMMA EvTypes == (LibEv!TypeOK <=> EvTyped) /\ (LibEv!TypeOK' <=> EvTyped')
  BY DEF LibEv!TypeOK, EvTyped, LibEv!TcpTypeOK, LibEv!Call, LibEv!Kinds, Kinds

\* Timeouts are numbers.
LEMMA EvTimeouts == \A t \in Timeouts \cup {0} : t \in Nat
  BY LoopsAssumption

\* Half a timeout is one second at least, and the whole one at most.
LEMMA EvHalf ==
  ASSUME NEW t \in Nat \ {0}
  PROVE  LibEv!HalfTimeout(t) \in Nat /\ 2 <= LibEv!HalfTimeout(t) /\ LibEv!HalfTimeout(t) <= 2 * t
  BY DEF LibEv!HalfTimeout

\* A step that leaves a connection alone.
EvSame(d) ==
  /\ d \in DOMAIN wrap' <=> d \in DOMAIN wrap
  /\ d \in DOMAIN wrap => wrap'[d] = wrap[d]
  /\ d \in DOMAIN timer' <=> d \in DOMAIN timer
  /\ d \in DOMAIN timer => timer'[d] = timer[d]
  /\ ready'[d] = ready[d] /\ closing'[d] = closing[d]
  /\ beat'[d] = beat[d] /\ heard'[d] = heard[d] /\ phase'[d] = phase[d]

\* Such a step keeps the stage of the connection, and its timer on time.
LEMMA EvFrame ==
  ASSUME NEW d \in TimedConn, EvSame(d)
  PROVE  /\ EvStage(d) => EvStage(d)'
         /\ now' = now /\ EvOnTime(d) => EvOnTime(d)'
<1>1. EvStage(d) => EvStage(d)'
  BY DEF EvSame, EvStage, EvNoWrap, EvSetup, EvTimed, EvReady
<1>2. ASSUME now' = now, EvOnTime(d) PROVE EvOnTime(d)'
  <2>1. CASE d \in DOMAIN wrap /\ closing[d] = "no" /\ d \in DOMAIN timer
    BY <1>2, <2>1 DEF EvSame, EvOnTime
  <2>2. CASE d \in DOMAIN wrap /\ closing[d] = "no" /\ d \notin DOMAIN timer
    BY <1>2, <2>2 DEF EvSame, EvOnTime
  <2>3. CASE d \notin DOMAIN wrap \/ closing[d] # "no"
    BY <2>3 DEF EvSame, EvOnTime
  <2> QED BY <2>1, <2>2, <2>3
<1> QED BY <1>1, <1>2

\* What is kept when only one connection changes, and the references are as before.
LEMMA EvOne ==
  ASSUME EvInv, NEW c \in TimedConn, now' = now,
         \A d \in TimedConn \ {c} : EvSame(d), EvStage(c)',
         Prompt /\ EvOnTime(c) => EvOnTime(c)'
  PROVE  /\ \A d \in TimedConn : EvStage(d)'
         /\ Prompt /\ EvPunctual => EvPunctual'
<1>1. ASSUME NEW d \in TimedConn PROVE EvStage(d)'
  <2>1. CASE d = c
    BY <2>1
  <2>2. CASE d # c
    <3>1. EvSame(d) /\ EvStage(d)
      BY <2>2 DEF EvInv
    <3> QED BY <3>1, EvFrame
  <2> QED BY <2>1, <2>2
<1>2. ASSUME Prompt, EvPunctual, NEW d \in TimedConn PROVE EvOnTime(d)'
  <2>1. EvOnTime(d)
    BY <1>2 DEF EvPunctual
  <2>2. CASE d = c
    BY <1>2, <2>1, <2>2
  <2>3. CASE d # c
    <3>1. EvSame(d)
      BY <2>3
    <3> QED BY <2>1, <3>1, EvFrame
  <2> QED BY <2>2, <2>3
<1>3. Prompt /\ EvPunctual => EvPunctual'
  BY <1>2 DEF EvPunctual
<1> QED BY <1>1, <1>3

\* A call of monitor() keeps the invariant of libev.
LEMMA EvMonitor ==
  ASSUME EvInv, NEW c \in TimedConn, NEW f \in Fd, NEW ks \in SUBSET Kinds, NEW o \in TimedConn \cup {None},
         LibEv!monitor(c, f, ks), owner' = [owner EXCEPT ![f] = o], asked' = [asked EXCEPT ![f] = ks],
         ks # {} => o = c /\ owner[f] \in {None, c}, ks = {} => o = None /\ owner[f] = c,
         phase[c] # "gone", UNCHANGED <<phase, call>>
  PROVE  EvInv' /\ (Prompt /\ EvPunctual => EvPunctual')
<1> USE TcpAssumption, LoopsAssumption
<1>1. EvTyped /\ now \in Nat /\ None \notin TimedConn
  BY DEF EvInv, EvTyped
<1>2. /\ owner' \in [Fd -> TimedConn \cup {None}] /\ asked' \in [Fd -> SUBSET Kinds] /\ Opened'
      /\ owner'[f] = o /\ asked'[f] = ks
      /\ \A g \in Fd : g # f => owner'[g] = owner[g] /\ asked'[g] = asked[g]
  BY <1>1 DEF EvInv, Opened, EvTyped
<1> DEFINE l == LibEv!lookup(c)
           n == [l EXCEPT !.fds[f] = ks]
           N == [next : Nat, expire : Nat, timeout : Timeouts \cup {0}, fds : [Fd -> SUBSET Kinds]]
<1>3. /\ l \in N
      /\ c \in DOMAIN wrap => l = wrap[c]
      /\ c \notin DOMAIN wrap => l = [next |-> 0, expire |-> now + ConnectTimeout, timeout |-> 0, fds |-> [g \in Fd |-> {}]]
  <2>1. CASE c \in DOMAIN wrap
    BY <1>1, <2>1 DEF LibEv!lookup, EvTyped
  <2>2. CASE c \notin DOMAIN wrap
    <3>1. l = [next |-> 0, expire |-> now + ConnectTimeout, timeout |-> 0, fds |-> [g \in Fd |-> {}]]
      BY <2>2 DEF LibEv!lookup, LibEv!NewWrap
    <3> HIDE DEF l
    <3> QED BY <1>1, <2>2, <3>1
  <2> QED BY <2>1, <2>2
<1>4. /\ wrap' = [d \in DOMAIN wrap \cup {c} |-> IF d = c THEN n ELSE wrap[d]]
      /\ c \in DOMAIN wrap => timer' = timer
      /\ c \notin DOMAIN wrap =>
           timer' = [d \in DOMAIN timer \cup {c} |->
                       IF d = c THEN [at |-> now + ConnectTimeout, repeat |-> 0] ELSE timer[d]]
      /\ UNCHANGED <<now, refs, ready, closing, beat, heard>>
  BY DEF LibEv!monitor, LibEv!Put
<1> HIDE DEF l
<1>5. /\ n \in N /\ n.next = l.next /\ n.expire = l.expire /\ n.timeout = l.timeout
      /\ n.fds[f] = ks /\ \A g \in Fd : g # f => n.fds[g] = l.fds[g]
  BY <1>3
<1> HIDE DEF n
<1>6. /\ DOMAIN wrap' = DOMAIN wrap \cup {c} /\ wrap'[c] = n
      /\ \A d \in DOMAIN wrap : d # c => wrap'[d] = wrap[d]
  BY <1>4
<1>7. EvTyped'
  <2>1. DOMAIN wrap' \subseteq TimedConn /\ \A d \in DOMAIN wrap' : wrap'[d] \in N
    BY <1>1, <1>5, <1>6 DEF EvTyped
  <2>2. DOMAIN timer' \subseteq TimedConn /\ \A d \in DOMAIN timer' : timer'[d] \in [at : Int, repeat : Int]
    BY <1>1, <1>4 DEF EvTyped
  <2> QED BY <1>1, <1>2, <1>4, <2>1, <2>2 DEF EvTyped
<1>8. EvWatched'
  <2>1. ASSUME NEW d \in DOMAIN wrap', NEW g \in Fd PROVE wrap'[d].fds[g] = IF owner'[g] = d THEN asked'[g] ELSE {}
    <3>1. CASE d = c /\ g = f
      BY <1>1, <1>2, <1>5, <1>6, <3>1
    <3>2. CASE d = c /\ g # f /\ c \in DOMAIN wrap
      BY <1>2, <1>3, <1>5, <1>6, <3>2 DEF EvInv, EvWatched
    <3>3. CASE d = c /\ g # f /\ c \notin DOMAIN wrap
      <4>1. owner[g] # c
        BY <1>1, <3>3 DEF EvInv, EvWatched
      <4>2. l.fds[g] = {}
        BY <1>3, <3>3
      <4> QED BY <1>2, <1>5, <1>6, <3>3, <4>1, <4>2
    <3>4. CASE d # c
      <4>1. d \in DOMAIN wrap /\ wrap'[d] = wrap[d] /\ d \in TimedConn
        BY <1>1, <1>6, <2>1, <3>4 DEF EvTyped
      <4>2. wrap[d].fds[g] = IF owner[g] = d THEN asked[g] ELSE {}
        BY <4>1 DEF EvInv, EvWatched
      <4>3. CASE g = f
        BY <1>1, <1>2, <3>4, <4>1, <4>2, <4>3
      <4>4. CASE g # f
        BY <1>2, <4>1, <4>2, <4>4
      <4> QED BY <4>3, <4>4
    <3> QED BY <3>1, <3>2, <3>3, <3>4
  <2>2. ASSUME NEW g \in Fd, owner'[g] # None PROVE owner'[g] \in DOMAIN wrap'
    BY <1>2, <1>6, <2>2 DEF EvInv, EvWatched
  <2> QED BY <2>1, <2>2 DEF EvWatched
<1>9. \A d \in TimedConn \ {c} : EvSame(d)
  BY <1>4, <1>6 DEF EvSame
<1>10. EvStage(c)'
  <2>1. EvStage(c)
    BY DEF EvInv
  <2>2. CASE c \in DOMAIN wrap
    <3>1. wrap'[c].timeout = wrap[c].timeout /\ wrap'[c].expire = wrap[c].expire
      BY <1>3, <1>5, <1>6, <2>2
    <3> QED BY <1>4, <1>6, <2>1, <2>2, <3>1 DEF EvStage, EvNoWrap, EvSetup, EvTimed, EvReady
  <2>3. CASE c \notin DOMAIN wrap
    <3>1. wrap'[c].timeout = 0 /\ wrap'[c].expire = now + ConnectTimeout
      BY <1>3, <1>5, <1>6, <2>3
    <3>2. c \in DOMAIN timer' /\ timer'[c].at = now + ConnectTimeout /\ timer'[c].repeat = 0
      BY <1>4, <2>3
    <3>3. closing'[c] = "no" /\ heard'[c] = -1 /\ (ready'[c] => phase'[c] \in {"negotiated", "lost", "gone"})
      BY <1>4, <2>1, <2>3 DEF EvStage, EvNoWrap, EvReady
    <3> QED BY <1>6, <3>1, <3>2, <3>3 DEF EvStage, EvNoWrap, EvSetup, EvTimed, EvReady
  <2> QED BY <2>2, <2>3
<1>11. EvOnTime(c) => EvOnTime(c)'
  <2>1. CASE c \in DOMAIN wrap
    <3>1. wrap'[c].timeout = wrap[c].timeout /\ wrap'[c].expire = wrap[c].expire /\ wrap'[c].next = wrap[c].next
      BY <1>3, <1>5, <1>6, <2>1
    <3> QED BY <1>4, <1>6, <2>1, <3>1 DEF EvOnTime
  <2>2. CASE c \notin DOMAIN wrap
    <3>1. wrap'[c].timeout = 0 /\ timer'[c].at = now + ConnectTimeout /\ now' = now
      BY <1>3, <1>4, <1>5, <1>6, <2>2
    <3>2. now' <= timer'[c].at + MaxLate
      BY <1>1, <3>1
    <3> QED BY <3>1, <3>2 DEF EvOnTime
  <2> QED BY <2>1, <2>2
<1>12. EvRefs'
  <2>1. Stopped' = Stopped
    <3>1. c \in DOMAIN wrap => wrap'[c].timeout = wrap[c].timeout
      BY <1>3, <1>5, <1>6
    <3>2. c \notin DOMAIN wrap => wrap'[c].timeout = 0
      BY <1>3, <1>5, <1>6
    <3>3. \A d : d \in Stopped' <=> d \in Stopped
      BY <1>4, <1>6, <3>1, <3>2 DEF Stopped
    <3> QED BY <3>3 DEF Stopped
  <2>2. Immediate' = Immediate
    BY <1>4 DEF Immediate
  <2> QED BY <1>4, <2>1, <2>2 DEF EvInv, EvRefs
<1> QED BY <1>2, <1>4, <1>7, <1>8, <1>9, <1>10, <1>11, <1>12, EvOne DEF EvInv

\* The timeout is negotiated: the timer that bounds the setup becomes that of heartbeats.
LEMMA EvStart ==
  ASSUME EvInv, NEW c \in TimedConn, NEW t \in Timeouts, LibEv!start(c, t)
  PROVE  EvInv' /\ (Prompt /\ EvPunctual => EvPunctual') /\ UNCHANGED <<owner, asked, call, closing>>
<1> USE TcpAssumption, LoopsAssumption
<1>1. EvTyped /\ now \in Nat /\ t \in Nat /\ EvStage(c)
  BY DEF EvInv, EvTyped
<1>2. /\ c \in DOMAIN wrap /\ closing[c] = "no" /\ now < wrap[c].expire /\ phase[c] = "connected"
      /\ phase' = [phase EXCEPT ![c] = "negotiated"] /\ beat' = [beat EXCEPT ![c] = now]
      /\ UNCHANGED <<owner, asked, call, now, ready, closing, heard>>
  BY DEF LibEv!start, LibEv!Negotiate, LibEv!To
<1>3. /\ phase' \in [TimedConn -> {"new", "opened", "connected", "negotiated", "lost", "gone"}]
      /\ beat' \in [TimedConn -> 0..MaxTime] /\ phase'[c] = "negotiated" /\ beat'[c] = now
      /\ \A d \in TimedConn \ {c} : phase'[d] = phase[d] /\ beat'[d] = beat[d]
  BY <1>1, <1>2 DEF EvTyped
<1>4. /\ wrap[c].next \in Nat /\ wrap[c].expire \in Nat /\ wrap[c].timeout \in Nat /\ now \in Int
      /\ ~ready[c] /\ wrap[c].timeout = 0 /\ c \in DOMAIN timer /\ heard[c] = -1
  <2>1. ~ready[c] /\ wrap[c].timeout = 0
    BY <1>1, <1>2 DEF EvStage, EvReady, EvTimed
  <2> QED BY <1>1, <1>2, <2>1 DEF EvTyped, EvStage, EvSetup
<1>5. CASE t = 0
  <2>1. UNCHANGED <<wrap, timer, refs>>
    BY <1>5 DEF LibEv!start
  <2>2. EvTyped'
    BY <1>1, <1>2, <1>3, <2>1 DEF EvTyped
  <2>3. \A d \in TimedConn \ {c} : EvSame(d)
    BY <1>2, <1>3, <2>1 DEF EvSame
  <2>4. EvStage(c)'
    BY <1>1, <1>2, <1>3, <2>1 DEF EvStage, EvNoWrap, EvSetup, EvTimed, EvReady
  <2>5. EvOnTime(c) => EvOnTime(c)'
    BY <1>2, <1>4, <2>1 DEF EvOnTime
  <2>6. Opened' /\ EvWatched' /\ EvRefs'
    <3>1. Opened' /\ EvWatched'
      BY <1>2, <2>1 DEF EvInv, Opened, EvWatched
    <3>2. Stopped' = Stopped /\ Immediate' = Immediate /\ refs' = refs
      BY <1>2, <2>1 DEF Stopped, Immediate
    <3> QED BY <3>1, <3>2 DEF EvInv, EvRefs
  <2> QED BY <1>2, <2>2, <2>3, <2>4, <2>5, <2>6, EvOne DEF EvInv
<1>6. CASE t # 0
  <2> DEFINE h    == LibEv!HalfTimeout(t)
             next == now + h
             r    == LibEv!Least(next, wrap[c].expire) - now
  <2>1. h \in Nat /\ 2 <= h
    BY <1>1, <1>6, EvHalf
  <2>w. /\ wrap' = [wrap EXCEPT ![c].timeout = t, ![c].next = next] /\ LibEv!TimerAgain(c, r)
    BY <1>6 DEF LibEv!start
  <2> HIDE DEF h
  <2>2. /\ r \in Int /\ r > 0 /\ now + r <= next /\ now + r <= wrap[c].expire /\ next \in Nat
    BY <1>1, <1>2, <1>4, <2>1 DEF LibEv!Least
  <2>3. /\ DOMAIN wrap' = DOMAIN wrap /\ wrap'[c].timeout = t /\ wrap'[c].next = next
        /\ wrap'[c].expire = wrap[c].expire /\ wrap'[c].fds = wrap[c].fds
        /\ wrap'[c] \in [next : Nat, expire : Nat, timeout : Timeouts \cup {0}, fds : [Fd -> SUBSET Kinds]]
        /\ \A d \in DOMAIN wrap : d # c => wrap'[d] = wrap[d]
    <3>1. wrap[c] \in [next : Nat, expire : Nat, timeout : Timeouts \cup {0}, fds : [Fd -> SUBSET Kinds]]
      BY <1>1, <1>2 DEF EvTyped
    <3> HIDE DEF next
    <3>2. wrap' = [wrap EXCEPT ![c] = [[wrap[c] EXCEPT !.timeout = t] EXCEPT !.next = next]]
      BY <1>2, <2>w, <3>1
    <3> QED BY <1>2, <2>2, <3>1, <3>2
  <2> HIDE DEF next, r
  <2>4. timer' = [d \in DOMAIN timer \cup {c} |-> IF d = c THEN [at |-> now + r, repeat |-> r] ELSE timer[d]]
    BY <2>2, <2>w DEF LibEv!TimerAgain, LibEv!Put
  <2>5. /\ c \in DOMAIN timer' /\ timer'[c].at = now + r
        /\ DOMAIN timer' = DOMAIN timer \cup {c} /\ timer'[c] \in [at : Int, repeat : Int]
        /\ \A d \in DOMAIN timer : d # c => timer'[d] = timer[d]
    BY <1>4, <2>2, <2>4
  <2>6. EvTyped'
    <3>1. refs' \in Int
      BY <1>1, <2>2, <2>w DEF EvTyped, LibEv!TimerAgain
    <3>2. /\ \A d \in DOMAIN wrap' : wrap'[d] \in [next : Nat, expire : Nat, timeout : Timeouts \cup {0}, fds : [Fd -> SUBSET Kinds]]
          /\ DOMAIN wrap' \subseteq TimedConn /\ DOMAIN timer' \subseteq TimedConn
          /\ \A d \in DOMAIN timer' : timer'[d] \in [at : Int, repeat : Int]
      BY <1>1, <2>3, <2>5 DEF EvTyped
    <3> QED BY <1>1, <1>2, <1>3, <3>1, <3>2 DEF EvTyped
  <2>7. \A d \in TimedConn \ {c} : EvSame(d)
    BY <1>2, <1>3, <2>3, <2>5 DEF EvSame
  <2>8. EvStage(c)'
    BY <1>2, <1>3, <1>4, <1>6, <2>3 DEF EvStage, EvNoWrap, EvSetup, EvTimed, EvReady
  <2>9. EvOnTime(c)'
    BY <1>1, <1>2, <1>3, <1>4, <2>1, <2>2, <2>3, <2>5 DEF EvOnTime, h, next
  <2>10. Opened' /\ EvWatched'
    <3>1. \A d \in DOMAIN wrap : wrap'[d].fds = wrap[d].fds
      BY <2>3
    <3> QED BY <1>2, <2>3, <3>1 DEF EvInv, Opened, EvWatched
  <2>11. EvRefs'
    <3>1. refs' = refs
      BY <1>4, <2>2, <2>w DEF LibEv!TimerAgain
    <3>2. \A d : d \in Stopped' <=> d \in Stopped
      BY <1>4, <2>3, <2>5 DEF Stopped
    <3>3. Stopped' = Stopped /\ Immediate' = Immediate
      BY <1>2, <3>2 DEF Stopped, Immediate
    <3> QED BY <3>1, <3>3 DEF EvInv, EvRefs
  <2> QED BY <1>2, <2>6, <2>7, <2>8, <2>9, <2>10, <2>11, EvOne DEF EvInv
<1> QED BY <1>5, <1>6

\* An active descriptor gives a server that can be read more time.
LEMMA EvActive ==
  ASSUME EvInv, NEW c \in TimedConn, NEW f \in Fd, NEW ev \in SUBSET Kinds, LibEv!onActive(c, f, ev)
  PROVE  /\ EvInv' /\ (Prompt /\ EvPunctual => EvPunctual') /\ UNCHANGED <<owner, asked, closing>>
         /\ call = {} /\ owner[f] = c /\ ev # {} /\ ev \subseteq asked[f]
         /\ call' = {[conn |-> c, fd |-> f, ev |-> ev]}
<1> USE TcpAssumption, LoopsAssumption
<1>1. EvTyped /\ now \in 0..MaxTime /\ now \in Nat /\ EvStage(c)
  BY DEF EvInv, EvTyped
<1>2. /\ c \in DOMAIN wrap /\ ev # {} /\ ev \subseteq wrap[c].fds[f]
      /\ call = {} /\ call' = {[conn |-> c, fd |-> f, ev |-> ev]}
      /\ UNCHANGED <<phase, owner, asked, now, timer, refs, ready, closing, beat>>
  BY DEF LibEv!onActive, LibEv!Begin
<1>3. owner[f] = c /\ ev \subseteq asked[f]
  BY <1>2 DEF EvInv, EvWatched
<1>4. /\ wrap[c].next \in Nat /\ wrap[c].expire \in Nat /\ wrap[c].timeout \in Nat
      /\ wrap[c] \in [next : Nat, expire : Nat, timeout : Timeouts \cup {0}, fds : [Fd -> SUBSET Kinds]]
  <2>1. wrap[c] \in [next : Nat, expire : Nat, timeout : Timeouts \cup {0}, fds : [Fd -> SUBSET Kinds]]
    BY <1>1, <1>2 DEF EvTyped
  <2>2. wrap[c].next \in Nat /\ wrap[c].expire \in Nat /\ wrap[c].timeout \in Timeouts \cup {0}
    BY <2>1
  <2>3. wrap[c].timeout \in Nat
    BY <2>2, EvTimeouts
  <2> QED BY <2>1, <2>2, <2>3
<1>5. call' \in SUBSET [conn : TimedConn, fd : Fd, ev : SUBSET Kinds]
  BY <1>2
<1>6. CASE ~(wrap[c].timeout # 0 /\ "readable" \in ev)
  <2>1. UNCHANGED <<wrap, heard>>
    BY <1>6 DEF LibEv!onActive
  <2>2. EvTyped'
    BY <1>1, <1>2, <1>5, <2>1 DEF EvTyped
  <2>3. \A d \in TimedConn : EvSame(d)
    BY <1>2, <2>1 DEF EvSame
  <2>4. EvStage(c)' /\ (EvOnTime(c) => EvOnTime(c)')
    BY <1>1, <1>2, <2>3, EvFrame
  <2>5. Opened' /\ EvWatched' /\ EvRefs'
    <3>1. Opened' /\ EvWatched'
      BY <1>2, <2>1 DEF EvInv, Opened, EvWatched
    <3>2. Stopped' = Stopped /\ Immediate' = Immediate /\ refs' = refs
      BY <1>2, <2>1 DEF Stopped, Immediate
    <3> QED BY <3>1, <3>2 DEF EvInv, EvRefs
  <2> QED BY <1>2, <1>3, <2>2, <2>3, <2>4, <2>5, EvOne DEF EvInv
<1>7. CASE wrap[c].timeout # 0 /\ "readable" \in ev
  <2>1. /\ wrap' = [wrap EXCEPT ![c].expire = now + 3 * wrap[c].timeout]
        /\ heard' = [heard EXCEPT ![c] = now]
    BY <1>7 DEF LibEv!onActive
  <2>2. /\ DOMAIN wrap' = DOMAIN wrap /\ wrap'[c].timeout = wrap[c].timeout /\ wrap'[c].next = wrap[c].next
        /\ wrap'[c].expire = now + 3 * wrap[c].timeout /\ wrap'[c].fds = wrap[c].fds
        /\ wrap'[c] \in [next : Nat, expire : Nat, timeout : Timeouts \cup {0}, fds : [Fd -> SUBSET Kinds]]
        /\ \A d \in DOMAIN wrap : d # c => wrap'[d] = wrap[d]
    <3> DEFINE x == now + 3 * wrap[c].timeout
    <3>1. x \in Nat
      BY <1>1, <1>4
    <3>2. wrap' = [wrap EXCEPT ![c] = [wrap[c] EXCEPT !.expire = x]]
      BY <1>2, <2>1
    <3> HIDE DEF x
    <3>3. /\ DOMAIN wrap' = DOMAIN wrap /\ wrap'[c].timeout = wrap[c].timeout /\ wrap'[c].next = wrap[c].next
          /\ wrap'[c].expire = x /\ wrap'[c].fds = wrap[c].fds
          /\ wrap'[c] \in [next : Nat, expire : Nat, timeout : Timeouts \cup {0}, fds : [Fd -> SUBSET Kinds]]
          /\ \A d \in DOMAIN wrap : d # c => wrap'[d] = wrap[d]
      BY <1>2, <1>4, <3>1, <3>2
    <3> QED BY <3>3 DEF x
  <2>3. /\ heard' \in [TimedConn -> -1..MaxTime] /\ heard'[c] = now
        /\ \A d \in TimedConn \ {c} : heard'[d] = heard[d]
    BY <1>1, <2>1 DEF EvTyped
  <2>4. EvTyped'
    <3>1. /\ DOMAIN wrap' \subseteq TimedConn
          /\ \A d \in DOMAIN wrap' : wrap'[d] \in [next : Nat, expire : Nat, timeout : Timeouts \cup {0}, fds : [Fd -> SUBSET Kinds]]
      BY <1>1, <2>2 DEF EvTyped
    <3> QED BY <1>1, <1>2, <1>5, <2>3, <3>1 DEF EvTyped
  <2>5. \A d \in TimedConn \ {c} : EvSame(d)
    BY <1>2, <2>2, <2>3 DEF EvSame
  <2>6. EvStage(c)'
    <3>1. wrap'[c].expire = heard'[c] + 3 * wrap'[c].timeout
      BY <2>2, <2>3
    <3> QED BY <1>1, <1>2, <1>7, <2>2, <3>1 DEF EvStage, EvNoWrap, EvSetup, EvTimed, EvReady
  <2>7. ASSUME EvOnTime(c) PROVE EvOnTime(c)'
    <3>1. CASE closing[c] # "no"
      BY <1>2, <3>1 DEF EvOnTime
    <3>2. CASE closing[c] = "no"
      <4> DEFINE h == LibEv!HalfTimeout(wrap[c].timeout)
      <4>1. h \in Nat /\ h <= 2 * wrap[c].timeout
        BY <1>4, <1>7, EvHalf
      <4> HIDE DEF h
      <4>2. /\ c \in DOMAIN timer /\ timer[c].at <= wrap[c].next /\ wrap[c].next <= beat[c] + h /\ beat[c] <= now
            /\ now <= timer[c].at + MaxLate
        BY <1>2, <1>7, <2>7, <3>2 DEF EvOnTime, h
      <4>3. timer[c].at \in Int /\ beat[c] \in Int
        BY <1>1, <4>2 DEF EvTyped
      <4>4. timer[c].at <= now + 3 * wrap[c].timeout
        BY <1>1, <1>4, <4>1, <4>2, <4>3
      <4>5. timer[c].at <= wrap'[c].expire
        BY <2>2, <4>4
      <4> QED BY <1>2, <2>2, <4>2, <4>5 DEF EvOnTime, h
    <3> QED BY <3>1, <3>2
  <2>8. Opened' /\ EvWatched'
    <3>1. \A d \in DOMAIN wrap : wrap'[d].fds = wrap[d].fds
      BY <2>2
    <3> QED BY <1>2, <2>2, <3>1 DEF EvInv, Opened, EvWatched
  <2>9. EvRefs'
    <3>1. \A d : d \in Stopped' <=> d \in Stopped
      BY <1>2, <2>2 DEF Stopped
    <3>2. Stopped' = Stopped /\ Immediate' = Immediate
      BY <1>2, <3>1 DEF Stopped, Immediate
    <3> QED BY <1>2, <3>2 DEF EvInv, EvRefs
  <2> QED BY <1>2, <1>3, <2>4, <2>5, <2>6, <2>7, <2>8, <2>9, EvOne DEF EvInv
<1> QED BY <1>6, <1>7

\* The time for setting up is over: the timer has stopped, and a connection that is

\* not ready is closed, which takes a reference of the loop.
LEMMA EvSetupExpired ==
  ASSUME EvInv, NEW c \in TimedConn, LibEv!SetupExpired(c)
  PROVE  /\ EvInv' /\ (Prompt /\ EvPunctual => EvPunctual') /\ UNCHANGED <<owner, asked, call>>
         /\ \A d \in TimedConn : closing'[d] # "asked" \/ closing'[d] = closing[d]
<1> USE TcpAssumption, LoopsAssumption
<1>1. EvTyped /\ EvStage(c)
  BY DEF EvInv, EvTyped
<1>2. /\ c \in DOMAIN wrap /\ c \in DOMAIN timer /\ wrap[c].timeout = 0
      /\ timer' = [d \in DOMAIN timer \ {c} |-> timer[d]]
      /\ UNCHANGED <<phase, owner, asked, call, now, wrap, ready, beat, heard>>
  BY DEF LibEv!SetupExpired, LibEv!Due, LibEv!Drop, LibEv!tcpVars
<1>3. /\ DOMAIN timer' = DOMAIN timer \ {c} /\ \A d \in DOMAIN timer : d # c => timer'[d] = timer[d]
  BY <1>2
<1>4. \/ ready[c] /\ UNCHANGED <<refs, closing>>
      \/ ~ready[c] /\ refs' = refs - 1 /\ closing' = [closing EXCEPT ![c] = "immediate"]
  BY DEF LibEv!SetupExpired
<1>5. EvTyped' /\ \A d \in TimedConn \ {c} : closing'[d] = closing[d]
  <2>1. refs' \in Int /\ closing' \in [TimedConn -> {"no", "asked", "immediate"}]
        /\ \A d \in TimedConn \ {c} : closing'[d] = closing[d]
    BY <1>1, <1>4 DEF EvTyped
  <2>2. DOMAIN timer' \subseteq TimedConn /\ \A d \in DOMAIN timer' : timer'[d] \in [at : Int, repeat : Int]
    BY <1>1, <1>3 DEF EvTyped
  <2> QED BY <1>1, <1>2, <2>1, <2>2 DEF EvTyped
<1>6. \A d \in TimedConn \ {c} : EvSame(d)
  BY <1>2, <1>3, <1>5 DEF EvSame
<1>7. EvStage(c)' /\ EvOnTime(c)'
  <2>1. closing'[c] = "immediate" \/ ready'[c]
    BY <1>1, <1>2, <1>4 DEF EvTyped
  <2> QED BY <1>1, <1>2, <1>3, <2>1 DEF EvStage, EvNoWrap, EvSetup, EvTimed, EvReady, EvOnTime
<1>8. Opened' /\ EvWatched'
  BY <1>2 DEF EvInv, Opened, EvWatched
<1>9. EvRefs'
  <2>1. \A d : d \in Stopped' <=> d \in Stopped
    BY <1>2, <1>3 DEF Stopped
  <2>2. Stopped' = Stopped
    BY <2>1 DEF Stopped
  <2>3. CASE ready[c] /\ UNCHANGED <<refs, closing>>
    BY <2>2, <2>3 DEF EvInv, EvRefs, Immediate
  <2>4. CASE ~ready[c] /\ refs' = refs - 1 /\ closing' = [closing EXCEPT ![c] = "immediate"]
    <3>1. Immediate' = Immediate \cup {c} /\ c \notin Immediate
      BY <1>1, <1>2, <2>4 DEF EvStage, EvSetup, EvTyped, Immediate
    <3>2. IsFiniteSet(Immediate) /\ IsFiniteSet(Stopped) /\ refs = -Cardinality(Stopped) - Cardinality(Immediate)
      BY DEF EvInv, EvRefs
    <3>3. IsFiniteSet(Immediate') /\ Cardinality(Immediate') = Cardinality(Immediate) + 1
      BY <3>1, <3>2, FS_AddElement
    <3>4. Cardinality(Immediate) \in Nat /\ Cardinality(Stopped) \in Nat
      BY <3>2, FS_CardinalityType
    <3> QED BY <2>2, <2>4, <3>2, <3>3, <3>4 DEF EvRefs
  <2> QED BY <1>4, <2>3, <2>4
<1>10. \A d \in TimedConn : closing'[d] # "asked" \/ closing'[d] = closing[d]
  BY <1>1, <1>4 DEF EvTyped
<1> QED BY <1>2, <1>5, <1>6, <1>7, <1>8, <1>9, <1>10, EvOne DEF EvInv

\* A server that was silent for too long has its connection closed.
LEMMA EvSilent ==
  ASSUME EvInv, NEW c \in TimedConn, LibEv!Silent(c)
  PROVE  /\ EvInv' /\ (Prompt /\ EvPunctual => EvPunctual') /\ UNCHANGED <<owner, asked, call>>
         /\ \A d \in TimedConn \ {c} : closing'[d] = closing[d]
         /\ heard[c] >= 0 => now - heard[c] >= 3 * wrap[c].timeout
<1> USE TcpAssumption, LoopsAssumption
<1>1. EvTyped /\ EvStage(c) /\ now \in Nat
  BY DEF EvInv, EvTyped
<1>2. /\ c \in DOMAIN wrap /\ c \in DOMAIN timer /\ wrap[c].timeout # 0 /\ now >= wrap[c].expire
      /\ closing' = [closing EXCEPT ![c] = "asked"]
      /\ timer' = [timer EXCEPT ![c].at = now + LibEv!Most(timer[c].repeat, 0)]
      /\ UNCHANGED <<phase, owner, asked, call, now, wrap, refs, ready, beat, heard>>
  BY DEF LibEv!Silent, LibEv!Due, LibEv!tcpVars
<1>3. /\ DOMAIN timer' = DOMAIN timer /\ \A d \in DOMAIN timer : d # c => timer'[d] = timer[d]
      /\ timer'[c] \in [at : Int, repeat : Int]
  <2>1. timer[c] \in [at : Int, repeat : Int]
    BY <1>1, <1>2 DEF EvTyped
  <2> DEFINE x == now + LibEv!Most(timer[c].repeat, 0)
  <2>2. x \in Int
    BY <1>1, <2>1 DEF LibEv!Most
  <2>3. timer' = [timer EXCEPT ![c] = [timer[c] EXCEPT !.at = x]]
    BY <1>2
  <2> HIDE DEF x
  <2> QED BY <1>2, <2>1, <2>2, <2>3
<1>4. /\ closing' \in [TimedConn -> {"no", "asked", "immediate"}] /\ closing'[c] = "asked"
      /\ \A d \in TimedConn \ {c} : closing'[d] = closing[d]
  BY <1>1, <1>2 DEF EvTyped
<1>5. EvTyped'
  <2>1. DOMAIN timer' \subseteq TimedConn /\ \A d \in DOMAIN timer' : timer'[d] \in [at : Int, repeat : Int]
    BY <1>1, <1>3 DEF EvTyped
  <2> QED BY <1>1, <1>2, <1>4, <2>1 DEF EvTyped
<1>6. \A d \in TimedConn \ {c} : EvSame(d)
  BY <1>2, <1>3, <1>4 DEF EvSame
<1>7. EvStage(c)' /\ EvOnTime(c)'
  BY <1>1, <1>2, <1>3, <1>4 DEF EvStage, EvNoWrap, EvSetup, EvTimed, EvReady, EvOnTime
<1>8. Opened' /\ EvWatched'
  BY <1>2 DEF EvInv, Opened, EvWatched
<1>9. EvRefs'
  <2>1. Stopped' = Stopped
    BY <1>2, <1>3 DEF Stopped
  <2>2. closing[c] # "immediate"
    BY <1>1, <1>2 DEF EvStage, EvTimed
  <2>3. \A d : d \in Immediate' <=> d \in Immediate
    BY <1>4, <2>2 DEF Immediate
  <2>4. Immediate' = Immediate
    BY <2>3 DEF Immediate
  <2> QED BY <1>2, <2>1, <2>4 DEF EvInv, EvRefs
<1>10. heard[c] >= 0 => now - heard[c] >= 3 * wrap[c].timeout
  <2>1. wrap[c].timeout \in Nat /\ heard[c] \in Int /\ now \in Int
    BY <1>1, <1>2 DEF EvTyped
  <2>2. heard[c] >= 0 => wrap[c].expire = heard[c] + 3 * wrap[c].timeout
    BY <1>1, <1>2 DEF EvStage, EvTimed
  <2> QED BY <1>2, <2>1, <2>2
<1> QED BY <1>2, <1>4, <1>5, <1>6, <1>7, <1>8, <1>9, <1>10, EvOne DEF EvInv

\* A heartbeat may be due, and the timer is set anew; if nothing is left to wait for,
\* it stops.
LEMMA EvBeat ==
  ASSUME EvInv, NEW c \in TimedConn, LibEv!Beat(c)
  PROVE  EvInv' /\ (Prompt /\ EvPunctual => EvPunctual') /\ UNCHANGED <<owner, asked, call, closing>>
<1> USE TcpAssumption, LoopsAssumption
<1>1. EvTyped /\ EvStage(c) /\ now \in 0..MaxTime /\ now \in Nat
  BY DEF EvInv, EvTyped
<1>2. /\ c \in DOMAIN wrap /\ c \in DOMAIN timer /\ timer[c].at <= now /\ wrap[c].timeout # 0 /\ now < wrap[c].expire
      /\ UNCHANGED <<phase, owner, asked, call, now, ready, closing, heard>>
  BY DEF LibEv!Beat, LibEv!Due, LibEv!tcpVars
<1>3. /\ wrap[c] \in [next : Nat, expire : Nat, timeout : Timeouts \cup {0}, fds : [Fd -> SUBSET Kinds]]
      /\ timer[c] \in [at : Int, repeat : Int]
  BY <1>1, <1>2 DEF EvTyped
<1> DEFINE h    == LibEv!HalfTimeout(wrap[c].timeout)
           due  == now >= wrap[c].next
           next == wrap[c].next + IF due THEN h ELSE 0
           r    == LibEv!Least(next, wrap[c].expire) - now
<1>4. /\ wrap[c].next \in Nat /\ wrap[c].expire \in Nat /\ wrap[c].timeout \in Nat /\ h \in Nat /\ 2 <= h
      /\ timer[c].at \in Int /\ wrap[c].timeout \in Timeouts \ {0}
  <2>1. /\ wrap[c].next \in Nat /\ wrap[c].expire \in Nat /\ wrap[c].timeout \in Nat
        /\ timer[c].at \in Int /\ wrap[c].timeout \in Timeouts \ {0}
    BY <1>2, <1>3
  <2> QED BY <1>2, <2>1, EvHalf
<1>5. /\ wrap' = [wrap EXCEPT ![c].next = next] /\ LibEv!TimerAgain(c, r)
      /\ beat' = IF due THEN [beat EXCEPT ![c] = now] ELSE beat
  BY DEF LibEv!Beat
<1>6. next \in Nat /\ r \in Int /\ now + r <= next /\ now + r <= wrap[c].expire
  <2> HIDE DEF h
  <2> QED BY <1>1, <1>4 DEF LibEv!Least
<1>7. /\ DOMAIN wrap' = DOMAIN wrap /\ wrap'[c].timeout = wrap[c].timeout /\ wrap'[c].next = next
      /\ wrap'[c].expire = wrap[c].expire /\ wrap'[c].fds = wrap[c].fds
      /\ wrap'[c] \in [next : Nat, expire : Nat, timeout : Timeouts \cup {0}, fds : [Fd -> SUBSET Kinds]]
      /\ \A d \in DOMAIN wrap : d # c => wrap'[d] = wrap[d]
  <2> HIDE DEF next, r, h, due
  <2>1. wrap' = [wrap EXCEPT ![c] = [wrap[c] EXCEPT !.next = next]]
    BY <1>2, <1>5
  <2> QED BY <1>2, <1>3, <1>6, <2>1
<1>8. /\ beat' \in [TimedConn -> 0..MaxTime] /\ beat'[c] = IF due THEN now ELSE beat[c]
      /\ \A d \in TimedConn \ {c} : beat'[d] = beat[d]
  <2> HIDE DEF due
  <2> QED BY <1>1, <1>5 DEF EvTyped
<1>9. /\ r # 0 => /\ DOMAIN timer' = DOMAIN timer /\ timer'[c] = [at |-> now + r, repeat |-> r] /\ refs' = refs
      /\ r = 0 => DOMAIN timer' = DOMAIN timer \ {c} /\ refs' = refs - 1
      /\ \A d \in DOMAIN timer : d # c => timer'[d] = timer[d]
  <2> HIDE DEF next, r, h, due
  <2>1. CASE r = 0
    BY <1>2, <1>5, <2>1 DEF LibEv!TimerAgain, LibEv!Drop
  <2>2. CASE r # 0
    BY <1>2, <1>5, <2>2 DEF LibEv!TimerAgain, LibEv!Put
  <2> QED BY <2>1, <2>2
<1>10. EvTyped'
  <2> HIDE DEF next, r, h, due
  <2>1. /\ DOMAIN wrap' \subseteq TimedConn
        /\ \A d \in DOMAIN wrap' : wrap'[d] \in [next : Nat, expire : Nat, timeout : Timeouts \cup {0}, fds : [Fd -> SUBSET Kinds]]
    BY <1>1, <1>7 DEF EvTyped
  <2>2. DOMAIN timer' \subseteq TimedConn
    BY <1>1, <1>9 DEF EvTyped
  <2>3. ASSUME NEW d \in DOMAIN timer' PROVE timer'[d] \in [at : Int, repeat : Int]
    <3>1. CASE d = c
      BY <1>1, <1>6, <1>9, <2>3, <3>1
    <3>2. CASE d # c
      BY <1>1, <1>9, <2>3, <3>2 DEF EvTyped
    <3> QED BY <3>1, <3>2
  <2>4. refs' \in Int
    BY <1>1, <1>9 DEF EvTyped
  <2> QED BY <1>1, <1>2, <1>8, <2>1, <2>2, <2>3, <2>4 DEF EvTyped
<1>11. \A d \in TimedConn \ {c} : EvSame(d)
  <2> HIDE DEF next, r, h, due
  <2> QED BY <1>2, <1>7, <1>8, <1>9 DEF EvSame
<1>12. EvStage(c)'
  <2> HIDE DEF next, r, h, due
  <2> QED BY <1>1, <1>2, <1>7 DEF EvStage, EvNoWrap, EvSetup, EvTimed, EvReady
<1>13. ASSUME Prompt, EvOnTime(c) PROVE EvOnTime(c)'
  <2>1. CASE closing[c] # "no"
    BY <1>2, <2>1 DEF EvOnTime
  <2>2. CASE closing[c] = "no"
    <3>1. MaxLate < h
      BY <1>4, <1>13 DEF Prompt
    <3>2. /\ now <= timer[c].at + MaxLate /\ timer[c].at <= wrap[c].next
          /\ wrap[c].next <= beat[c] + h /\ beat[c] <= now
      BY <1>2, <1>13, <2>2 DEF EvOnTime
    <3>3. beat[c] \in Nat
      BY <1>1 DEF EvTyped
    <3> HIDE DEF h
    <3>4. next > now
      <4>1. CASE due
        <5>1. next = wrap[c].next + h
          BY <4>1
        <5>2. now <= wrap[c].next + MaxLate
          BY <1>1, <1>4, <3>2
        <5> QED BY <1>1, <1>4, <3>1, <5>1, <5>2
      <4>2. CASE ~due
        BY <1>1, <1>4, <4>2
      <4> QED BY <4>1, <4>2
    <3>5. next <= beat'[c] + h /\ beat'[c] <= now
      <4>1. CASE due
        BY <1>1, <1>4, <1>8, <4>1
      <4>2. CASE ~due
        BY <1>1, <1>4, <1>8, <3>2, <4>2
      <4> QED BY <4>1, <4>2
    <3>6. r > 0
      BY <1>1, <1>2, <1>4, <1>6, <3>4 DEF LibEv!Least
    <3> HIDE DEF next, r, due
    <3>7. c \in DOMAIN timer' /\ timer'[c].at = now + r
      BY <1>2, <1>6, <1>9, <3>6
    <3>8. now <= timer'[c].at + MaxLate
      BY <1>1, <1>6, <3>6, <3>7
    <3>9. timer'[c].at <= next /\ timer'[c].at <= wrap[c].expire
      BY <1>6, <3>7
    <3> QED BY <1>2, <1>7, <3>5, <3>7, <3>8, <3>9 DEF EvOnTime, h
  <2> QED BY <2>1, <2>2
<1>14. Opened' /\ EvWatched'
  <2> HIDE DEF next, r, h, due
  <2>1. \A d \in DOMAIN wrap : wrap'[d].fds = wrap[d].fds
    BY <1>7
  <2> QED BY <1>2, <1>7, <2>1 DEF EvInv, Opened, EvWatched
<1>15. EvRefs'
  <2> HIDE DEF next, r, h, due
  <2>1. Immediate' = Immediate
    BY <1>2 DEF Immediate
  <2>2. IsFiniteSet(Immediate) /\ IsFiniteSet(Stopped) /\ refs = -Cardinality(Stopped) - Cardinality(Immediate)
    BY DEF EvInv, EvRefs
  <2>3. Cardinality(Immediate) \in Nat /\ Cardinality(Stopped) \in Nat
    BY <2>2, FS_CardinalityType
  <2>4. CASE r # 0
    <3>1. \A d : d \in Stopped' <=> d \in Stopped
      BY <1>7, <1>9, <2>4 DEF Stopped
    <3>2. Stopped' = Stopped
      BY <3>1 DEF Stopped
    <3> QED BY <1>9, <2>1, <2>2, <2>4, <3>2 DEF EvRefs
  <2>5. CASE r = 0
    <3>1. \A d : d \in Stopped' <=> d \in Stopped \cup {c}
      BY <1>2, <1>7, <1>9, <2>5 DEF Stopped
    <3>2. Stopped' = Stopped \cup {c} /\ c \notin Stopped
      BY <1>2, <3>1 DEF Stopped
    <3>3. IsFiniteSet(Stopped') /\ Cardinality(Stopped') = Cardinality(Stopped) + 1
      BY <2>2, <3>2, FS_AddElement
    <3> QED BY <1>9, <2>1, <2>2, <2>3, <2>5, <3>3 DEF EvRefs
  <2> QED BY <2>4, <2>5
<1> QED BY <1>2, <1>10, <1>11, <1>12, <1>13, <1>14, <1>15, EvOne DEF EvInv

\* The destructor of a wrapper with a timeout stops its timer and restores the

\* reference; the timer of another one is left.
LEMMA EvDetached ==
  ASSUME EvInv, NEW c \in TimedConn, LibEv!onDetached(c)
  PROVE  EvInv' /\ (Prompt /\ EvPunctual => EvPunctual') /\ UNCHANGED <<owner, asked, call, closing>>
<1> USE TcpAssumption, LoopsAssumption
<1>1. EvTyped /\ EvStage(c)
  BY DEF EvInv, EvTyped
<1>2. /\ c \in DOMAIN wrap /\ \A f \in Fd : owner[f] # c
      /\ phase' = [phase EXCEPT ![c] = "gone"] /\ wrap' = [d \in DOMAIN wrap \ {c} |-> wrap[d]]
      /\ UNCHANGED <<owner, asked, call, now, ready, closing, beat, heard>>
  BY DEF LibEv!onDetached, LibEv!Detach, LibEv!To, LibEv!Owns, LibEv!Drop
<1>3. /\ DOMAIN wrap' = DOMAIN wrap \ {c} /\ \A d \in DOMAIN wrap : d # c => wrap'[d] = wrap[d]
      /\ phase' \in [TimedConn -> {"new", "opened", "connected", "negotiated", "lost", "gone"}]
      /\ phase'[c] = "gone" /\ \A d \in TimedConn \ {c} : phase'[d] = phase[d]
  BY <1>1, <1>2 DEF EvTyped
<1>4. /\ wrap[c].timeout = 0 => UNCHANGED <<timer, refs>>
      /\ wrap[c].timeout # 0 => /\ DOMAIN timer' = DOMAIN timer \ {c}
                                /\ refs' = IF c \in DOMAIN timer THEN refs ELSE refs + 1
      /\ \A d \in DOMAIN timer : d # c => timer'[d] = timer[d]
  BY DEF LibEv!onDetached, LibEv!Drop
<1>5. EvTyped'
  <2>1. DOMAIN wrap' \subseteq TimedConn
        /\ \A d \in DOMAIN wrap' : wrap'[d] \in [next : Nat, expire : Nat, timeout : Timeouts \cup {0}, fds : [Fd -> SUBSET Kinds]]
    BY <1>1, <1>3 DEF EvTyped
  <2>2. DOMAIN timer' \subseteq TimedConn /\ \A d \in DOMAIN timer' : timer'[d] \in [at : Int, repeat : Int]
    BY <1>1, <1>4 DEF EvTyped
  <2>3. refs' \in Int
    BY <1>1, <1>4 DEF EvTyped
  <2> QED BY <1>1, <1>2, <1>3, <2>1, <2>2, <2>3 DEF EvTyped
<1>6. \A d \in TimedConn \ {c} : EvSame(d)
  BY <1>2, <1>3, <1>4 DEF EvSame
<1>7. EvStage(c)' /\ EvOnTime(c)'
  BY <1>1, <1>2, <1>3, <1>4 DEF EvStage, EvNoWrap, EvSetup, EvTimed, EvReady, EvOnTime
<1>8. Opened' /\ EvWatched'
  BY <1>1, <1>2, <1>3 DEF EvInv, Opened, EvWatched, EvTyped
<1>9. EvRefs'
  <2>1. Immediate' = Immediate
    BY <1>2 DEF Immediate
  <2>2. IsFiniteSet(Immediate) /\ IsFiniteSet(Stopped) /\ refs = -Cardinality(Stopped) - Cardinality(Immediate)
    BY DEF EvInv, EvRefs
  <2>3. Cardinality(Immediate) \in Nat /\ Cardinality(Stopped) \in Nat
    BY <2>2, FS_CardinalityType
  <2>4. CASE wrap[c].timeout = 0 \/ c \in DOMAIN timer
    <3>1. \A d : d \in Stopped' <=> d \in Stopped
      BY <1>3, <1>4, <2>4 DEF Stopped
    <3>2. Stopped' = Stopped
      BY <3>1 DEF Stopped
    <3> QED BY <1>4, <2>1, <2>2, <2>4, <3>2 DEF EvRefs
  <2>5. CASE wrap[c].timeout # 0 /\ c \notin DOMAIN timer
    <3>1. \A d : d \in Stopped' <=> d \in Stopped \ {c}
      BY <1>3, <1>4, <2>5 DEF Stopped
    <3>2. Stopped' = Stopped \ {c} /\ c \in Stopped
      BY <1>2, <2>5, <3>1 DEF Stopped
    <3>3. IsFiniteSet(Stopped') /\ Cardinality(Stopped') = Cardinality(Stopped) - 1
      BY <2>2, <3>2, FS_RemoveElement
    <3> QED BY <1>4, <2>1, <2>2, <2>3, <2>5, <3>3 DEF EvRefs
  <2> QED BY <2>4, <2>5
<1> QED BY <1>2, <1>5, <1>6, <1>7, <1>8, <1>9, EvOne DEF EvInv

\* Time passes only while no timer is served too late.
LEMMA EvTick ==
  ASSUME EvInv, LibEv!Tick
  PROVE  EvInv' /\ (Prompt /\ EvPunctual => EvPunctual') /\ UNCHANGED <<owner, asked, call, closing>>
<1> USE TcpAssumption, LoopsAssumption
<1>1. EvTyped /\ now \in 0..MaxTime /\ now \in Nat
  BY DEF EvInv, EvTyped
<1>2. /\ now < MaxTime /\ now' = now + 1
      /\ \A c \in DOMAIN timer \cap DOMAIN wrap : now < timer[c].at + MaxLate
      /\ UNCHANGED <<phase, owner, asked, call, wrap, timer, refs, ready, closing, beat, heard>>
  BY DEF LibEv!Tick, LibEv!tcpVars
<1>3. EvTyped'
  <2>1. now' \in 0..MaxTime
    BY <1>1, <1>2
  <2> QED BY <1>1, <1>2, <2>1 DEF EvTyped
<1>4. Opened' /\ EvWatched' /\ EvRefs'
  <2>1. Opened' /\ EvWatched'
    BY <1>2 DEF EvInv, Opened, EvWatched
  <2>2. Stopped' = Stopped /\ Immediate' = Immediate /\ refs' = refs
    BY <1>2 DEF Stopped, Immediate
  <2> QED BY <2>1, <2>2 DEF EvInv, EvRefs
<1>5. \A d \in TimedConn : EvStage(d)'
  <2>1. ASSUME NEW d \in TimedConn PROVE EvStage(d)'
    <3>1. EvSame(d) /\ EvStage(d)
      BY <1>2 DEF EvSame, EvInv
    <3> QED BY <3>1, EvFrame
  <2> QED BY <2>1
<1>6. ASSUME EvPunctual, NEW d \in TimedConn PROVE EvOnTime(d)'
  <2> SUFFICES ASSUME d \in DOMAIN wrap, closing[d] = "no"
        PROVE /\ d \in DOMAIN timer => now' <= timer[d].at + MaxLate
              /\ wrap[d].timeout # 0 =>
                   /\ d \in DOMAIN timer /\ timer[d].at <= wrap[d].next /\ timer[d].at <= wrap[d].expire
                   /\ wrap[d].next <= beat[d] + LibEv!HalfTimeout(wrap[d].timeout) /\ beat[d] <= now'
    BY <1>2 DEF EvOnTime
  <2>1. EvOnTime(d)
    BY <1>6 DEF EvPunctual
  <2>2. d \in DOMAIN timer => now' <= timer[d].at + MaxLate
    <3>1. SUFFICES ASSUME d \in DOMAIN timer PROVE now' <= timer[d].at + MaxLate
      OBVIOUS
    <3>2. timer[d].at \in Int
      BY <1>1, <3>1 DEF EvTyped
    <3> QED BY <1>1, <1>2, <3>1, <3>2
  <2>3. beat[d] <= now => beat[d] <= now'
    BY <1>1, <1>2 DEF EvTyped
  <2> QED BY <2>1, <2>2, <2>3 DEF EvOnTime
<1>7. Prompt /\ EvPunctual => EvPunctual'
  BY <1>6 DEF EvPunctual
<1> QED BY <1>2, <1>3, <1>4, <1>5, <1>7 DEF EvInv

\* Every step of LibEvHandler keeps its invariant, is one of FdMonitor, and closes a

\* connection for silence only if its server was silent.
LEMMA EvStep ==
  ASSUME EvInv, LibEv!Next, loop = "libev", loop' = loop
  PROVE  /\ EvInv' /\ (Prompt /\ EvPunctual => EvPunctual')
         /\ [Monitor!Next]_(Monitor!vars) /\ LibEv!KeepsLivePeer
<1> USE TcpAssumption, LoopsAssumption
<1>0. EvTyped /\ TimedConn \subseteq Conn
  BY DEF EvInv
<1> DEFINE Goal == /\ EvInv' /\ (Prompt /\ EvPunctual => EvPunctual')
                   /\ [Monitor!Next]_(Monitor!vars) /\ LibEv!KeepsLivePeer
<1>k. ASSUME \A d \in TimedConn : closing'[d] # "asked" \/ closing'[d] = closing[d] PROVE LibEv!KeepsLivePeer
  BY <1>k DEF LibEv!KeepsLivePeer
<1>1. ASSUME NEW c \in TimedConn, LibEv!Ask(c) PROVE Goal
  <2>1. PICK f \in Fd, ks \in SUBSET Kinds :
             /\ LibEv!monitor(c, f, ks)
             /\ LibEv!Open(c, f, ks) \/ LibEv!Idle(c, f, ks) \/ (ks = {} /\ LibEv!Shut(c, f))
    BY <1>1 DEF LibEv!Ask, LibEv!Kinds, Kinds
  <2>2. PICK o \in TimedConn \cup {None} :
             /\ owner' = [owner EXCEPT ![f] = o] /\ asked' = [asked EXCEPT ![f] = ks]
             /\ ks # {} => o = c /\ owner[f] \in {None, c}
             /\ ks = {} => o = None /\ owner[f] = c
             /\ phase[c] # "gone" /\ UNCHANGED <<phase, call>>
    <3>1. CASE LibEv!Open(c, f, ks)
      BY <3>1 DEF LibEv!Open, LibEv!Alive
    <3>2. CASE LibEv!Idle(c, f, ks)
      <4>1. owner' = [owner EXCEPT ![f] = c]
        BY <1>0, <3>2 DEF LibEv!Idle, EvTyped
      <4> QED BY <3>2, <4>1 DEF LibEv!Idle, LibEv!Alive
    <3>3. CASE ks = {} /\ LibEv!Shut(c, f)
      BY <3>3 DEF LibEv!Shut, LibEv!Alive
    <3> QED BY <2>1, <3>1, <3>2, <3>3
  <2>3. EvInv' /\ (Prompt /\ EvPunctual => EvPunctual')
    BY <2>1, <2>2, EvMonitor
  <2>4. o \in Conn \cup {None} /\ (o = None <=> ks = {})
    BY <1>0, <2>2
  <2>5. [Monitor!Next]_(Monitor!vars)
    BY <2>2, <2>4, MonitorAsk
  <2>6. closing' = closing
    BY <2>1 DEF LibEv!monitor
  <2> QED BY <1>k, <2>3, <2>5, <2>6
<1>2. ASSUME NEW c \in TimedConn, UNCHANGED <<owner, asked, call, now, wrap, timer, refs, closing, beat, heard>>,
             phase' \in [TimedConn -> {"new", "opened", "connected", "negotiated", "lost", "gone"}],
             ready' \in [TimedConn -> BOOLEAN],
             \A d \in TimedConn \ {c} : phase'[d] = phase[d] /\ ready'[d] = ready[d],
             ready[c] => ready'[c], EvReady(c)',
             phase[c] \in {"negotiated", "lost", "gone"} => phase'[c] \in {"negotiated", "lost", "gone"},
             phase[c] # "gone"
      PROVE  Goal
  <2>1. EvTyped'
    BY <1>0, <1>2 DEF EvTyped
  <2>2. \A d \in TimedConn \ {c} : EvSame(d)
    BY <1>2 DEF EvSame
  <2>3. EvStage(c)
    BY DEF EvInv
  <2>5. EvStage(c)' /\ (EvOnTime(c) => EvOnTime(c)')
    BY <1>2, <2>3 DEF EvStage, EvNoWrap, EvSetup, EvTimed, EvOnTime
  <2>6. Opened' /\ EvWatched' /\ EvRefs'
    <3>1. Opened' /\ EvWatched'
      BY <1>2 DEF EvInv, Opened, EvWatched
    <3>2. Stopped' = Stopped /\ Immediate' = Immediate /\ refs' = refs
      BY <1>2 DEF Stopped, Immediate
    <3> QED BY <3>1, <3>2 DEF EvInv, EvRefs
  <2>7. EvInv' /\ (Prompt /\ EvPunctual => EvPunctual')
    BY <1>2, <2>1, <2>2, <2>5, <2>6, EvOne DEF EvInv
  <2> QED BY <1>k, <1>2, <2>7, MonitorStutters
<1>3. ASSUME NEW c \in TimedConn, LibEv!Ready(c) PROVE Goal
  <2>1. /\ phase[c] = "negotiated" /\ ready' = [ready EXCEPT ![c] = TRUE]
        /\ UNCHANGED <<phase, owner, asked, call, now, wrap, timer, refs, closing, beat, heard>>
    BY <1>3 DEF LibEv!Ready, LibEv!tcpVars
  <2>2. ready' \in [TimedConn -> BOOLEAN] /\ \A d \in TimedConn \ {c} : ready'[d] = ready[d]
    BY <1>0, <2>1 DEF EvTyped
  <2>3. ready[c] => ready'[c]
    BY <1>0, <2>1 DEF EvTyped
  <2>4. EvReady(c)'
    BY <2>1 DEF EvReady
  <2> HIDE DEF Goal
  <2> QED BY <1>0, <1>2, <2>1, <2>2, <2>3, <2>4 DEF EvTyped
<1>4. ASSUME NEW c \in TimedConn, LibEv!Ignored(c) PROVE Goal
  <2>1. PICK p \in {"opened", "connected", "lost", "gone"} :
             /\ phase' = [phase EXCEPT ![c] = p] /\ UNCHANGED <<owner, asked, call>>
             /\ phase[c] \in {"negotiated", "lost"} => p \in {"lost", "gone"}
             /\ phase[c] # "gone"
    BY <1>4 DEF LibEv!Ignored, LibEv!Construct, LibEv!Connected, LibEv!Lost, LibEv!Detach, LibEv!To
  <2>2. UNCHANGED <<now, wrap, timer, refs, ready, closing, beat, heard>>
    BY <1>4 DEF LibEv!Ignored, LibEv!timeVars
  <2>3. /\ phase' \in [TimedConn -> {"new", "opened", "connected", "negotiated", "lost", "gone"}]
        /\ phase'[c] = p /\ \A d \in TimedConn \ {c} : phase'[d] = phase[d]
    BY <1>0, <2>1 DEF EvTyped
  <2>4. EvReady(c)
    BY DEF EvInv, EvStage
  <2>5. EvReady(c)' /\ (phase[c] \in {"negotiated", "lost", "gone"} => phase'[c] \in {"negotiated", "lost", "gone"})
    BY <2>1, <2>2, <2>3, <2>4 DEF EvReady
  <2>6. ready' \in [TimedConn -> BOOLEAN]
    BY <1>0, <2>2 DEF EvTyped
  <2> HIDE DEF Goal
  <2> QED BY <1>2, <2>1, <2>2, <2>3, <2>5, <2>6
<1>5. ASSUME NEW c \in TimedConn, LibEv!onDetached(c) PROVE Goal
  BY <1>k, <1>5, EvDetached, MonitorStutters
<1>6. ASSUME NEW c \in TimedConn, LibEv!SetupExpired(c) PROVE Goal
  BY <1>k, <1>6, EvSetupExpired, MonitorStutters
<1>7. ASSUME NEW c \in TimedConn, LibEv!Silent(c) PROVE Goal
  <2>1. /\ EvInv' /\ (Prompt /\ EvPunctual => EvPunctual') /\ UNCHANGED <<owner, asked, call>>
        /\ \A d \in TimedConn \ {c} : closing'[d] = closing[d]
        /\ heard[c] >= 0 => now - heard[c] >= 3 * wrap[c].timeout
    BY <1>7, EvSilent
  <2>2. LibEv!KeepsLivePeer
    BY <2>1 DEF LibEv!KeepsLivePeer
  <2> QED BY <2>1, <2>2, MonitorStutters
<1>8. ASSUME NEW c \in TimedConn, LibEv!Beat(c) PROVE Goal
  BY <1>k, <1>8, EvBeat, MonitorStutters
<1>9. ASSUME NEW c \in TimedConn, NEW t \in Timeouts, LibEv!start(c, t) PROVE Goal
  BY <1>k, <1>9, EvStart, MonitorStutters
<1>10. ASSUME NEW c \in TimedConn, NEW f \in Fd, NEW ev \in SUBSET Kinds, LibEv!onActive(c, f, ev) PROVE Goal
  <2>1. /\ EvInv' /\ (Prompt /\ EvPunctual => EvPunctual') /\ UNCHANGED <<owner, asked, closing>>
        /\ call = {} /\ owner[f] = c /\ ev # {} /\ ev \subseteq asked[f]
        /\ call' = {[conn |-> c, fd |-> f, ev |-> ev]}
    BY <1>10, EvActive
  <2>2. [Monitor!Next]_(Monitor!vars)
    <3>1. owner[f] \in Conn /\ call' = {[conn |-> owner[f], fd |-> f, ev |-> ev]}
      BY <1>0, <2>1
    <3> QED BY <2>1, <3>1, MonitorProcess
  <2> QED BY <1>k, <2>1, <2>2
<1>11. ASSUME LibEv!processed PROVE Goal
  <2>1. call # {} /\ call' = {} /\ UNCHANGED <<phase, owner, asked, now, wrap, timer, refs, ready, closing, beat, heard>>
    BY <1>11 DEF LibEv!processed, LibEv!End, LibEv!timeVars
  <2>2. EvTyped'
    BY <1>0, <2>1 DEF EvTyped
  <2>3. ASSUME NEW d \in TimedConn PROVE EvStage(d)' /\ (EvOnTime(d) => EvOnTime(d)')
    <3>1. EvSame(d) /\ EvStage(d)
      BY <2>1 DEF EvSame, EvInv
    <3> QED BY <2>1, <3>1, EvFrame
  <2>4. Opened' /\ EvWatched' /\ EvRefs'
    <3>1. Opened' /\ EvWatched'
      BY <2>1 DEF EvInv, Opened, EvWatched
    <3>2. Stopped' = Stopped /\ Immediate' = Immediate /\ refs' = refs
      BY <2>1 DEF Stopped, Immediate
    <3> QED BY <3>1, <3>2 DEF EvInv, EvRefs
  <2>5. EvInv' /\ (Prompt /\ EvPunctual => EvPunctual')
    BY <2>2, <2>3, <2>4 DEF EvInv, EvPunctual
  <2> QED BY <1>k, <2>1, <2>5, MonitorDone
<1>12. ASSUME LibEv!Tick PROVE Goal
  BY <1>k, <1>12, EvTick, MonitorStutters
<1> HIDE DEF Goal
<1>13. Goal
  BY <1>1, <1>3, <1>4, <1>5, <1>6, <1>7, <1>8, <1>9, <1>10, <1>11, <1>12 DEF LibEv!Next, LibEv!Kinds, Kinds
<1> QED BY <1>13 DEF Goal

\* No wrapper and no timer exist at first.
LEMMA EvInit == ASSUME LibEv!Init PROVE EvInv /\ EvPunctual
<1> USE TcpAssumption, LoopsAssumption
<1>1. /\ phase = [c \in TimedConn |-> "new"] /\ owner = [f \in Fd |-> None] /\ asked = [f \in Fd |-> {}]
      /\ call = {} /\ now = 0 /\ refs = 0 /\ wrap = [c \in {} |-> 0] /\ timer = [c \in {} |-> 0]
      /\ ready = [c \in TimedConn |-> FALSE] /\ closing = [c \in TimedConn |-> "no"]
      /\ beat = [c \in TimedConn |-> 0] /\ heard = [c \in TimedConn |-> -1]
  BY DEF LibEv!Init, LibEv!TcpInit
<1>2. DOMAIN wrap = {} /\ DOMAIN timer = {}
  BY <1>1
<1>3. EvTyped
  <2>1. 0 \in 0..MaxTime /\ -1 \in -1..MaxTime
    OBVIOUS
  <2> QED BY <1>1, <1>2, <2>1 DEF EvTyped
<1>4. Opened /\ EvWatched /\ \A c \in TimedConn : EvStage(c)
  BY <1>1, <1>2 DEF Opened, EvWatched, EvStage, EvNoWrap, EvSetup, EvTimed, EvReady
<1>5. EvRefs
  <2>1. Stopped = {} /\ Immediate = {}
    BY <1>1, <1>2 DEF Stopped, Immediate
  <2>2. IsFiniteSet({}) /\ Cardinality({}) = 0
    BY FS_EmptySet
  <2>3. refs = -Cardinality({}) - Cardinality({})
    BY <1>1, <2>2
  <2> QED BY <2>1, <2>2, <2>3 DEF EvRefs
<1>6. EvPunctual
  BY <1>2 DEF EvPunctual, EvOnTime
<1> QED BY <1>3, <1>4, <1>5, <1>6 DEF EvInv

\* The invariant of libev explains the timers and the references that are left.
LEMMA EvTimersExplained == ASSUME EvInv PROVE LibEv!TimersExplained
<1>1. ASSUME NEW c \in DOMAIN timer \ DOMAIN wrap PROVE timer[c].repeat = 0
  <2>1. c \in TimedConn
    BY DEF EvInv, EvTyped
  <2> QED BY <1>1, <2>1 DEF EvInv, EvStage, EvNoWrap
<1>2. ASSUME DOMAIN wrap = {}, refs # 0 PROVE \E c \in TimedConn : closing[c] = "immediate"
  <2>1. Stopped = {}
    BY <1>2 DEF Stopped
  <2>2. Immediate # {}
    <3>1. Cardinality({}) = 0
      BY FS_EmptySet
    <3>2. refs = -Cardinality(Stopped) - Cardinality(Immediate)
      BY DEF EvInv, EvRefs
    <3>3. ASSUME Immediate = {} PROVE refs = -Cardinality({}) - Cardinality({})
      BY <2>1, <3>2, <3>3
    <3>4. -Cardinality({}) - Cardinality({}) = 0
      BY <3>1
    <3> QED BY <1>2, <3>3, <3>4
  <2> QED BY <2>2 DEF Immediate
<1> QED BY <1>1, <1>2 DEF LibEv!TimersExplained

\* A timer that is set for what comes first, and served in time, keeps the heartbeats
\* in time and finds out that a server is silent.
LEMMA EvInTime == ASSUME EvInv, EvPunctual PROVE LibEv!BeatsInTime /\ LibEv!SilenceCloses
<1> USE LoopsAssumption
<1>1. EvTyped /\ now \in Nat
  BY DEF EvInv, EvTyped
<1>2. ASSUME NEW c \in DOMAIN wrap
      PROVE  /\ wrap[c].next \in Nat /\ wrap[c].expire \in Nat /\ wrap[c].timeout \in Nat
             /\ c \in DOMAIN timer => timer[c].at \in Int
             /\ c \in TimedConn /\ beat[c] \in Nat /\ heard[c] \in Int
             /\ EvOnTime(c) /\ EvStage(c)
  <2>1. wrap[c].timeout \in Nat
    BY <1>1, EvTimeouts DEF EvTyped
  <2>2. /\ wrap[c].next \in Nat /\ wrap[c].expire \in Nat /\ c \in DOMAIN timer => timer[c].at \in Int
    BY <1>1 DEF EvTyped
  <2>3. c \in TimedConn
    BY <1>1 DEF EvTyped
  <2>4. beat[c] \in Nat /\ heard[c] \in Int
    BY <1>1, <2>3 DEF EvTyped
  <2>5. EvOnTime(c) /\ EvStage(c)
    BY <2>3 DEF EvInv, EvPunctual
  <2> QED BY <1>1, <2>1, <2>2, <2>3, <2>4, <2>5 DEF EvTyped
<1>3. ASSUME NEW c \in DOMAIN wrap, wrap[c].timeout # 0, closing[c] = "no"
      PROVE  /\ now - beat[c] <= LibEv!HalfTimeout(wrap[c].timeout) + MaxLate
             /\ now <= MaxLate + wrap[c].expire
  <2> DEFINE h == LibEv!HalfTimeout(wrap[c].timeout)
  <2>1. /\ c \in DOMAIN timer /\ timer[c].at <= wrap[c].next /\ timer[c].at <= wrap[c].expire
        /\ wrap[c].next <= beat[c] + h /\ now <= timer[c].at + MaxLate
    BY <1>2, <1>3 DEF EvOnTime
  <2>2. h \in Nat
    BY <1>2, <1>3, EvHalf
  <2> HIDE DEF h
  <2>3. now - beat[c] <= h + MaxLate /\ now <= MaxLate + wrap[c].expire
    BY <1>1, <1>2, <2>1, <2>2
  <2> QED BY <2>3 DEF h
<1>4. LibEv!BeatsInTime
  BY <1>3 DEF LibEv!BeatsInTime, LibEv!Negotiated
<1>5. LibEv!SilenceCloses
  <2> SUFFICES ASSUME NEW c \in DOMAIN wrap, closing[c] = "no", LibEv!Negotiated(c) \/ ~ready[c]
               PROVE  now <= MaxLate + IF heard[c] >= 0 THEN heard[c] + 3 * wrap[c].timeout ELSE wrap[c].expire
    BY DEF LibEv!SilenceCloses
  <2>1. CASE wrap[c].timeout # 0
    <3>1. heard[c] >= 0 => wrap[c].expire = heard[c] + 3 * wrap[c].timeout
      BY <1>2, <2>1 DEF EvStage, EvTimed
    <3> QED BY <1>3, <2>1, <3>1
  <2>2. CASE wrap[c].timeout = 0
    <3>1. heard[c] = -1 /\ c \in DOMAIN timer /\ timer[c].at = wrap[c].expire
      BY <1>2, <2>2 DEF EvStage, EvSetup, LibEv!Negotiated
    <3>2. now <= timer[c].at + MaxLate
      BY <1>2, <3>1 DEF EvOnTime
    <3> QED BY <1>1, <1>2, <3>1, <3>2
  <2> QED BY <2>1, <2>2
<1> QED BY <1>4, <1>5

-----------------------------------------------------------------------------
\* The inductive invariant: that of the handler the program was built for.
IInv == /\ loop \in {"libevent", "asio", "libuv", "libev"}
        /\ loop = "libevent" => EventInv
        /\ loop = "asio"     => AsioInv
        /\ loop = "libuv"    => UvInv
        /\ loop = "libev"    => EvInv /\ (Prompt => EvPunctual)

\* It holds at first.
LEMMA InitIInv == Init => IInv
<1> SUFFICES ASSUME Init PROVE IInv
  OBVIOUS
<1>1. CASE loop = "libevent" /\ LibEvent!Init
  BY <1>1, EventInit DEF IInv
<1>2. CASE loop = "asio" /\ Asio!Init
  BY <1>2, AsioInit DEF IInv
<1>3. CASE loop = "libuv" /\ LibUv!Init
  BY <1>3, UvInit DEF IInv
<1>4. CASE loop = "libev" /\ LibEv!Init
  BY <1>4, EvInit DEF IInv
<1> QED BY <1>1, <1>2, <1>3, <1>4 DEF Init

\* A step of the handler that was built keeps it, is one of FdMonitor, frees no timer
\* again without an explanation, and closes no connection of a server that was heard.
LEMMA NextIInv ==
  ASSUME IInv, Next
  PROVE  /\ IInv' /\ [Monitor!Next]_(Monitor!vars)
         /\ loop = "libevent" => LibEvent!FreedAgain
         /\ loop = "libev" => LibEv!KeepsLivePeer
<1>1. CASE loop = "libevent" /\ LibEvent!Next /\ loop' = loop
  <2>1. EventInv' /\ [Monitor!Next]_(Monitor!vars) /\ LibEvent!FreedAgain
    BY <1>1, EventStep DEF IInv
  <2> QED BY <1>1, <2>1 DEF IInv
<1>2. CASE loop = "asio" /\ Asio!Next /\ loop' = loop
  <2>1. AsioInv' /\ [Monitor!Next]_(Monitor!vars)
    BY <1>2, AsioStep DEF IInv
  <2> QED BY <1>2, <2>1 DEF IInv
<1>3. CASE loop = "libuv" /\ LibUv!Next /\ loop' = loop
  <2>1. UvInv' /\ [Monitor!Next]_(Monitor!vars)
    BY <1>3, UvStep DEF IInv
  <2> QED BY <1>3, <2>1 DEF IInv
<1>4. CASE loop = "libev" /\ LibEv!Next /\ loop' = loop
  <2>1. EvInv' /\ (Prompt /\ EvPunctual => EvPunctual') /\ [Monitor!Next]_(Monitor!vars) /\ LibEv!KeepsLivePeer
    BY <1>4, EvStep DEF IInv
  <2> QED BY <1>4, <2>1 DEF IInv
<1> QED BY <1>1, <1>2, <1>3, <1>4 DEF Next

\* A step that changes nothing keeps the invariant, too.
LEMMA StutterIInv ==
  ASSUME IInv, UNCHANGED vars
  PROVE  /\ IInv' /\ [Monitor!Next]_(Monitor!vars)
<1>1. /\ UNCHANGED <<loop, phase, owner, asked, call>> /\ UNCHANGED eventVars /\ UNCHANGED asioVars
      /\ UNCHANGED uvVars /\ UNCHANGED evVars
  BY DEF vars, tcpVars
<1>2. EventInv => EventInv'
  BY <1>1 DEF EventInv, eventVars, LibEvent!TypeOK, LibEvent!TcpTypeOK, Opened, EventWatched, EventTimers
<1>3. AsioInv => AsioInv'
  BY <1>1 DEF AsioInv, asioVars, Asio!TypeOK, Asio!TcpTypeOK, Opened, AsioWatched, AsioArmed, AsioRunning, AsioFresh
<1>4. UvInv => UvInv'
  BY <1>1 DEF UvInv, uvVars, LibUv!TypeOK, LibUv!TcpTypeOK, Opened, UvWatched, UvOwned
<1>5. EvInv => EvInv'
  <2>1. EvTyped => EvTyped'
    BY <1>1 DEF evVars, EvTyped
  <2>2. Opened /\ EvWatched => Opened' /\ EvWatched'
    BY <1>1 DEF evVars, Opened, EvWatched
  <2>3. \A c \in TimedConn : EvStage(c) => EvStage(c)'
    BY <1>1 DEF evVars, EvStage, EvNoWrap, EvSetup, EvTimed, EvReady
  <2>4. EvRefs => EvRefs'
    BY <1>1 DEF evVars, EvRefs, Stopped, Immediate
  <2> QED BY <2>1, <2>2, <2>3, <2>4 DEF EvInv
<1>6. EvPunctual => EvPunctual'
  BY <1>1 DEF evVars, EvPunctual, EvOnTime
<1>7. IInv'
  BY <1>1, <1>2, <1>3, <1>4, <1>5, <1>6 DEF IInv
<1> QED BY <1>1, <1>7, MonitorStutters

\* The invariant of the handlers holds in every state of every behaviour.
LEMMA Invariance == Spec => []IInv
<1>1. IInv /\ [Next]_vars => IInv'
  BY NextIInv, StutterIInv
<1> QED BY InitIInv, <1>1, PTL DEF Spec

\* Whichever event loop the program was built for, what the loop may call back has its
\* owner, and an owner its callback (libevent.h:178-210, libev.h:322-334,
\* libuv.h:80-116, libboostasio.h:189-199), for every number of connections and
\* descriptors and every bound.
THEOREM CallbacksOwnedHolds == Spec => []CallbacksOwned
<1>1. ASSUME EventInv PROVE LibEvent!TypeOK /\ LibEvent!TimersLive
  BY <1>1 DEF EventInv, EventTimers, LibEvent!TimersLive
<1>2. ASSUME AsioInv PROVE Asio!TypeOK /\ Asio!ArmedWhenAsked
  BY <1>2, AsioArmedWhenAsked DEF AsioInv
<1>3. ASSUME UvInv PROVE LibUv!TypeOK /\ LibUv!HandlesOwned
  BY <1>3, UvHandlesOwned DEF UvInv
<1>4. ASSUME EvInv PROVE LibEv!TypeOK /\ LibEv!TimersExplained
  BY <1>4, EvTypes, EvTimersExplained DEF EvInv
<1>5. IInv => CallbacksOwned
  BY <1>1, <1>2, <1>3, <1>4 DEF IInv, CallbacksOwned, TypeOK
<1> QED BY Invariance, <1>5, PTL

\* Each of the four handlers implements FdMonitor: process() is called for what the
\* owner of the descriptor asked for last, and for nothing else (libevent.h:153-177;
\* libboostasio.h:178-306; libuv.h:61-70; libev.h:274-283).
THEOREM MonitorRefinement == Spec => MonitorsWhatIsAsked
<1>1. Init => Monitor!Init
  BY DEF Init, LibEvent!Init, LibEvent!TcpInit, Asio!Init, Asio!TcpInit, LibUv!Init, LibUv!TcpInit,
         LibEv!Init, LibEv!TcpInit, Monitor!Init
<1>2. IInv /\ [Next]_vars => [Monitor!Next]_(Monitor!vars)
  BY NextIInv, StutterIInv
<1> QED BY Invariance, <1>1, <1>2, PTL DEF Spec, MonitorsWhatIsAsked, Monitor!Spec

\* A timer of libevent that was freed is freed again only for a connection that was lost
\* before it negotiated, at the address of an earlier one (libevent.h:186-193).
THEOREM FreedAgainHolds == Spec => FreedAgainExplained
<1>1. IInv /\ [Next]_vars => [loop = "libevent" => LibEvent!FreedAgain]_vars
  BY NextIInv
<1> QED BY Invariance, <1>1, PTL DEF Spec, FreedAgainExplained

\* If the loop serves a timer late by less than half the smallest timeout, heartbeats of
\* libev come in time, a silent server has its connection closed, and no other one has
\* (libev.h:225-265, 279).
THEOREM HeartbeatsKeptHolds ==
  ASSUME Prompt PROVE Spec => HeartbeatsKept
<1>1. IInv => (loop = "libev" => LibEv!BeatsInTime /\ LibEv!SilenceCloses)
  BY EvInTime DEF IInv
<1>2. IInv /\ [Next]_vars => [loop = "libev" => LibEv!KeepsLivePeer]_vars
  BY NextIInv
<1> QED BY Invariance, <1>1, <1>2, PTL DEF Spec, HeartbeatsKept
=============================================================================
