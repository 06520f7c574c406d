----------------------------- MODULE ProxyServer -----------------------------
(***************************************************************************)
(* The proxy: accepted clients, the Proxy and Forwarder of each, the two   *)
(* managers and the two control commands, driven by one libevent loop.     *)
(* One callback of the loop, with all it calls, is one action.             *)
(***************************************************************************)
EXTENDS Proxy

CONSTANT Hosts   \* the ids the configuration file maps to a server

ASSUME HostsAssumption == Hosts \subseteq Id

VARIABLE accepted   \* connections the listener has handed over

vars == <<processors, running, idToConn, accepted, proxyVars>>

Init == PmInit /\ ProxyInit /\ accepted = {}

-----------------------------------------------------------------------------
\* The Proxies of S are closed or destroyed; u is `up' at that moment.  A
\* Forwarder goes with the Proxy that owns it, when that leaves processors.
Release(S, u) ==
  /\ bev'  = [c \in Conn |-> bev[c] /\ c \notin S]
  /\ fwd'  = [c \in Conn |-> IF c \in S \ processors' THEN "none" ELSE fwd[c]]
  /\ up'   = [c \in Conn |-> IF c \in S THEN Freed(u[c]) ELSE u[c]]
  /\ down' = [c \in Conn |-> IF c \in S THEN Freed(down[c]) ELSE down[c]]

\* ConnectionProcessor::close on a Proxy: the bufferevent is freed and the
\* close callback drops the Proxy from both managers, which destroys it.
\* map, i and u are idToConn, the Proxy's id and up when close() is called.
Close(c, map, i, u) ==
  /\ DropConnection(map, i, c)
  /\ Release({c}, u)
  /\ id' = [id EXCEPT ![c] = i]
  /\ UNCHANGED <<state, accepted>>

\* Server::onAcceptConnection and the lambda main installs.
Accept(c) ==
  /\ c \notin accepted
  /\ accepted' = accepted \cup {c}
  /\ AddProxy(c)
  /\ bev' = [bev EXCEPT ![c] = c \in processors']
  /\ UNCHANGED <<state, id, fwd, up, down>>

-----------------------------------------------------------------------------
\* readProxy on the client's bufferevent and Proxy::dataRecieved, by _state.
CanRead(c, k) == bev[c] /\ Len(up[c].sent) + k <= MaxSent

\* Mutant: bytes stay in the input buffer in state FWD too.
ReadForwardKeeps(c, k) ==
  /\ CanRead(c, k)
  /\ state[c] = "FWD"
  /\ up' = [up EXCEPT ![c] = Read(@, k)]
  /\ UNCHANGED <<processors, running, idToConn, accepted, bev, state, id, fwd, down>>

ReadForward(c, k) ==
  /\ CanRead(c, k)
  /\ state[c] = "FWD"
  /\ \E s \in SendData(Read(up[c], k)) : up' = [up EXCEPT ![c] = s]
  /\ UNCHANGED <<processors, running, idToConn, accepted, bev, state, id, fwd, down>>

\* The input is left in the buffer: the first message is not complete, or
\* the server is not connected yet.
ReadKeep(c, k) ==
  /\ CanRead(c, k)
  /\ \/ state[c] = "CONNECTING"
     \/ state[c] = "BEGIN" /\ Len(up[c].in) + k < MsgSize
  /\ up' = [up EXCEPT ![c] = Read(@, k)]
  /\ UNCHANGED <<processors, running, idToConn, accepted, bev, state, id, fwd, down>>

FirstMessage(c, k) ==
  /\ CanRead(c, k)
  /\ state[c] = "BEGIN"
  /\ Len(up[c].in) + k >= MsgSize

\* The message is malformed, or getHostById finds no host for its id.
ReadReject(c, k) ==
  /\ FirstMessage(c, k)
  /\ Close(c, idToConn, id[c], [up EXCEPT ![c] = Read(@, k)])

\* The id is announced and the Forwarder starts to connect.  libevent may report a
\* failure from within connect(), before _state is set: onConnected(false) only logs,
\* and connect() may return true all the same.
ReadConnect(c, k, i) ==
  /\ FirstMessage(c, k)
  /\ i \in Hosts
  /\ id' = [id EXCEPT ![c] = i]
  /\ idToConn' = OnIdRecv(idToConn, i, c)
  /\ \E f \in {"connecting", "failed"} : fwd' = [fwd EXCEPT ![c] = f]
  /\ state' = [state EXCEPT ![c] = "CONNECTING"]
  /\ up' = [up EXCEPT ![c] = Read(@, k)]
  /\ UNCHANGED <<processors, running, accepted, bev, down>>

\* The id is announced and connect() returns false at once.
ReadConnectRefused(c, k, i) ==
  /\ FirstMessage(c, k)
  /\ i \in Hosts
  /\ Close(c, OnIdRecv(idToConn, i, c), i, [up EXCEPT ![c] = Read(@, k)])

\* EOF or an error on the client's bufferevent (onEvent with _connecting
\* false, as it always is on a Proxy).
ClientGone(c) ==
  /\ bev[c]
  /\ Close(c, idToConn, id[c], up)

-----------------------------------------------------------------------------
\* Mutant: onConnected without dataRecieved(_lastInput).
ConnectedKeeps(c) ==
  /\ fwd[c] = "connecting"
  /\ fwd' = [fwd EXCEPT ![c] = "connected"]
  /\ state' = [state EXCEPT ![c] = "FWD"]
  /\ UNCHANGED <<processors, running, idToConn, accepted, bev, id, up, down>>

\* BEV_EVENT_CONNECTED on the Forwarder: Proxy::onConnected(true) hands over
\* all the client has sent so far.
ServerConnected(c) ==
  /\ fwd[c] = "connecting"
  /\ fwd' = [fwd EXCEPT ![c] = "connected"]
  /\ state' = [state EXCEPT ![c] = "FWD"]
  /\ \E s \in SendData(up[c]) : up' = [up EXCEPT ![c] = s]
  /\ UNCHANGED <<processors, running, idToConn, accepted, bev, id, down>>

\* Mutant: onConnected(false) without the return.
UnreachableForwards(c) ==
  /\ fwd[c] = "connecting"
  /\ fwd' = [fwd EXCEPT ![c] = "failed"]
  /\ state' = [state EXCEPT ![c] = "FWD"]
  /\ UNCHANGED <<processors, running, idToConn, accepted, bev, id, up, down>>

\* An error while _connecting: Proxy::onConnected(false) logs and returns.
ServerUnreachable(c) ==
  /\ fwd[c] = "connecting"
  /\ fwd' = [fwd EXCEPT ![c] = "failed"]
  /\ UNCHANGED <<processors, running, idToConn, accepted, bev, state, id, up, down>>

\* readProxy on the Forwarder's bufferevent: Forwarder::dataRecieved.
ReadServer(c, k) ==
  /\ fwd[c] = "connected"
  /\ Len(down[c].sent) + k <= MaxSent
  /\ \E s \in SendData(Read(down[c], k)) : down' = [down EXCEPT ![c] = s]
  /\ UNCHANGED <<processors, running, idToConn, accepted, bev, state, id, fwd, up>>

\* EOF or an error once connected: Forwarder::close, Proxy::onFwdClose.
ServerGone(c) ==
  /\ fwd[c] = "connected"
  /\ Close(c, idToConn, id[c], up)

\* libevent drains an output buffer when its socket is writable.
FlushToServer(c) ==
  /\ fwd[c] = "connected"
  /\ \E n \in 1..Len(up[c].out) : up' = [up EXCEPT ![c] = Write(@, n)]
  /\ UNCHANGED <<processors, running, idToConn, accepted, bev, state, id, fwd, down>>

FlushToClient(c) ==
  /\ bev[c]
  /\ \E n \in 1..Len(down[c].out) : down' = [down EXCEPT ![c] = Write(@, n)]
  /\ UNCHANGED <<processors, running, idToConn, accepted, bev, state, id, fwd, up>>

-----------------------------------------------------------------------------
\* Controller::onControlMessage.  Objects that lose their last reference are
\* destroyed without their close callback.
CtlClose(i) ==
  /\ i >= 0
  /\ DropById(i)
  /\ Release(processors \ processors', up)
  /\ UNCHANGED <<state, id, accepted>>

CtlCloseAll ==
  /\ DropAll
  /\ Release(processors \ processors', up)
  /\ UNCHANGED <<state, id, accepted>>

-----------------------------------------------------------------------------
Client(c) == \/ Accept(c)
             \/ ClientGone(c)
             \/ FlushToClient(c)
             \/ \E k \in 1..MaxSent :
                  \/ ReadForward(c, k)
                  \/ ReadKeep(c, k)
                  \/ ReadReject(c, k)
                  \/ \E i \in Hosts : \/ ReadConnect(c, k, i)
                                      \/ ReadConnectRefused(c, k, i)

Server(c) == \/ ServerConnected(c)
             \/ ServerUnreachable(c)
             \/ ServerGone(c)
             \/ FlushToServer(c)
             \/ \E k \in 1..MaxSent : ReadServer(c, k)

Control == CtlCloseAll \/ \E i \in Id : CtlClose(i)

Next == Control \/ \E c \in Conn : Client(c) \/ Server(c)

Spec == Init /\ [][Next]_vars

\* libevent reports every connect attempt and drains a writable socket; that
\* the peers keep reading is assumed of the environment.
Fairness == \A c \in Conn : /\ WF_vars(ServerConnected(c) \/ ServerUnreachable(c))
                            /\ WF_vars(FlushToServer(c))
                            /\ WF_vars(FlushToClient(c))

FairSpec == Spec /\ Fairness

-----------------------------------------------------------------------------
\* The type of the state.
TypeOK ==
  /\ processors \subseteq accepted /\ accepted \subseteq Conn
  /\ running \in BOOLEAN
  /\ idToConn \subseteq Hosts \X Conn
  /\ bev   \in [Conn -> BOOLEAN]
  /\ state \in [Conn -> State]
  /\ id    \in [Conn -> Hosts \cup {-1}]
  /\ fwd   \in [Conn -> FwdState]
  /\ up    \in [Conn -> Stream]
  /\ down  \in [Conn -> Stream]

\* Between two callbacks a Proxy has its bufferevent exactly while
\* ConnectionManager owns it.  Left to right: close() leaves no object with a
\* null _bev in the table for sendData to use; right to left: a client's
\* socket never outlives its Proxy (connectionprocessor.cpp:105-139).
Ownership == \A c \in Conn : bev[c] <=> c \in processors

\* dataRecieved dereferences *_fwd in state FWD only, and Forwarder's
\* _destination points to its live owner: a Forwarder exists from the first
\* message until its Proxy goes, and FWD means that it is connected
\* (proxy.cpp:35-37, 55-57, 88-96).
ForwarderLife ==
  \A c \in Conn : /\ fwd[c] # "none" => bev[c]
                  /\ bev[c] => /\ (state[c] = "FWD" <=> fwd[c] = "connected")
                               /\ (state[c] = "BEGIN" <=> fwd[c] = "none")

\* An entry of _idToConn under an id the control channel can name refers to a
\* live Proxy that announced this id: no stale weak_ptr piles up, whichever
\* way sessions end (proxymanager.cpp:30-83).
EntriesLive ==
  \A i \in Hosts, c \in Conn :
    <<i, c>> \in idToConn /\ i >= 0 => c \in processors /\ id[c] = i

\* A live client is missing from _idToConn only if another client of its id
\* has closed before: dropConnection erases the whole key
\* (proxymanager.cpp:36).
OrphansExplained ==
  \A c \in processors :
    fwd[c] # "none" /\ <<id[c], c>> \notin idToConn
      => \E d \in accepted \ processors : id[d] = id[c]

\* dropAll is final: no session and no entry exists after it, whatever
\* connects or was connecting (connectionmanager.cpp:24, 51-52).
ClosedForGood == ~running => processors = {} /\ idToConn = {}

\* What a live session has read in a direction is what it has delivered, then
\* what waits in the output buffer, then what waits in the input buffer: no
\* byte is lost, repeated or overtaken across the switch from BEGIN over
\* CONNECTING to FWD (proxy.cpp:35-37, 53-57).
InOrder(s) == s.sent = s.rcvd \o s.out \o s.in

BytesInOrder == \A c \in Conn : bev[c] => InOrder(up[c]) /\ InOrder(down[c])

\* The directions of the sessions as a peer sees them.
Direction == Conn \X {"up", "down"}
Bytes(p)  == IF p[2] = "up" THEN up[p[1]] ELSE down[p[1]]
Phase(c)  == IF c \notin accepted THEN "idle" ELSE IF bev[c] THEN "open" ELSE "broken"

Pipes == INSTANCE BytePipes WITH
           Pipe  <- Direction,
           phase <- [p \in Direction |-> Phase(p[1])],
           sent  <- [p \in Direction |-> Bytes(p).sent],
           rcvd  <- [p \in Direction |-> Bytes(p).rcvd]

\* Each direction of each session implements a byte pipe: what a peer gets is
\* an initial part of what the other sent, and a session that ended moves no
\* byte and never comes back (connectionprocessor.cpp, proxy.cpp).
SessionsArePipes == Pipes!PipeSpec

\* No byte that arrived before the server was connected is left behind in the
\* input buffer, where no further callback might pick it up
\* (proxy.cpp:36).
NothingStranded ==
  ~SendMayFail => \A c \in Conn :
    fwd[c] = "connected" => up[c].in = <<>> /\ down[c].in = <<>>

\* An event other than CLOSE_ALL ends the sessions of one id only: a close
\* command or a failing peer never takes an unrelated client down
\* (proxymanager.cpp:55-76).
DropsShareOneId ==
  [][running' => \A c, d \in processors \ processors' : id'[c] = id'[d]]_vars

\* Once its first message is accepted, every byte a client sent reaches the
\* server, unless the session ends or the connect fails.
ClientBytesArrive ==
  \A c \in Conn, n \in 1..MaxSent :
    (fwd[c] # "none" /\ Len(up[c].sent) = n)
      ~> (Len(up[c].rcvd) >= n \/ ~bev[c] \/ fwd[c] = "failed")

\* tests/test.py test_4rmq_close_clients: a close command for an id closes
\* every client of that id, so each live client that announced an id must be
\* found under it.
CloseReachesAll ==
  \A c \in processors : fwd[c] # "none" => c \in WithId(idToConn, id[c])

\* proxy.cpp:92 "can't connect to server, closing": a client whose server
\* cannot be reached is closed.
UnreachableCloses == \A c \in Conn : fwd[c] = "failed" ~> ~bev[c]
=============================================================================
