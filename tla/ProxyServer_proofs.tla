------------------------- MODULE ProxyServer_proofs -------------------------
(***************************************************************************)
(* Proofs about ProxyServer, for every set of connections, every           *)
(* configuration and every bound.                                          *)
(***************************************************************************)
EXTENDS ProxyServer, SequenceTheorems, TLAPS

-----------------------------------------------------------------------------
(* What the buffer operations do to one stream. *)

\* Concatenation is associative, in the form the stream lemmas use.
LEMMA Associative ==
  ASSUME NEW r \in Seq(Nat), NEW s \in Seq(Nat), NEW t \in Seq(Nat)
  PROVE  (r \o s) \o t = r \o (s \o t)
BY SMT

\* A chunk read from a socket is a sequence of bytes.
LEMMA ChunkBytes ==
  ASSUME NEW s \in Stream, NEW k \in Nat
  PROVE  Chunk(s, k) \in Seq(Nat)
BY DEF Chunk, Stream

\* libevent's read keeps a stream well formed and in order, only extends what
\* was sent and leaves what was delivered.
LEMMA ReadStream ==
  ASSUME NEW s \in Stream, NEW k \in Nat
  PROVE  /\ Read(s, k) \in Stream
         /\ Read(s, k).rcvd = s.rcvd /\ Read(s, k).out = s.out
         /\ Read(s, k).sent = s.sent \o Chunk(s, k)
         /\ InOrder(s) => InOrder(Read(s, k))
<1>1. Chunk(s, k) \in Seq(Nat)
  BY ChunkBytes
<1>2. /\ Read(s, k) \in Stream
      /\ Read(s, k).rcvd = s.rcvd /\ Read(s, k).out = s.out
      /\ Read(s, k).sent = s.sent \o Chunk(s, k)
      /\ Read(s, k).in = s.in \o Chunk(s, k)
  BY <1>1, ConcatProperties DEF Read, Stream
<1>3. ASSUME InOrder(s) PROVE InOrder(Read(s, k))
  <2>1. s.rcvd \o s.out \in Seq(Nat) /\ s.in \in Seq(Nat)
    BY ConcatProperties DEF Stream
  <2>2. ((s.rcvd \o s.out) \o s.in) \o Chunk(s, k) = (s.rcvd \o s.out) \o (s.in \o Chunk(s, k))
    BY <1>1, <2>1, Associative
  <2> QED BY <1>2, <1>3, <2>2 DEF InOrder
<1> QED BY <1>2, <1>3

\* sendData keeps order and changes neither end of the stream; unless it may
\* fail it empties the input.
LEMMA SendStream ==
  ASSUME NEW s \in Stream, NEW t \in SendData(s)
  PROVE  /\ t \in Stream
         /\ t.sent = s.sent /\ t.rcvd = s.rcvd
         /\ InOrder(s) => InOrder(t)
         /\ ~SendMayFail => t.in = <<>>
<1>1. CASE t = [s EXCEPT !.out = @ \o s.in, !.in = <<>>]
  <2>1. /\ t \in Stream /\ t.sent = s.sent /\ t.rcvd = s.rcvd
        /\ t.in = <<>> /\ t.out = s.out \o s.in
    BY <1>1, ConcatProperties, EmptySeq DEF Stream
  <2>2. ASSUME InOrder(s) PROVE InOrder(t)
    <3>1. s.rcvd \in Seq(Nat) /\ s.out \in Seq(Nat) /\ s.in \in Seq(Nat)
      BY DEF Stream
    <3>2. (s.rcvd \o s.out) \o s.in = s.rcvd \o (s.out \o s.in)
      BY <3>1, Associative
    <3>3. s.rcvd \o (s.out \o s.in) \in Seq(Nat)
      BY <3>1, ConcatProperties
    <3>4. (s.rcvd \o (s.out \o s.in)) \o <<>> = s.rcvd \o (s.out \o s.in)
      BY <3>3, ConcatEmptySeq
    <3> QED BY <2>1, <2>2, <3>2, <3>4 DEF InOrder
  <2> QED BY <2>1, <2>2
<1>2. CASE SendMayFail /\ t = s
  BY <1>2
<1> QED BY <1>1, <1>2, ProxyAssumption DEF SendData

\* A socket write delivers the front of the output buffer and keeps order.
LEMMA WriteStream ==
  ASSUME NEW s \in Stream, NEW n \in 1..Len(s.out)
  PROVE  /\ Write(s, n) \in Stream
         /\ Write(s, n).sent = s.sent /\ Write(s, n).in = s.in
         /\ Write(s, n).rcvd = s.rcvd \o SubSeq(s.out, 1, n)
         /\ InOrder(s) => InOrder(Write(s, n))
<1> DEFINE a == SubSeq(s.out, 1, n)
           b == SubSeq(s.out, n + 1, Len(s.out))
<1>1. s.rcvd \in Seq(Nat) /\ s.out \in Seq(Nat) /\ s.in \in Seq(Nat)
  BY DEF Stream
<1>2. a \in Seq(Nat) /\ b \in Seq(Nat)
  BY <1>1
<1>3. /\ Write(s, n) \in Stream
      /\ Write(s, n).sent = s.sent /\ Write(s, n).in = s.in
      /\ Write(s, n).rcvd = s.rcvd \o a /\ Write(s, n).out = b
  BY <1>1, <1>2, ConcatProperties DEF Write, Stream
<1>4. ASSUME InOrder(s) PROVE InOrder(Write(s, n))
  <2>1. a \o b = s.out
    <3>1. 1 \in 1..Len(s.out)+1 /\ n \in 1-1..Len(s.out) /\ Len(s.out) \in n..Len(s.out)
      BY <1>1, LenProperties
    <3>2. a \o b = SubSeq(s.out, 1, Len(s.out))
      BY <1>1, <3>1, ConcatAdjacentSubSeq
    <3> QED BY <1>1, <3>2, SubSeqFull
  <2>2. (s.rcvd \o a) \o b = s.rcvd \o (a \o b)
    <3> HIDE DEF a, b
    <3> QED BY <1>1, <1>2, Associative
  <2> QED BY <1>3, <1>4, <2>1, <2>2 DEF InOrder
<1> QED BY <1>3, <1>4

\* Freeing the buffers keeps both ends.
LEMMA FreedStream ==
  ASSUME NEW s \in Stream
  PROVE  /\ Freed(s) \in Stream
         /\ Freed(s).sent = s.sent /\ Freed(s).rcvd = s.rcvd /\ Freed(s).in = <<>>
BY EmptySeq DEF Freed, Stream

-----------------------------------------------------------------------------
(* Type correctness. *)

\* Closing or destroying Proxies keeps the session variables well typed.
LEMMA ReleaseType ==
  ASSUME TypeOK, NEW S, NEW u \in [Conn -> Stream], Release(S, u)
  PROVE  /\ bev' \in [Conn -> BOOLEAN] /\ fwd' \in [Conn -> FwdState]
         /\ up' \in [Conn -> Stream] /\ down' \in [Conn -> Stream]
<1>1. bev' \in [Conn -> BOOLEAN]
  BY Zenon DEF TypeOK, Release
<1>2. fwd' \in [Conn -> FwdState]
  BY DEF TypeOK, Release, FwdState
<1>3. up' \in [Conn -> Stream] /\ down' \in [Conn -> Stream]
  BY FreedStream DEF TypeOK, Release
<1> QED BY <1>1, <1>2, <1>3

\* close() keeps the state well typed, whatever map, id and streams it meets.
LEMMA CloseType ==
  ASSUME TypeOK, NEW c \in Conn, NEW map \in SUBSET (Hosts \X Conn),
         NEW i \in Hosts \cup {-1}, NEW u \in [Conn -> Stream],
         Close(c, map, i, u)
  PROVE  TypeOK'
<1>1. /\ bev' \in [Conn -> BOOLEAN] /\ fwd' \in [Conn -> FwdState]
      /\ up' \in [Conn -> Stream] /\ down' \in [Conn -> Stream]
  BY ReleaseType DEF Close
<1>2. idToConn' \subseteq Hosts \X Conn
  BY DEF Close, DropConnection, EraseId
<1>3. /\ processors' \subseteq accepted' /\ accepted' \subseteq Conn
      /\ running' \in BOOLEAN
      /\ state' \in [Conn -> State] /\ id' \in [Conn -> Hosts \cup {-1}]
  BY DEF TypeOK, Close, DropConnection, CmDropConnections
<1> QED BY <1>1, <1>2, <1>3 DEF TypeOK

\* Updating one stream of a direction keeps the direction well typed.
LEMMA UpdateStream ==
  ASSUME NEW f \in [Conn -> Stream], NEW c \in Conn, NEW s \in Stream
  PROVE  [f EXCEPT ![c] = s] \in [Conn -> Stream]
OBVIOUS

\* Every callback of the loop keeps the state well typed.
LEMMA TypeStep == TypeOK /\ [Next]_vars => TypeOK'
<1> SUFFICES ASSUME TypeOK, [Next]_vars PROVE TypeOK'
  OBVIOUS
<1>1. CASE UNCHANGED vars
  BY <1>1 DEF TypeOK, vars, proxyVars
<1>2. ASSUME NEW c \in Conn, Accept(c) PROVE TypeOK'
  <2>1. bev' \in [Conn -> BOOLEAN]
    <3>1. \/ bev' = [bev EXCEPT ![c] = TRUE]
          \/ bev' = [bev EXCEPT ![c] = FALSE]
      <4>1. bev' = [bev EXCEPT ![c] = c \in processors']
        BY <1>2 DEF Accept
      <4>2. (c \in processors') = TRUE \/ (c \in processors') = FALSE
        <5>1. CASE c \in processors'
          BY <5>1, SMT
        <5>2. CASE c \notin processors'
          BY <5>2, SMT
        <5> QED BY <5>1, <5>2
      <4> QED BY <4>1, <4>2, Zenon
    <3> QED BY <3>1 DEF TypeOK
  <2> QED BY <1>2, <2>1 DEF TypeOK, Accept, AddProxy, CmAddConnection
<1>3. ASSUME NEW c \in Conn, ClientGone(c) \/ ServerGone(c) PROVE TypeOK'
  <2>1. Close(c, idToConn, id[c], up)
    BY <1>3 DEF ClientGone, ServerGone
  <2> QED BY <2>1, CloseType DEF TypeOK
<1>4. ASSUME NEW c \in Conn, NEW k \in 1..MaxSent, ReadForward(c, k) PROVE TypeOK'
  <2>1. PICK s \in SendData(Read(up[c], k)) : up' = [up EXCEPT ![c] = s]
    BY <1>4 DEF ReadForward
  <2>2. s \in Stream
    BY <2>1, ReadStream, SendStream DEF TypeOK
  <2> QED BY <1>4, <2>1, <2>2, UpdateStream DEF TypeOK, ReadForward
<1>5. ASSUME NEW c \in Conn, NEW k \in 1..MaxSent, ReadKeep(c, k) PROVE TypeOK'
  <2>1. Read(up[c], k) \in Stream
    BY ReadStream DEF TypeOK
  <2> QED BY <1>5, <2>1, UpdateStream DEF TypeOK, ReadKeep
<1>6. ASSUME NEW c \in Conn, NEW k \in 1..MaxSent, ReadReject(c, k) PROVE TypeOK'
  <2>1. Read(up[c], k) \in Stream
    BY ReadStream DEF TypeOK
  <2>2. [up EXCEPT ![c] = Read(@, k)] \in [Conn -> Stream]
    BY <2>1, UpdateStream DEF TypeOK
  <2> QED BY <1>6, <2>2, CloseType DEF TypeOK, ReadReject
<1>7. ASSUME NEW c \in Conn, NEW k \in 1..MaxSent, NEW i \in Hosts, ReadConnect(c, k, i)
      PROVE  TypeOK'
  <2>1. Read(up[c], k) \in Stream
    BY ReadStream DEF TypeOK
  <2>2. up' \in [Conn -> Stream]
    BY <1>7, <2>1, UpdateStream DEF TypeOK, ReadConnect
  <2> QED BY <1>7, <2>2 DEF TypeOK, ReadConnect, OnIdRecv, FwdState, State
<1>8. ASSUME NEW c \in Conn, NEW k \in 1..MaxSent, NEW i \in Hosts, ReadConnectRefused(c, k, i)
      PROVE  TypeOK'
  <2>1. Read(up[c], k) \in Stream
    BY ReadStream DEF TypeOK
  <2>2. [up EXCEPT ![c] = Read(@, k)] \in [Conn -> Stream]
    BY <2>1, UpdateStream DEF TypeOK
  <2>3. OnIdRecv(idToConn, i, c) \in SUBSET (Hosts \X Conn)
    BY DEF TypeOK, OnIdRecv
  <2> QED BY <1>8, <2>2, <2>3, CloseType DEF TypeOK, ReadConnectRefused
<1>9. ASSUME NEW c \in Conn, ServerConnected(c) PROVE TypeOK'
  <2>1. PICK s \in SendData(up[c]) : up' = [up EXCEPT ![c] = s]
    BY <1>9 DEF ServerConnected
  <2>2. s \in Stream
    BY <2>1, SendStream DEF TypeOK
  <2> QED BY <1>9, <2>1, <2>2, UpdateStream DEF TypeOK, ServerConnected, FwdState, State
<1>10. ASSUME NEW c \in Conn, ServerUnreachable(c) PROVE TypeOK'
  BY <1>10 DEF TypeOK, ServerUnreachable, FwdState
<1>11. ASSUME NEW c \in Conn, NEW k \in 1..MaxSent, ReadServer(c, k) PROVE TypeOK'
  <2>1. PICK s \in SendData(Read(down[c], k)) : down' = [down EXCEPT ![c] = s]
    BY <1>11 DEF ReadServer
  <2>2. s \in Stream
    BY <2>1, ReadStream, SendStream DEF TypeOK
  <2> QED BY <1>11, <2>1, <2>2, UpdateStream DEF TypeOK, ReadServer
<1>12. ASSUME NEW c \in Conn, FlushToServer(c) PROVE TypeOK'
  <2>1. PICK n \in 1..Len(up[c].out) : up' = [up EXCEPT ![c] = Write(@, n)]
    BY <1>12 DEF FlushToServer
  <2>2. Write(up[c], n) \in Stream
    BY WriteStream DEF TypeOK
  <2> QED BY <1>12, <2>1, <2>2, UpdateStream DEF TypeOK, FlushToServer
<1>13. ASSUME NEW c \in Conn, FlushToClient(c) PROVE TypeOK'
  <2>1. PICK n \in 1..Len(down[c].out) : down' = [down EXCEPT ![c] = Write(@, n)]
    BY <1>13 DEF FlushToClient
  <2>2. Write(down[c], n) \in Stream
    BY WriteStream DEF TypeOK
  <2> QED BY <1>13, <2>1, <2>2, UpdateStream DEF TypeOK, FlushToClient
<1>14. ASSUME CtlCloseAll \/ \E i \in Id : CtlClose(i) PROVE TypeOK'
  <2>1. Release(processors \ processors', up)
    BY <1>14 DEF CtlCloseAll, CtlClose
  <2>2. /\ bev' \in [Conn -> BOOLEAN] /\ fwd' \in [Conn -> FwdState]
        /\ up' \in [Conn -> Stream] /\ down' \in [Conn -> Stream]
    BY <2>1, ReleaseType DEF TypeOK
  <2>3. /\ processors' \subseteq processors /\ idToConn' \subseteq idToConn
        /\ running' \in BOOLEAN /\ UNCHANGED <<state, id, accepted>>
    BY <1>14 DEF TypeOK, CtlCloseAll, CtlClose, DropAll, DropById, CmDropAll,
                 CmDropConnections, EraseId
  <2> QED BY <2>2, <2>3 DEF TypeOK
<1> QED BY <1>1, <1>2, <1>3, <1>4, <1>5, <1>6, <1>7, <1>8, <1>9, <1>10, <1>11, <1>12,
           <1>13, <1>14 DEF Next, Client, Server, Control

\* Every reachable state is well typed.
THEOREM TypeCorrect == Spec => []TypeOK
<1>1. Init => TypeOK
  <2>1. NoBytes \in Stream
    BY EmptySeq DEF NoBytes, Stream
  <2>2. ASSUME Init PROVE up \in [Conn -> Stream] /\ down \in [Conn -> Stream]
    BY <2>1, <2>2 DEF Init, ProxyInit
  <2> QED BY <2>2 DEF Init, PmInit, CmInit, ProxyInit, TypeOK, State, FwdState
<1> QED BY <1>1, TypeStep, PTL DEF Spec

-----------------------------------------------------------------------------
(* The inductive invariant: ownership and registry. *)

\* A connection not yet accepted has no trace of a session.
Untouched ==
  \A c \in Conn \ accepted :
    state[c] = "BEGIN" /\ id[c] = -1 /\ up[c] = NoBytes /\ down[c] = NoBytes

\* A live client without a Forwarder has not announced an id.
Anonymous == \A c \in processors : fwd[c] = "none" => id[c] = -1

SessionInv == Untouched /\ Ownership /\ ForwarderLife /\ ClosedForGood

RegistryInv == Anonymous /\ EntriesLive /\ OrphansExplained

\* The callbacks that only move bytes of an established session.
Quiet == UNCHANGED <<processors, running, idToConn, accepted, bev, state, id, fwd>>

\* Reading, forwarding and flushing are such callbacks.
LEMMA QuietSteps ==
  ASSUME NEW c \in Conn,
         \/ FlushToServer(c) \/ FlushToClient(c)
         \/ \E k \in 1..MaxSent : ReadForward(c, k) \/ ReadKeep(c, k) \/ ReadServer(c, k)
  PROVE  Quiet
BY DEF Quiet, FlushToServer, FlushToClient, ReadForward, ReadKeep, ReadServer

\* A Proxy with a bufferevent is owned by a manager that is still running.
LEMMA LiveIsOwned ==
  ASSUME TypeOK, SessionInv, NEW c \in Conn, bev[c]
  PROVE  c \in processors /\ running /\ c \in accepted
BY DEF TypeOK, SessionInv, Ownership, ClosedForGood

\* close() on a live Proxy removes exactly this Proxy, and its Forwarder.
LEMMA CloseEffect ==
  ASSUME TypeOK, SessionInv, NEW c \in Conn, bev[c], NEW map, NEW i, NEW u,
         Close(c, map, i, u)
  PROVE  /\ processors' = processors \ {c}
         /\ running /\ running' = running
         /\ idToConn' = IF i >= 0 THEN EraseId(map, i) ELSE map
         /\ \A d \in Conn : bev'[d] <=> bev[d] /\ d # c
         /\ fwd'[c] = "none"
         /\ \A d \in Conn \ {c} : fwd'[d] = fwd[d] /\ id'[d] = id[d]
         /\ id'[c] = i
         /\ UNCHANGED <<state, accepted>>
<1>1. running /\ c \in processors
  BY LiveIsOwned
<1>2. /\ processors' = processors \ {c} /\ running' = running
      /\ idToConn' = IF i >= 0 THEN EraseId(map, i) ELSE map
      /\ UNCHANGED <<state, accepted>>
  BY <1>1 DEF Close, DropConnection, CmDropConnections
<1>3. \A d \in Conn : bev'[d] <=> bev[d] /\ d # c
  BY Zenon DEF Close, Release
<1>4. \A d \in Conn : fwd'[d] = IF d = c THEN "none" ELSE fwd[d]
  BY <1>2 DEF Close, Release
<1>5. id' = [id EXCEPT ![c] = i] /\ id \in [Conn -> Hosts \cup {-1}]
  BY DEF Close, TypeOK
<1> QED BY <1>1, <1>2, <1>3, <1>4, <1>5

\* The control commands destroy the Proxies that leave the table.
LEMMA DropEffect ==
  ASSUME TypeOK, SessionInv, CtlCloseAll \/ \E i \in Id : CtlClose(i)
  PROVE  /\ processors' \subseteq processors
         /\ \A d \in Conn : bev'[d] <=> bev[d] /\ d \in processors'
         /\ \A d \in processors' : fwd'[d] = fwd[d]
         /\ \A d \in Conn : d \notin processors' => fwd'[d] = "none"
         /\ UNCHANGED <<state, id, accepted>>
<1>1. /\ processors' \subseteq processors /\ UNCHANGED <<state, id, accepted>>
      /\ Release(processors \ processors', up)
  BY DEF CtlCloseAll, CtlClose, DropAll, DropById, CmDropAll, CmDropConnections
<1>2. \A d \in Conn : bev'[d] <=> bev[d] /\ d \notin processors \ processors'
  BY <1>1, Zenon DEF Release
<1>3. \A d \in Conn : fwd'[d] = IF d \in processors \ processors' THEN "none" ELSE fwd[d]
  BY <1>1 DEF Release
<1>4. \A d \in Conn : (bev[d] <=> d \in processors) /\ (d \notin processors => fwd[d] = "none")
  BY DEF SessionInv, Ownership, ForwarderLife
<1> QED BY <1>1, <1>2, <1>3, <1>4 DEF TypeOK

\* The sessions a step of Next may touch, as the proofs split it: no session,
\* close() on one, accept, the first message, the connect result, a command.
LEMMA StepCases ==
  ASSUME TypeOK, SessionInv, [Next]_vars
  PROVE  \/ Quiet
         \/ \E c \in Conn : Accept(c)
         \/ \E c \in Conn, k \in 1..MaxSent, i \in Hosts : ReadConnect(c, k, i)
         \/ \E c \in Conn : ServerConnected(c) \/ ServerUnreachable(c)
         \/ \E c \in Conn : bev[c] /\ \E u : Close(c, idToConn, id[c], u)
         \/ \E c \in Conn, i \in Hosts :
              /\ bev[c] /\ fwd[c] = "none"
              /\ \E u : Close(c, OnIdRecv(idToConn, i, c), i, u)
         \/ CtlCloseAll \/ \E i \in Id : CtlClose(i)
<1>1. CASE UNCHANGED vars
  BY <1>1 DEF vars, proxyVars, Quiet
<1>2. ASSUME NEW c \in Conn,
             ClientGone(c) \/ ServerGone(c) \/ \E k \in 1..MaxSent : ReadReject(c, k)
      PROVE  \E u : bev[c] /\ Close(c, idToConn, id[c], u)
  BY <1>2 DEF ClientGone, ServerGone, ReadReject, FirstMessage, CanRead, SessionInv, ForwarderLife
<1>3. ASSUME NEW c \in Conn, NEW k \in 1..MaxSent, NEW i \in Hosts, ReadConnectRefused(c, k, i)
      PROVE  \E u : bev[c] /\ fwd[c] = "none" /\ Close(c, OnIdRecv(idToConn, i, c), i, u)
  BY <1>3 DEF ReadConnectRefused, FirstMessage, CanRead, SessionInv, ForwarderLife
<1> QED BY <1>1, <1>2, <1>3, QuietSteps DEF Next, Client, Server, Control

\* Every step preserves ownership, the life of the Forwarder and the finality
\* of dropAll.
LEMMA SessionStep ==
  ASSUME TypeOK, RegistryInv, SessionInv, [Next]_vars,
         NEW c \in Conn   \* any connection
  PROVE  /\ bev'[c] <=> c \in processors'
         /\ fwd'[c] # "none" => bev'[c]
         /\ bev'[c] => /\ (state'[c] = "FWD" <=> fwd'[c] = "connected")
                       /\ (state'[c] = "BEGIN" <=> fwd'[c] = "none")
         /\ ~running' => processors' = {} /\ idToConn' = {}
<1> USE DEF SessionInv
<1> DEFINE Goal == /\ bev'[c] <=> c \in processors'
                   /\ fwd'[c] # "none" => bev'[c]
                   /\ bev'[c] => /\ (state'[c] = "FWD" <=> fwd'[c] = "connected")
                                 /\ (state'[c] = "BEGIN" <=> fwd'[c] = "none")
                   /\ ~running' => processors' = {} /\ idToConn' = {}
<1>1. CASE Quiet
  BY <1>1 DEF Quiet, Ownership, ForwarderLife, ClosedForGood
<1>2. ASSUME NEW d \in Conn, Accept(d) PROVE Goal
  <2>1. /\ processors' = IF running THEN processors \cup {d} ELSE processors
        /\ UNCHANGED <<running, idToConn, state, fwd>> /\ d \notin accepted
    BY <1>2 DEF Accept, AddProxy, CmAddConnection
  <2>2. \A e \in Conn : bev'[e] <=> IF e = d THEN d \in processors' ELSE bev[e]
    <3>1. bev' = [bev EXCEPT ![d] = d \in processors']
      BY <1>2 DEF Accept
    <3>2. bev \in [Conn -> BOOLEAN]
      BY DEF TypeOK
    <3> QED BY <3>1, <3>2, Zenon
  <2>3. ~bev[d] /\ fwd[d] = "none" /\ state[d] = "BEGIN"
    BY <2>1 DEF Untouched, Ownership, ForwarderLife, TypeOK
  <2> QED BY <2>1, <2>2, <2>3 DEF Ownership, ForwarderLife, ClosedForGood, TypeOK
<1>3. ASSUME NEW d \in Conn, NEW k \in 1..MaxSent, NEW i \in Hosts, ReadConnect(d, k, i) PROVE Goal
  <2>1. bev[d] /\ running
    BY <1>3, LiveIsOwned DEF ReadConnect, FirstMessage, CanRead
  <2> QED BY <1>3, <2>1 DEF ReadConnect, Ownership, ForwarderLife, ClosedForGood, TypeOK
<1>4. ASSUME NEW d \in Conn, ServerConnected(d) \/ ServerUnreachable(d) PROVE Goal
  BY <1>4 DEF ServerConnected, ServerUnreachable, Ownership, ForwarderLife, ClosedForGood, TypeOK
<1>5. ASSUME NEW d \in Conn, NEW map, NEW i, NEW u, bev[d], Close(d, map, i, u) PROVE Goal
  BY <1>5, CloseEffect DEF Ownership, ForwarderLife, ClosedForGood
<1>6. CASE CtlCloseAll \/ \E i \in Id : CtlClose(i)
  <2>1. ~running' => processors' = {} /\ idToConn' = {}
    BY <1>6 DEF ClosedForGood, CtlCloseAll, CtlClose, DropAll, DropById, CmDropAll,
                CmDropConnections, EraseId
  <2> QED BY <1>6, <2>1, DropEffect DEF Ownership, ForwarderLife
<1> QED BY <1>1, <1>2, <1>3, <1>4, <1>5, <1>6, StepCases

\* Every step preserves what _idToConn says about the live clients.
LEMMA RegistryStep ==
  ASSUME TypeOK, TypeOK', SessionInv, RegistryInv, [Next]_vars
  PROVE  RegistryInv'
<1>1. CASE Quiet
  BY <1>1 DEF Quiet, RegistryInv, Anonymous, EntriesLive, OrphansExplained
<1>2. ASSUME NEW d \in Conn, Accept(d) PROVE RegistryInv'
  <2>1. /\ processors' = IF running THEN processors \cup {d} ELSE processors
        /\ accepted' = accepted \cup {d} /\ d \notin accepted
        /\ UNCHANGED <<idToConn, id, fwd>>
    BY <1>2 DEF Accept, AddProxy, CmAddConnection
  <2>2. fwd[d] = "none" /\ id[d] = -1
    BY <2>1 DEF SessionInv, Untouched, Ownership, ForwarderLife, TypeOK
  <2> QED BY <2>1, <2>2 DEF RegistryInv, Anonymous, EntriesLive, OrphansExplained, TypeOK
<1>3. ASSUME NEW d \in Conn, NEW k \in 1..MaxSent, NEW i \in Hosts, ReadConnect(d, k, i)
      PROVE  RegistryInv'
  <2>1. bev[d] /\ d \in processors /\ fwd[d] = "none" /\ id[d] = -1
    BY <1>3, LiveIsOwned DEF ReadConnect, FirstMessage, CanRead, SessionInv, ForwarderLife,
       RegistryInv, Anonymous
  <2>2. /\ idToConn' = idToConn \cup {<<i, d>>}
        /\ \A e \in Conn : id'[e] = IF e = d THEN i ELSE id[e]
        /\ fwd'[d] # "none" /\ \A e \in Conn \ {d} : fwd'[e] = fwd[e]
        /\ UNCHANGED <<processors, accepted>>
    BY <1>3 DEF ReadConnect, OnIdRecv, TypeOK
  <2>3. Anonymous'
    BY <2>1, <2>2 DEF RegistryInv, Anonymous, TypeOK
  <2>4. EntriesLive'
    BY <2>1, <2>2, HostsAssumption, IdAssumption DEF RegistryInv, EntriesLive
  <2>5. OrphansExplained'
    BY <2>1, <2>2 DEF RegistryInv, OrphansExplained, TypeOK
  <2> QED BY <2>3, <2>4, <2>5 DEF RegistryInv
<1>4. ASSUME NEW d \in Conn, ServerConnected(d) \/ ServerUnreachable(d) PROVE RegistryInv'
  BY <1>4 DEF ServerConnected, ServerUnreachable, RegistryInv, Anonymous, EntriesLive,
              OrphansExplained, TypeOK
<1>5. ASSUME NEW d \in Conn, NEW i \in Hosts \cup {-1}, NEW map, NEW u, bev[d],
             Close(d, map, i, u),
             \/ map = idToConn /\ i = id[d]
             \/ map = idToConn \cup {<<i, d>>} /\ fwd[d] = "none"
      PROVE  RegistryInv'
  <2>1. /\ processors' = processors \ {d}
        /\ idToConn' = IF i >= 0 THEN EraseId(map, i) ELSE map
        /\ fwd'[d] = "none"
        /\ \A e \in Conn \ {d} : fwd'[e] = fwd[e] /\ id'[e] = id[e]
        /\ id'[d] = i
        /\ UNCHANGED accepted
    BY <1>5, CloseEffect
  <2>2. d \in accepted /\ d \in processors /\ i \in Int
    BY <1>5, LiveIsOwned, HostsAssumption, IdAssumption
  <2>3. Anonymous'
    BY <2>1 DEF RegistryInv, Anonymous, TypeOK
  <2>4. EntriesLive'
    <3> SUFFICES ASSUME NEW j \in Hosts, NEW e \in Conn, <<j, e>> \in idToConn', j >= 0
                 PROVE  e \in processors' /\ id'[e] = j
      BY DEF EntriesLive
    <3>1. j \in Int
      BY HostsAssumption, IdAssumption
    <3>2. <<j, e>> \in map /\ (i >= 0 => j # i)
      BY <2>1 DEF EraseId
    <3>3. <<j, e>> \in idToConn
      BY <1>5, <2>2, <3>1, <3>2
    <3>4. e \in processors /\ id[e] = j
      BY <3>3 DEF RegistryInv, EntriesLive
    <3>5. e # d
      BY <1>5, <2>2, <3>2, <3>4 DEF RegistryInv, Anonymous
    <3> QED BY <2>1, <3>4, <3>5
  <2>5. OrphansExplained'
    <3> SUFFICES ASSUME NEW e \in processors', fwd'[e] # "none",
                        <<id'[e], e>> \notin idToConn'
                 PROVE  \E x \in accepted' \ processors' : id'[x] = id'[e]
      BY DEF OrphansExplained
    <3>1. e \in processors /\ e # d /\ e \in Conn /\ fwd[e] # "none" /\ id'[e] = id[e]
      BY <2>1 DEF TypeOK
    <3>2. CASE id[e] = i
      BY <2>1, <2>2, <3>1, <3>2
    <3>3. CASE id[e] # i
      <4>1. <<id[e], e>> \notin idToConn
        BY <1>5, <2>1, <3>1, <3>3 DEF EraseId
      <4>2. PICK x \in accepted \ processors : id[x] = id[e]
        BY <3>1, <4>1 DEF RegistryInv, OrphansExplained
      <4>3. x # d /\ x \in Conn
        BY <2>2, <4>2 DEF TypeOK
      <4> QED BY <2>1, <3>1, <4>2, <4>3
    <3> QED BY <3>2, <3>3
  <2> QED BY <2>3, <2>4, <2>5 DEF RegistryInv
<1>6. CASE CtlCloseAll
  BY <1>6 DEF CtlCloseAll, DropAll, CmDropAll, RegistryInv, Anonymous, EntriesLive, OrphansExplained
<1>7. ASSUME NEW i \in Id, CtlClose(i) PROVE RegistryInv'
  <2>1. /\ processors' \subseteq processors
        /\ \A d \in processors' : fwd'[d] = fwd[d]
        /\ UNCHANGED <<id, accepted>>
    BY <1>7, DropEffect
  <2>2. /\ idToConn' = EraseId(idToConn, i)
        /\ processors' = IF running THEN processors \ WithId(idToConn, i) ELSE processors
    BY <1>7 DEF CtlClose, DropById, CmDropConnections
  <2>3. Anonymous'
    BY <2>1 DEF RegistryInv, Anonymous
  <2>4. EntriesLive'
    <3> SUFFICES ASSUME NEW j \in Hosts, NEW e \in Conn, <<j, e>> \in idToConn', j >= 0
                 PROVE  e \in processors' /\ id'[e] = j
      BY DEF EntriesLive
    <3>1. <<j, e>> \in idToConn /\ j # i
      BY <2>2 DEF EraseId
    <3>2. e \in processors /\ id[e] = j
      BY <3>1 DEF RegistryInv, EntriesLive
    <3>3. e \notin WithId(idToConn, i)
      <4> SUFFICES ASSUME <<i, e>> \in idToConn PROVE FALSE
        BY DEF WithId
      <4>1. i \in Hosts /\ i >= 0
        BY <1>7 DEF TypeOK, CtlClose
      <4> QED BY <3>1, <3>2, <4>1 DEF RegistryInv, EntriesLive
    <3> QED BY <2>1, <2>2, <3>2, <3>3
  <2>5. OrphansExplained'
    <3> SUFFICES ASSUME NEW e \in processors', fwd'[e] # "none",
                        <<id'[e], e>> \notin idToConn'
                 PROVE  \E x \in accepted' \ processors' : id'[x] = id'[e]
      BY DEF OrphansExplained
    <3>1. e \in processors /\ fwd[e] # "none" /\ e \in Conn
      BY <2>1 DEF TypeOK
    <3>2. running
      BY <3>1 DEF SessionInv, ClosedForGood
    <3>3. <<id[e], e>> \notin idToConn
      BY <2>1, <2>2, <3>1, <3>2 DEF EraseId, WithId
    <3>4. PICK x \in accepted \ processors : id[x] = id[e]
      BY <3>1, <3>3 DEF RegistryInv, OrphansExplained
    <3> QED BY <2>1, <3>4
  <2> QED BY <2>3, <2>4, <2>5 DEF RegistryInv
<1> QED
  <2>1. \A d \in Conn : id[d] \in Hosts \cup {-1}
    BY DEF TypeOK
  <2> QED BY <1>1, <1>2, <1>3, <1>4, <1>5, <1>6, <1>7, <2>1, StepCases DEF OnIdRecv

-----------------------------------------------------------------------------
(* What one step does to the streams of one connection. *)

\* One read, send or write on a live stream.
Moved(s, t) == \/ \E k \in 1..MaxSent : t = Read(s, k) \/ t \in SendData(Read(s, k))
               \/ t \in SendData(s)
               \/ \E n \in 1..Len(s.out) : t = Write(s, n)

\* The four fates of a connection in a step: none, accepted, bytes moved in
\* one direction, ended.
Still(c) == /\ up'[c] = up[c] /\ down'[c] = down[c]
            /\ (bev'[c] <=> bev[c])
            /\ (c \in accepted') <=> (c \in accepted)

Started(c) == /\ up'[c] = up[c] /\ down'[c] = down[c]
              /\ c \notin accepted /\ c \in accepted'

Moving(c) == /\ bev[c] /\ bev'[c] /\ c \in accepted /\ c \in accepted'
             /\ \/ Moved(up[c], up'[c]) /\ down'[c] = down[c]
                \/ Moved(down[c], down'[c]) /\ up'[c] = up[c]

Ended(c) == /\ bev[c] /\ ~bev'[c] /\ c \in accepted /\ c \in accepted'
            /\ \/ up'[c] = Freed(up[c])
               \/ \E k \in 1..MaxSent : up'[c] = Freed(Read(up[c], k))
            /\ down'[c] = Freed(down[c])

\* close() on the Proxy of d ends d and leaves every other connection alone.
LEMMA CloseFate ==
  ASSUME TypeOK, SessionInv, NEW c \in Conn, NEW d \in Conn, bev[d],
         NEW map, NEW i, NEW u,
         u = up \/ \E k \in 1..MaxSent : u = [up EXCEPT ![d] = Read(@, k)],
         Close(d, map, i, u)
  PROVE  Still(c) \/ Ended(c)
<1>1. /\ bev'[c] <=> bev[c] /\ c # d
      /\ UNCHANGED accepted
  BY CloseEffect
<1>2. /\ up'[c] = IF c = d THEN Freed(u[c]) ELSE u[c]
      /\ down'[c] = IF c = d THEN Freed(down[c]) ELSE down[c]
  BY DEF Close, Release
<1>3. CASE c = d
  <2>1. u[c] = up[c] \/ \E k \in 1..MaxSent : u[c] = Read(up[c], k)
    BY <1>3 DEF TypeOK
  <2> QED BY <1>1, <1>2, <1>3, <2>1, LiveIsOwned DEF Ended
<1>4. CASE c # d
  <2>1. u[c] = up[c]
    BY <1>4 DEF TypeOK
  <2> QED BY <1>1, <1>2, <1>4, <2>1 DEF Still
<1> QED BY <1>3, <1>4

\* A step that moves bytes of d leaves every other connection alone.
LEMMA MoveFate ==
  ASSUME TypeOK, SessionInv, NEW c \in Conn, NEW d \in Conn, bev[d],
         UNCHANGED <<accepted, bev>>,
         NEW t,
         \/ up' = [up EXCEPT ![d] = t] /\ Moved(up[d], t) /\ UNCHANGED down
         \/ down' = [down EXCEPT ![d] = t] /\ Moved(down[d], t) /\ UNCHANGED up
  PROVE  Still(c) \/ Moving(c)
<1>1. d \in accepted
  BY LiveIsOwned
<1>2. CASE c = d
  BY <1>1, <1>2 DEF Moving, TypeOK
<1>3. CASE c # d
  BY <1>3 DEF Still, TypeOK
<1> QED BY <1>2, <1>3

\* Every step gives each connection one of the four fates.
LEMMA Fates ==
  ASSUME TypeOK, SessionInv, [Next]_vars, NEW c \in Conn
  PROVE  Still(c) \/ Started(c) \/ Moving(c) \/ Ended(c)
<1> DEFINE Goal == Still(c) \/ Started(c) \/ Moving(c) \/ Ended(c)
<1>1. CASE UNCHANGED vars
  BY <1>1 DEF vars, proxyVars, Still
<1>2. ASSUME NEW d \in Conn, Accept(d) PROVE Goal
  <2>1. CASE c = d
    BY <1>2, <2>1 DEF Accept, Started
  <2>2. CASE c # d
    <3>1. bev' = [bev EXCEPT ![d] = d \in processors']
      BY <1>2 DEF Accept
    <3>2. bev \in [Conn -> BOOLEAN]
      BY DEF TypeOK
    <3>3. bev'[c] <=> bev[c]
      BY <2>2, <3>1, <3>2, Zenon
    <3> QED BY <1>2, <2>2, <3>3 DEF Accept, Still
  <2> QED BY <2>1, <2>2
<1>3. ASSUME NEW d \in Conn, ClientGone(d) \/ ServerGone(d) PROVE Goal
  <2>1. bev[d] /\ Close(d, idToConn, id[d], up)
    BY <1>3 DEF ClientGone, ServerGone, SessionInv, ForwarderLife
  <2> QED BY <2>1, CloseFate
<1>4. ASSUME NEW d \in Conn, NEW k \in 1..MaxSent,
             ReadReject(d, k) \/ \E i \in Hosts : ReadConnectRefused(d, k, i)
      PROVE  Goal
  <2>1. /\ bev[d]
        /\ \E map, i : Close(d, map, i, [up EXCEPT ![d] = Read(@, k)])
    BY <1>4 DEF ReadReject, ReadConnectRefused, FirstMessage, CanRead
  <2> QED BY <2>1, CloseFate
<1>5. ASSUME NEW d \in Conn, NEW k \in 1..MaxSent, ReadForward(d, k) PROVE Goal
  <2>1. PICK t \in SendData(Read(up[d], k)) : up' = [up EXCEPT ![d] = t]
    BY <1>5 DEF ReadForward
  <2>2. bev[d] /\ UNCHANGED <<accepted, bev, down>> /\ Moved(up[d], t)
    BY <1>5, <2>1 DEF ReadForward, CanRead, Moved
  <2> QED BY <2>1, <2>2, MoveFate
<1>6. ASSUME NEW d \in Conn, NEW k \in 1..MaxSent,
             ReadKeep(d, k) \/ \E i \in Hosts : ReadConnect(d, k, i)
      PROVE  Goal
  <2>1. up' = [up EXCEPT ![d] = Read(up[d], k)]
    BY <1>6 DEF ReadKeep, ReadConnect
  <2>2. bev[d] /\ UNCHANGED <<accepted, bev, down>> /\ Moved(up[d], Read(up[d], k))
    BY <1>6 DEF ReadKeep, ReadConnect, FirstMessage, CanRead, Moved
  <2> QED BY <2>1, <2>2, MoveFate
<1>7. ASSUME NEW d \in Conn, ServerConnected(d) PROVE Goal
  <2>1. PICK t \in SendData(up[d]) : up' = [up EXCEPT ![d] = t]
    BY <1>7 DEF ServerConnected
  <2>2. bev[d] /\ UNCHANGED <<accepted, bev, down>> /\ Moved(up[d], t)
    BY <1>7, <2>1 DEF ServerConnected, Moved, SessionInv, ForwarderLife
  <2> QED BY <2>1, <2>2, MoveFate
<1>8. ASSUME NEW d \in Conn, ServerUnreachable(d) PROVE Goal
  BY <1>8 DEF ServerUnreachable, Still
<1>9. ASSUME NEW d \in Conn, NEW k \in 1..MaxSent, ReadServer(d, k) PROVE Goal
  <2>1. PICK t \in SendData(Read(down[d], k)) : down' = [down EXCEPT ![d] = t]
    BY <1>9 DEF ReadServer
  <2>2. bev[d] /\ UNCHANGED <<accepted, bev, up>> /\ Moved(down[d], t)
    BY <1>9, <2>1 DEF ReadServer, Moved, SessionInv, ForwarderLife
  <2> QED BY <2>1, <2>2, MoveFate
<1>10. ASSUME NEW d \in Conn, FlushToServer(d) PROVE Goal
  <2>1. PICK n \in 1..Len(up[d].out) : up' = [up EXCEPT ![d] = Write(up[d], n)]
    BY <1>10 DEF FlushToServer
  <2>2. bev[d] /\ UNCHANGED <<accepted, bev, down>> /\ Moved(up[d], Write(up[d], n))
    BY <1>10 DEF FlushToServer, Moved, SessionInv, ForwarderLife
  <2> QED BY <2>1, <2>2, MoveFate
<1>11. ASSUME NEW d \in Conn, FlushToClient(d) PROVE Goal
  <2>1. PICK n \in 1..Len(down[d].out) : down' = [down EXCEPT ![d] = Write(down[d], n)]
    BY <1>11 DEF FlushToClient
  <2>2. bev[d] /\ UNCHANGED <<accepted, bev, up>> /\ Moved(down[d], Write(down[d], n))
    BY <1>11 DEF FlushToClient, Moved
  <2> QED BY <2>1, <2>2, MoveFate
<1>12. CASE CtlCloseAll \/ \E i \in Id : CtlClose(i)
  <2>1. /\ bev'[c] <=> bev[c] /\ c \in processors'
        /\ UNCHANGED accepted
    BY <1>12, DropEffect
  <2>2. Release(processors \ processors', up)
    BY <1>12 DEF CtlCloseAll, CtlClose
  <2>3. CASE c \in processors \ processors'
    <3>1. bev[c] /\ c \in accepted
      BY <2>3 DEF SessionInv, Ownership, TypeOK
    <3>2. up'[c] = Freed(up[c]) /\ down'[c] = Freed(down[c])
      BY <2>2, <2>3 DEF Release
    <3> QED BY <2>1, <2>3, <3>1, <3>2 DEF Ended
  <2>4. CASE c \notin processors \ processors'
    <3>1. up'[c] = up[c] /\ down'[c] = down[c]
      BY <2>2, <2>4 DEF Release
    <3>2. bev[c] <=> c \in processors
      BY DEF SessionInv, Ownership
    <3> QED BY <2>1, <2>4, <3>1, <3>2 DEF Still
  <2> QED BY <2>3, <2>4
<1> QED BY <1>1, <1>2, <1>3, <1>4, <1>5, <1>6, <1>7, <1>8, <1>9, <1>10, <1>11, <1>12
        DEF Next, Client, Server, Control

-----------------------------------------------------------------------------
(* The inductive invariant of the registry, and what follows from it. *)

\* Every step preserves the first half of the invariant.
LEMMA SessionInvStep ==
  ASSUME TypeOK, SessionInv, RegistryInv, [Next]_vars
  PROVE  SessionInv'
<1>1. \A c \in Conn : /\ bev'[c] <=> c \in processors'
                      /\ fwd'[c] # "none" => bev'[c]
                      /\ bev'[c] => /\ (state'[c] = "FWD" <=> fwd'[c] = "connected")
                                    /\ (state'[c] = "BEGIN" <=> fwd'[c] = "none")
  BY SessionStep
<1>2. ClosedForGood'
  <2>1. CASE Conn = {}
    BY <2>1, TypeStep DEF TypeOK, ClosedForGood
  <2>2. CASE Conn # {}
    BY <2>2, SessionStep DEF ClosedForGood
  <2> QED BY <2>1, <2>2
<1>3. ASSUME NEW c \in Conn, c \notin accepted'
      PROVE  state'[c] = "BEGIN" /\ id'[c] = -1 /\ up'[c] = NoBytes /\ down'[c] = NoBytes
  <2>1. c \notin accepted /\ up'[c] = up[c] /\ down'[c] = down[c]
    BY <1>3, Fates DEF Still, Started, Moving, Ended
  <2>2. ~bev[c] /\ fwd[c] = "none"
    BY <2>1 DEF SessionInv, Ownership, ForwarderLife, TypeOK
  <2>3. state'[c] = state[c] /\ id'[c] = id[c]
    <3>1. CASE Quiet
      BY <3>1 DEF Quiet
    <3>2. ASSUME NEW d \in Conn, Accept(d) PROVE state'[c] = state[c] /\ id'[c] = id[c]
      BY <3>2 DEF Accept
    <3>3. ASSUME NEW d \in Conn, NEW k \in 1..MaxSent, NEW i \in Hosts, ReadConnect(d, k, i)
          PROVE  state'[c] = state[c] /\ id'[c] = id[c]
      BY <2>2, <3>3 DEF ReadConnect, FirstMessage, CanRead, TypeOK
    <3>4. ASSUME NEW d \in Conn, ServerConnected(d) \/ ServerUnreachable(d)
          PROVE  state'[c] = state[c] /\ id'[c] = id[c]
      BY <2>2, <3>4 DEF ServerConnected, ServerUnreachable, TypeOK
    <3>5. ASSUME NEW d \in Conn, NEW map, NEW i, NEW u, bev[d], Close(d, map, i, u)
          PROVE  state'[c] = state[c] /\ id'[c] = id[c]
      BY <2>2, <3>5, CloseEffect
    <3>6. CASE CtlCloseAll \/ \E i \in Id : CtlClose(i)
      BY <3>6, DropEffect
    <3> QED BY <3>1, <3>2, <3>3, <3>4, <3>5, <3>6, StepCases
  <2> QED BY <2>1, <2>3 DEF SessionInv, Untouched
<1> QED BY <1>1, <1>2, <1>3 DEF SessionInv, Untouched, Ownership, ForwarderLife

\* What the registry theorems rest on.  Ownership says nothing about a
\* connection that accept has still to initialise (Untouched), and the entries
\* of the multimap are live only because a client without a Forwarder has no
\* entry (Anonymous).
IInv == TypeOK /\ SessionInv /\ RegistryInv

\* The invariant holds in every reachable state.
THEOREM Invariance == Spec => []IInv
<1>1. Init => SessionInv /\ RegistryInv
  <2> SUFFICES ASSUME Init PROVE SessionInv /\ RegistryInv
    OBVIOUS
  <2>1. processors = {} /\ idToConn = {} /\ running = TRUE /\ accepted = {}
    BY DEF Init, PmInit, CmInit
  <2>2. \A c \in Conn : /\ ~bev[c] /\ state[c] = "BEGIN" /\ id[c] = -1 /\ fwd[c] = "none"
                        /\ up[c] = NoBytes /\ down[c] = NoBytes
    BY DEF Init, ProxyInit
  <2> QED BY <2>1, <2>2 DEF SessionInv, Untouched, Ownership, ForwarderLife, ClosedForGood,
            RegistryInv, Anonymous, EntriesLive, OrphansExplained
<1>2. IInv /\ [Next]_vars => SessionInv' /\ RegistryInv'
  BY TypeStep, SessionInvStep, RegistryStep DEF IInv
<1> QED BY <1>1, <1>2, TypeCorrect, PTL DEF Spec, IInv

\* Between two callbacks a Proxy has its bufferevent exactly while
\* ConnectionManager owns it (connectionprocessor.cpp:105-139).
THEOREM OwnershipHolds == Spec => []Ownership
<1>1. IInv => Ownership
  BY DEF IInv, SessionInv
<1> QED BY <1>1, Invariance, PTL

\* The Forwarder lives and dies with its Proxy's phase (proxy.cpp:28-105).
THEOREM ForwarderLifeHolds == Spec => []ForwarderLife
<1>1. IInv => ForwarderLife
  BY DEF IInv, SessionInv
<1> QED BY <1>1, Invariance, PTL

\* dropAll is final (connectionmanager.cpp:46-54, proxymanager.cpp:45-53).
THEOREM ClosedForGoodHolds == Spec => []ClosedForGood
<1>1. IInv => ClosedForGood
  BY DEF IInv, SessionInv
<1> QED BY <1>1, Invariance, PTL

\* No stale entry under an id the control channel can name
\* (proxymanager.cpp:30-83).
THEOREM EntriesLiveHolds == Spec => []EntriesLive
<1>1. IInv => EntriesLive
  BY DEF IInv, RegistryInv
<1> QED BY <1>1, Invariance, PTL

\* The erased key is the only way to lose a live client's entry
\* (proxymanager.cpp:36).
THEOREM OrphansExplainedHolds == Spec => []OrphansExplained
<1>1. IInv => OrphansExplained
  BY DEF IInv, RegistryInv
<1> QED BY <1>1, Invariance, PTL

\* Only CLOSE_ALL ends sessions of different ids in one event
\* (proxymanager.cpp:30-76).
THEOREM DropsShareOneIdHolds == Spec => DropsShareOneId
<1> DEFINE Shared == running' => \A c, d \in processors \ processors' : id'[c] = id'[d]
<1>1. IInv /\ [Next]_vars => [Shared]_vars
  <2> SUFFICES ASSUME IInv, [Next]_vars, running',
                      NEW c \in processors \ processors', NEW d \in processors \ processors'
               PROVE  id'[c] = id'[d]
    OBVIOUS
  <2> USE DEF IInv
  <2>1. CASE Quiet
    BY <2>1 DEF Quiet
  <2>2. ASSUME NEW e \in Conn, Accept(e) PROVE FALSE
    BY <2>2 DEF Accept, AddProxy, CmAddConnection
  <2>3. ASSUME NEW e \in Conn, NEW k \in 1..MaxSent, NEW i \in Hosts, ReadConnect(e, k, i)
        PROVE  FALSE
    BY <2>3 DEF ReadConnect
  <2>4. ASSUME NEW e \in Conn, ServerConnected(e) \/ ServerUnreachable(e) PROVE FALSE
    BY <2>4 DEF ServerConnected, ServerUnreachable
  <2>5. ASSUME NEW e \in Conn, NEW map, NEW i, NEW u, bev[e], Close(e, map, i, u)
        PROVE  id'[c] = id'[d]
    <3>1. processors' = processors \ {e}
      BY <2>5, CloseEffect
    <3> QED BY <3>1
  <2>6. CASE CtlCloseAll
    BY <2>6 DEF CtlCloseAll, DropAll, CmDropAll
  <2>7. ASSUME NEW i \in Id, CtlClose(i) PROVE id'[c] = id'[d]
    <3>1. c \in WithId(idToConn, i) /\ d \in WithId(idToConn, i) /\ UNCHANGED id /\ i >= 0
      BY <2>7 DEF CtlClose, DropById, CmDropConnections
    <3>2. c \in Conn /\ d \in Conn /\ <<i, c>> \in idToConn /\ <<i, d>> \in idToConn /\ i \in Hosts
      BY <3>1 DEF WithId, TypeOK
    <3>3. id[c] = i /\ id[d] = i
      BY <3>1, <3>2 DEF RegistryInv, EntriesLive
    <3> QED BY <3>1, <3>3
  <2> QED BY <2>1, <2>2, <2>3, <2>4, <2>5, <2>6, <2>7, StepCases
<1> QED BY <1>1, Invariance, PTL DEF Spec, DropsShareOneId

-----------------------------------------------------------------------------
(* Order of the bytes, and the pipes. *)

\* A move keeps order; it extends what was sent or what was delivered.
LEMMA MovedStream ==
  ASSUME NEW s \in Stream, NEW t, Moved(s, t)
  PROVE  /\ t \in Stream
         /\ InOrder(s) => InOrder(t)
         /\ \/ t.rcvd = s.rcvd /\ \E x \in Seq(Nat) : t.sent = s.sent \o x
            \/ t.sent = s.sent /\ \E x \in Seq(Nat) : t.rcvd = s.rcvd \o x
<1> DEFINE Goal == /\ t \in Stream
                   /\ InOrder(s) => InOrder(t)
                   /\ \/ t.rcvd = s.rcvd /\ \E x \in Seq(Nat) : t.sent = s.sent \o x
                      \/ t.sent = s.sent /\ \E x \in Seq(Nat) : t.rcvd = s.rcvd \o x
<1>1. ASSUME NEW k \in 1..MaxSent, t = Read(s, k) \/ t \in SendData(Read(s, k)) PROVE Goal
  <2>1. Chunk(s, k) \in Seq(Nat)
    BY ChunkBytes
  <2>2. /\ Read(s, k) \in Stream /\ Read(s, k).rcvd = s.rcvd
        /\ Read(s, k).sent = s.sent \o Chunk(s, k)
        /\ InOrder(s) => InOrder(Read(s, k))
    BY ReadStream
  <2>3. CASE t = Read(s, k)
    BY <2>1, <2>2, <2>3
  <2>4. CASE t \in SendData(Read(s, k))
    BY <2>1, <2>2, <2>4, SendStream
  <2> QED BY <1>1, <2>3, <2>4
<1>2. ASSUME t \in SendData(s) PROVE Goal
  <2>1. s.sent = s.sent \o <<>> /\ <<>> \in Seq(Nat)
    BY EmptySeq, ConcatEmptySeq DEF Stream
  <2> QED BY <1>2, <2>1, SendStream
<1>3. ASSUME NEW n \in 1..Len(s.out), t = Write(s, n) PROVE Goal
  <2>1. SubSeq(s.out, 1, n) \in Seq(Nat)
    BY DEF Stream
  <2> QED BY <1>3, <2>1, WriteStream
<1> QED BY <1>1, <1>2, <1>3 DEF Moved

\* Every step preserves the order of the bytes of the live sessions.
LEMMA OrderStep ==
  ASSUME IInv, BytesInOrder, [Next]_vars
  PROVE  BytesInOrder'
<1> SUFFICES ASSUME NEW c \in Conn, bev'[c] PROVE InOrder(up'[c]) /\ InOrder(down'[c])
  BY DEF BytesInOrder
<1>1. up[c] \in Stream /\ down[c] \in Stream
  BY DEF IInv, TypeOK
<1>2. CASE Still(c)
  BY <1>2 DEF Still, BytesInOrder
<1>3. CASE Started(c)
  <2>1. up'[c] = NoBytes /\ down'[c] = NoBytes
    BY <1>3 DEF Started, IInv, SessionInv, Untouched
  <2>2. InOrder(NoBytes)
    BY DEF InOrder, NoBytes
  <2> QED BY <2>1, <2>2
<1>4. CASE Moving(c)
  BY <1>1, <1>4, MovedStream DEF Moving, BytesInOrder
<1>5. ~Ended(c)
  BY DEF Ended
<1> QED BY <1>2, <1>3, <1>4, <1>5, Fates DEF IInv

\* No byte of a live session is lost, repeated or overtaken
\* (proxy.cpp:28-57, forwarder.cpp:19-27, connectionprocessor.cpp:105-115).
THEOREM BytesInOrderHolds == Spec => []BytesInOrder
<1>1. Init => BytesInOrder
  BY DEF Init, ProxyInit, BytesInOrder
<1>2. IInv /\ BytesInOrder /\ [Next]_vars => BytesInOrder'
  BY OrderStep
<1> QED BY <1>1, <1>2, Invariance, PTL DEF Spec

\* A sequence is an initial part of each of its extensions.
LEMMA PrefixExtension ==
  ASSUME NEW s \in Seq(Nat), NEW x \in Seq(Nat)
  PROVE  Pipes!Prefix(s, s \o x)
BY DEF Pipes!Prefix

\* What a stream has delivered is an initial part of what was sent.
LEMMA DeliveredIsPrefix ==
  ASSUME NEW s \in Stream, InOrder(s)
  PROVE  Pipes!Prefix(s.rcvd, s.sent)
<1>1. s.rcvd \in Seq(Nat) /\ s.out \in Seq(Nat) /\ s.in \in Seq(Nat)
  BY DEF Stream
<1>2. s.sent = s.rcvd \o (s.out \o s.in)
  BY <1>1, Associative DEF InOrder
<1>3. s.out \o s.in \in Seq(Nat)
  BY <1>1, ConcatProperties
<1> QED BY <1>1, <1>2, <1>3, PrefixExtension

\* Each fate of a connection is a step of the pipe of each of its directions.
LEMMA PipeStep ==
  ASSUME IInv, IInv', BytesInOrder, BytesInOrder', [Next]_vars, NEW p \in Direction
  PROVE  Pipes!Open(p) \/ Pipes!Put(p) \/ Pipes!Deliver(p) \/ Pipes!Break(p) \/ Pipes!Idle(p)
<1> DEFINE c == p[1]
           s == Bytes(p)
           t == Bytes(p)'
           from == Phase(c)
           to == Phase(c)'
           Goal == \/ from = "idle" /\ to = "open" /\ t.sent = s.sent /\ t.rcvd = s.rcvd
                   \/ /\ from = "open" /\ to \in {"open", "broken"}
                      /\ Pipes!Prefix(s.sent, t.sent) /\ t.rcvd = s.rcvd
                   \/ /\ from = "open" /\ to = from /\ t.sent = s.sent
                      /\ Pipes!Prefix(s.rcvd, t.rcvd) /\ Pipes!Prefix(t.rcvd, s.sent)
                   \/ from # "broken" /\ to = "broken" /\ t.sent = s.sent /\ t.rcvd = s.rcvd
                   \/ to = from /\ t.sent = s.sent /\ t.rcvd = s.rcvd
<1>1. c \in Conn /\ (p[2] = "up" \/ p[2] = "down")
  BY DEF Direction
<1>2. up[c] \in Stream /\ down[c] \in Stream /\ s \in Stream
  BY <1>1 DEF IInv, TypeOK, Bytes
<1>3. bev'[c] => InOrder(t) /\ t \in Stream
  BY <1>1 DEF BytesInOrder, Bytes, IInv, TypeOK
<1>4. Goal
  <2>1. CASE Still(c)
    BY <2>1 DEF Still, Bytes, Phase
  <2>2. CASE Started(c)
    BY <2>2 DEF Started, Bytes, Phase
  <2>3. CASE Moving(c)
    <3>1. from = "open" /\ to = "open" /\ bev'[c]
      BY <2>3 DEF Moving, Phase
    <3>2. t = s \/ Moved(s, t)
      BY <1>1, <2>3 DEF Moving, Bytes
    <3> HIDE DEF c, s, t, from, to
    <3>3. ASSUME t.rcvd = s.rcvd, NEW x \in Seq(Nat), t.sent = s.sent \o x PROVE Goal
      <4>1. Pipes!Prefix(s.sent, t.sent)
        BY <1>2, <3>3, PrefixExtension DEF Stream
      <4> QED BY <3>1, <3>3, <4>1
    <3>4. ASSUME t.sent = s.sent, NEW x \in Seq(Nat), t.rcvd = s.rcvd \o x PROVE Goal
      <4>1. Pipes!Prefix(s.rcvd, t.rcvd)
        BY <1>2, <3>4, PrefixExtension DEF Stream
      <4>2. Pipes!Prefix(t.rcvd, s.sent)
        BY <1>3, <3>1, <3>4, DeliveredIsPrefix
      <4> QED BY <3>1, <3>4, <4>1, <4>2
    <3>5. CASE t = s
      BY <3>1, <3>5
    <3>6. CASE Moved(s, t)
      BY <1>2, <3>3, <3>4, <3>6, MovedStream
    <3> QED BY <3>2, <3>5, <3>6
  <2>4. CASE Ended(c)
    <3>1. from = "open" /\ to = "broken"
      BY <2>4 DEF Ended, Phase
    <3>2. \/ t = Freed(s)
          \/ \E k \in 1..MaxSent : t = Freed(Read(s, k))
      BY <1>1, <2>4 DEF Ended, Bytes
    <3> HIDE DEF c, s, t, from, to
    <3>3. CASE t = Freed(s)
      BY <1>2, <3>1, <3>3, FreedStream
    <3>4. ASSUME NEW k \in 1..MaxSent, t = Freed(Read(s, k)) PROVE Goal
      <4>1. /\ Read(s, k) \in Stream /\ Read(s, k).rcvd = s.rcvd
            /\ Read(s, k).sent = s.sent \o Chunk(s, k) /\ Chunk(s, k) \in Seq(Nat)
        <5>1. s \in Stream /\ k \in Nat
          BY <1>2
        <5> QED BY <5>1, ReadStream, ChunkBytes
      <4>2. t.rcvd = s.rcvd /\ t.sent = s.sent \o Chunk(s, k)
        BY <3>4, <4>1, FreedStream
      <4>3. Pipes!Prefix(s.sent, t.sent)
        BY <1>2, <4>1, <4>2, PrefixExtension DEF Stream
      <4> QED BY <3>1, <4>2, <4>3
    <3> QED BY <3>2, <3>3, <3>4
  <2> QED BY <1>1, <2>1, <2>2, <2>3, <2>4, Fates DEF IInv
<1> QED
  BY <1>4 DEF Pipes!Open, Pipes!Put, Pipes!Deliver, Pipes!Break, Pipes!Idle, Pipes!Same

\* The proxy implements the byte pipes.
THEOREM Refinement == Spec => SessionsArePipes
<1>1. Init => Pipes!PipeInit
  <2> SUFFICES ASSUME Init PROVE Pipes!PipeInit
    OBVIOUS
  <2>1. \A c \in Conn : up[c] = NoBytes /\ down[c] = NoBytes /\ Phase(c) = "idle"
    BY DEF Init, ProxyInit, Phase
  <2>2. \A p \in Direction : Phase(p[1]) = "idle" /\ Bytes(p) = NoBytes
    BY <2>1 DEF Direction, Bytes
  <2> QED BY <2>2 DEF Pipes!PipeInit, NoBytes
<1>2. IInv /\ IInv' /\ BytesInOrder /\ BytesInOrder' /\ [Next]_vars => Pipes!PipeNext
  BY PipeStep DEF Pipes!PipeNext
<1> QED BY <1>1, <1>2, Invariance, BytesInOrderHolds, PTL DEF Spec, SessionsArePipes, Pipes!PipeSpec

-----------------------------------------------------------------------------
(* No byte is left in an input buffer once the server is connected. *)

\* NothingStranded, strengthened: the server's bytes never wait, even before
\* Proxy::onConnected ran.
Drained(c) == /\ down[c].in = <<>>
              /\ fwd[c] = "connected" => up[c].in = <<>>

DrainedInv == ~SendMayFail => \A c \in Conn : Drained(c)

\* Every step preserves it.
LEMMA DrainedStep ==
  ASSUME IInv, DrainedInv, [Next]_vars
  PROVE  DrainedInv'
<1> SUFFICES ASSUME ~SendMayFail, NEW c \in Conn PROVE Drained(c)'
  BY DEF DrainedInv
<1>1. Drained(c) /\ up[c] \in Stream /\ down[c] \in Stream
  BY DEF DrainedInv, IInv, TypeOK
<1>2. CASE UNCHANGED vars
  BY <1>1, <1>2 DEF vars, proxyVars, Drained
<1>3. ASSUME NEW d \in Conn, Accept(d) \/ ServerUnreachable(d) PROVE Drained(c)'
  BY <1>1, <1>3 DEF Accept, ServerUnreachable, Drained, IInv, TypeOK
<1>4. ASSUME NEW d \in Conn, bev[d], NEW map, NEW i, NEW u, Close(d, map, i, u),
             c # d => u[c] = up[c]
      PROVE  Drained(c)'
  <2>1. /\ up'[c] = IF c = d THEN Freed(u[c]) ELSE u[c]
        /\ down'[c] = IF c = d THEN Freed(down[c]) ELSE down[c]
    BY <1>4 DEF Close, Release
  <2>2. fwd'[c] = IF c = d THEN "none" ELSE fwd[c]
    BY <1>4, CloseEffect DEF IInv
  <2> QED BY <1>1, <1>4, <2>1, <2>2, FreedStream DEF Drained
<1>5. ASSUME NEW d \in Conn, ClientGone(d) \/ ServerGone(d) PROVE Drained(c)'
  <2>1. bev[d] /\ Close(d, idToConn, id[d], up)
    BY <1>5 DEF ClientGone, ServerGone, IInv, SessionInv, ForwarderLife
  <2> QED BY <1>4, <2>1
<1>6. ASSUME NEW d \in Conn, NEW k \in 1..MaxSent,
             ReadReject(d, k) \/ \E i \in Hosts : ReadConnectRefused(d, k, i)
      PROVE  Drained(c)'
  <2>1. /\ bev[d]
        /\ \E map, i : Close(d, map, i, [up EXCEPT ![d] = Read(@, k)])
    BY <1>6 DEF ReadReject, ReadConnectRefused, FirstMessage, CanRead
  <2>2. c # d => [up EXCEPT ![d] = Read(@, k)][c] = up[c]
    BY DEF IInv, TypeOK
  <2> QED BY <1>4, <2>1, <2>2
<1>7. ASSUME NEW d \in Conn, NEW k \in 1..MaxSent, ReadForward(d, k) PROVE Drained(c)'
  <2>1. PICK t \in SendData(Read(up[d], k)) : up' = [up EXCEPT ![d] = t]
    BY <1>7 DEF ReadForward
  <2>2. t.in = <<>>
    BY <2>1, ReadStream, SendStream DEF IInv, TypeOK
  <2> QED BY <1>1, <1>7, <2>1, <2>2 DEF ReadForward, Drained, IInv, TypeOK
<1>8. ASSUME NEW d \in Conn, NEW k \in 1..MaxSent,
             ReadKeep(d, k) \/ \E i \in Hosts : ReadConnect(d, k, i)
      PROVE  Drained(c)'
  <2>1. /\ UNCHANGED down
        /\ c # d => up'[c] = up[c] /\ fwd'[c] = fwd[c]
        /\ c = d => fwd'[c] # "connected"
    BY <1>8 DEF ReadKeep, ReadConnect, FirstMessage, CanRead, IInv, SessionInv, ForwarderLife, TypeOK
  <2> QED BY <1>1, <2>1 DEF Drained
<1>9. ASSUME NEW d \in Conn, ServerConnected(d) PROVE Drained(c)'
  <2>1. PICK t \in SendData(up[d]) : up' = [up EXCEPT ![d] = t]
    BY <1>9 DEF ServerConnected
  <2>2. t.in = <<>>
    BY <2>1, SendStream DEF IInv, TypeOK
  <2> QED BY <1>1, <1>9, <2>1, <2>2 DEF ServerConnected, Drained, IInv, TypeOK
<1>10. ASSUME NEW d \in Conn, NEW k \in 1..MaxSent, ReadServer(d, k) PROVE Drained(c)'
  <2>1. PICK t \in SendData(Read(down[d], k)) : down' = [down EXCEPT ![d] = t]
    BY <1>10 DEF ReadServer
  <2>2. t.in = <<>>
    BY <2>1, ReadStream, SendStream DEF IInv, TypeOK
  <2> QED BY <1>1, <1>10, <2>1, <2>2 DEF ReadServer, Drained, IInv, TypeOK
<1>11. ASSUME NEW d \in Conn, FlushToServer(d) \/ FlushToClient(d) PROVE Drained(c)'
  <2>1. UNCHANGED fwd
    BY <1>11 DEF FlushToServer, FlushToClient
  <2>2. up'[c].in = up[c].in
    <3>1. up'[c] = up[c] \/ \E n \in 1..Len(up[c].out) : up'[c] = Write(up[c], n)
      BY <1>11 DEF FlushToServer, FlushToClient, IInv, TypeOK
    <3> QED BY <1>1, <3>1, WriteStream
  <2>3. down'[c].in = down[c].in
    <3>1. down'[c] = down[c] \/ \E n \in 1..Len(down[c].out) : down'[c] = Write(down[c], n)
      BY <1>11 DEF FlushToServer, FlushToClient, IInv, TypeOK
    <3> QED BY <1>1, <3>1, WriteStream
  <2> QED BY <1>1, <2>1, <2>2, <2>3 DEF Drained
<1>12. CASE CtlCloseAll \/ \E i \in Id : CtlClose(i)
  <2>1. Release(processors \ processors', up)
    BY <1>12 DEF CtlCloseAll, CtlClose
  <2>2. /\ up'[c] = up[c] \/ up'[c] = Freed(up[c])
        /\ down'[c] = down[c] \/ down'[c] = Freed(down[c])
        /\ fwd'[c] = fwd[c] \/ fwd'[c] = "none"
    BY <2>1 DEF Release
  <2> QED BY <1>1, <2>2, FreedStream DEF Drained
<1> QED BY <1>2, <1>3, <1>5, <1>6, <1>7, <1>8, <1>9, <1>10, <1>11, <1>12
        DEF Next, Client, Server, Control

\* What arrived before the server was connected is handed over with the
\* connection, and what arrives later at once (proxy.cpp:35-37, 55-57).
THEOREM NothingStrandedHolds == Spec => []NothingStranded
<1>1. Init => DrainedInv
  <2>1. NoBytes.in = <<>>
    BY DEF NoBytes
  <2> QED BY <2>1 DEF Init, ProxyInit, DrainedInv, Drained
<1>2. IInv /\ DrainedInv /\ [Next]_vars => DrainedInv'
  BY DrainedStep
<1>3. DrainedInv => NothingStranded
  BY DEF DrainedInv, Drained, NothingStranded
<1> QED BY <1>1, <1>2, <1>3, Invariance, PTL DEF Spec
=============================================================================
