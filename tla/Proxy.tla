-------------------------------- MODULE Proxy --------------------------------
(***************************************************************************)
(* The objects that serve one client: a Proxy (the client's side) and the  *)
(* Forwarder it owns (the server's side), both ConnectionProcessors over a *)
(* libevent bufferevent.  proxy.cpp, forwarder.cpp, connectionprocessor.cpp*)
(*                                                                         *)
(* A direction of traffic is a stream: `sent' is what libevent has read    *)
(* from the source socket so far, `in' the input evbuffer of the           *)
(* bufferevent it was read into, `out' the output evbuffer of the other    *)
(* one, `rcvd' what was written to the destination socket.  A byte is      *)
(* named by its position in the stream, so a lost, repeated or misplaced   *)
(* byte shows.                                                             *)
(***************************************************************************)
EXTENDS ProxyManager, Sequences

CONSTANTS MsgSize,      \* MSG_SIZE, the length of the client's first message
          MaxSent,      \* bound: bytes read per stream
          SendMayFail   \* can evbuffer_add_buffer fail?

ASSUME ProxyAssumption == /\ MsgSize \in Nat \ {0}
                          /\ MaxSent \in Nat
                          /\ SendMayFail \in BOOLEAN

VARIABLES bev,    \* the Proxy's _bev is not null
          state,  \* the Proxy's _state
          id,     \* the Proxy's _id
          fwd,    \* _fwd and how far its connect() got
          up,     \* stream from the client to the server
          down    \* stream from the server to the client

proxyVars == <<bev, state, id, fwd, up, down>>

State    == {"BEGIN", "CONNECTING", "FWD"}
FwdState == {"none", "connecting", "failed", "connected"}
Stream   == [sent : Seq(Nat), in : Seq(Nat), out : Seq(Nat), rcvd : Seq(Nat)]
NoBytes  == [sent |-> <<>>, in |-> <<>>, out |-> <<>>, rcvd |-> <<>>]

\* The members of a Proxy as its constructor sets them; bev is set by accept.
ProxyInit == /\ bev   = [c \in Conn |-> FALSE]
             /\ state = [c \in Conn |-> "BEGIN"]
             /\ id    = [c \in Conn |-> -1]
             /\ fwd   = [c \in Conn |-> "none"]
             /\ up    = [c \in Conn |-> NoBytes]
             /\ down  = [c \in Conn |-> NoBytes]

\* libevent reads k more bytes into the input buffer.
Chunk(s, k) == [j \in 1..k |-> Len(s.sent) + j]
Read(s, k)  == [s EXCEPT !.sent = @ \o Chunk(s, k), !.in = @ \o Chunk(s, k)]

\* Mutants: evbuffer_prepend_buffer; a copy that does not drain the input.
SendFirst(s)   == {[s EXCEPT !.out = s.in \o @, !.in = <<>>]}
SendKeeping(s) == {[s EXCEPT !.out = @ \o s.in]}

\* sendData: evbuffer_add_buffer moves the whole input behind the output, or
\* fails and moves nothing; both callers carry on either way.
SendData(s) == {[s EXCEPT !.out = @ \o s.in, !.in = <<>>]}
               \cup (IF SendMayFail THEN {s} ELSE {})

\* libevent writes the first n bytes of the output buffer to the socket.
Write(s, n) == [s EXCEPT !.rcvd = @ \o SubSeq(s.out, 1, n),
                         !.out  = SubSeq(s.out, n + 1, Len(s.out))]

\* bufferevent_free: what the two buffers hold is discarded.
Freed(s) == [s EXCEPT !.in = <<>>, !.out = <<>>]
=============================================================================
