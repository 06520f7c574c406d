------------------------------- MODULE Frames -------------------------------
(***************************************************************************)
(* Frames in buffers: the frames a connection sends, each copied into a    *)
(* block of its own (copiedbuffer.h, outbuffer.h, frame.h) that waits in   *)
(* the queue until the connection is set up, and the frames it gets, cut   *)
(* out of whatever octets have come (receivedframe.h, bytebuffer.h,        *)
(* buffer.h).                                                              *)
(*                                                                         *)
(* The header of a frame is cut down from 7 octets to Header; its first    *)
(* octet stands for the size of the payload.  The fill() of the frames,    *)
(* ConnectionImpl::send and parse, and the caller that keeps the octets    *)
(* that were not parsed are not in the repository.                         *)
(***************************************************************************)
EXTENDS Integers, Sequences

CONSTANTS Payloads,   \* the payload sizes of frames
          Header,     \* octets of the header
          MaxWord,    \* 2^32, cut down
          MaxFrames   \* bound: frames each way

VARIABLES out,       \* the CopiedBuffer of a send() under way, or the moved one
          queue,     \* the connection's queue of CopiedBuffers
          blocks,    \* allocated blocks, by number
          double,    \* a block was freed that is not allocated
          made,      \* frames built
          ready,     \* the connection is set up
          sent,      \* the frames handed to the handler
          plan,      \* the frames of the server
          coming,    \* its octets on their way
          buffer,    \* octets that have come and are not parsed
          parsed     \* the frames that were processed

vars == <<out, queue, blocks, double, made, ready, sent, plan, coming, buffer, parsed>>

Nobody   == [block |-> -1, capacity |-> 0, octets |-> <<>>]    \* no object at all

Init == /\ out = Nobody /\ queue = <<>> /\ blocks = {} /\ double = FALSE
        /\ made = 0 /\ ready = FALSE /\ sent = <<>>
        /\ plan = <<>> /\ coming = <<>> /\ buffer = <<>> /\ parsed = <<>>

End == 206

Octets(n) == <<n>> \o [i \in 1..(Header - 1 + n) |-> 0]

-----------------------------------------------------------------------------
(* Sending.                                                                *)

\* A frame: its total size, what fill() writes, and whether it needs a separator.
\* The first one is the protocol header, which does not.
FrameOf(n) == [totalSize |-> Header + n + 1, octets |-> Octets(n), separator |-> TRUE]
ProtocolHeader == [totalSize |-> Header, octets |-> Octets(0), separator |-> FALSE]

append(b, data) == [b EXCEPT !.octets = @ \o data]

\* Mutant: every frame gets its end.
CopyAlways(frame, block) ==
  append(append([block |-> block, capacity |-> frame.totalSize, octets |-> <<>>],
                frame.octets), <<End>>)

\* The constructor.
CopiedBuffer(frame, block) ==
  LET b == append([block |-> block, capacity |-> frame.totalSize, octets |-> <<>>], frame.octets)
  IN  IF frame.separator THEN append(b, <<End>>) ELSE b

Build(frame) == /\ out = Nobody /\ made < MaxFrames
                /\ made' = made + 1
                /\ blocks' = blocks \cup {made + 1}
                /\ out' = CopiedBuffer(frame, made + 1)
                /\ UNCHANGED <<queue, double, ready, sent, plan, coming, buffer, parsed>>

\* Mutant: the other object keeps its pointer.
MovedKeeps(b) == [b EXCEPT !.octets = <<>>, !.capacity = 0]

\* What the move constructor leaves behind.
MovedFrom(b) == [block |-> 0, capacity |-> 0, octets |-> <<>>]

\* ~CopiedBuffer
Free(b) == /\ blocks' = blocks \ {b.block}
           /\ double' = (double \/ (b.block > 0 /\ b.block \notin blocks))

\* send(): over the connection, or into the queue.
SendNow == /\ out.block > 0 /\ (ready \/ made = 1)
           /\ sent' = Append(sent, out.octets)
           /\ out' = Nobody /\ Free(out)
           /\ UNCHANGED <<queue, made, ready, plan, coming, buffer, parsed>>

Enqueue == /\ out.block > 0 /\ ~ready /\ made > 1
           /\ queue' = Append(queue, out)
           /\ out' = MovedFrom(out)
           /\ UNCHANGED <<blocks, double, made, ready, sent, plan, coming, buffer, parsed>>

\* The end of the object that was moved from.
Leave == /\ out # Nobody /\ queue # <<>> /\ out.block \in {0, queue[Len(queue)].block}
         /\ out' = Nobody /\ Free(out)
         /\ UNCHANGED <<queue, made, ready, sent, plan, coming, buffer, parsed>>

\* setReady: the queue is flushed.
Flush == /\ out = Nobody /\ made > 0 /\ ~ready
         /\ IF queue = <<>> THEN ready' = TRUE /\ UNCHANGED <<queue, sent, blocks, double>>
            ELSE /\ sent' = Append(sent, Head(queue).octets)
                 /\ queue' = Tail(queue) /\ Free(Head(queue))
                 /\ UNCHANGED ready
         /\ UNCHANGED <<out, made, plan, coming, buffer, parsed>>

-----------------------------------------------------------------------------
(* Receiving.                                                              *)

\* Mutant: the end-of-frame octet is not counted.
TotalLess(payload) == (payload + Header) % MaxWord

totalSize(payload) == (payload + Header + 1) % MaxWord

Serve(n) == /\ Len(plan) < MaxFrames
            /\ plan' = Append(plan, n)
            /\ coming' = coming \o Octets(n) \o <<End>>
            /\ UNCHANGED <<out, queue, blocks, double, made, ready, sent, buffer, parsed>>

\* Some octets come: the caller puts them behind the ones it kept.
Receive(n) == /\ n \in 1..Len(coming)
              /\ buffer' = buffer \o SubSeq(coming, 1, n)
              /\ coming' = SubSeq(coming, n + 1, Len(coming))
              /\ UNCHANGED <<out, queue, blocks, double, made, ready, sent, plan, parsed>>

\* Buffer::byte and data, of a ByteBuffer; positions are from 0.
byte(b, pos)    == b[pos + 1]
data(b, pos, n) == SubSeq(b, pos + 1, pos + n)

\* parse(): one frame, if it is complete.
Parse == LET payload == byte(buffer, 0)
             total   == totalSize(payload)
         IN  /\ Len(buffer) >= Header /\ Len(buffer) >= total
             /\ parsed' = Append(parsed, data(buffer, 0, total))
             /\ buffer' = data(buffer, total, Len(buffer) - total)
             /\ UNCHANGED <<out, queue, blocks, double, made, ready, sent, plan, coming>>

Next == \/ (made = 0 /\ Build(ProtocolHeader))
        \/ \E n \in Payloads : \/ (made > 0 /\ Build(FrameOf(n)))
                               \/ Serve(n)
        \/ SendNow \/ Enqueue \/ Leave \/ Flush
        \/ \E n \in 1..Len(coming) : Receive(n)
        \/ Parse

Spec == Init /\ [][Next]_vars

-----------------------------------------------------------------------------
Buffers == {out} \cup {queue[i] : i \in 1..Len(queue)}

\* The type of the state; an object that was moved from has nothing.
TypeOK == /\ blocks \subseteq 1..MaxFrames /\ made \in 0..MaxFrames
          /\ \A b \in Buffers : b.block <= 0 => b.octets = <<>> /\ b.capacity = 0
          /\ ready \in BOOLEAN /\ double \in BOOLEAN

\* A frame fills the block that was allocated for it, exactly: nothing checks it
\* (copiedbuffer.h:53-60, 67-77).
BlocksFilled == \A b \in Buffers : Len(b.octets) = b.capacity

\* Each block has one owner and is freed once, when its frame is sent, through the
\* move into the queue as well (copiedbuffer.h:89-108).
OneOwner == /\ ~double
            /\ \A n \in blocks : \E b \in Buffers : b.block = n
            /\ \A b \in Buffers : b.block > 0 => b.block \in blocks
            /\ \A i \in 1..Len(queue) : out.block # queue[i].block

\* The frames that are processed are the ones the server sent, whole and in order,
\* however the octets were cut on the way (receivedframe.h:171-179).
FramesWhole == /\ Len(parsed) <= Len(plan)
               /\ \A i \in 1..Len(parsed) : parsed[i] = Octets(plan[i]) \o <<End>>
=============================================================================
