------------------------------ MODULE BytePipes ------------------------------
(***************************************************************************)
(* What the directions of the sessions promise: each is a FIFO byte pipe   *)
(* that is opened once, delivers what was sent in order and without gaps,  *)
(* and may break at any moment, losing what it has not delivered.  Pipes   *)
(* step independently, several of them in one event if need be.            *)
(***************************************************************************)
EXTENDS Naturals, Sequences

CONSTANT Pipe

VARIABLES phase,   \* "idle", then "open", then "broken", per pipe
          sent,    \* bytes taken from the source
          rcvd     \* bytes given to the destination

pipeVars == <<phase, sent, rcvd>>

\* s is an initial part of t.
Prefix(s, t) == Len(s) <= Len(t) /\ \A i \in 1..Len(s) : s[i] = t[i]

PipeInit == /\ phase = [p \in Pipe |-> "idle"]
            /\ sent = [p \in Pipe |-> <<>>]
            /\ rcvd = [p \in Pipe |-> <<>>]

Same(f, p) == f'[p] = f[p]

Open(p) == /\ phase[p] = "idle" /\ phase'[p] = "open"
           /\ Same(sent, p) /\ Same(rcvd, p)

\* The source sends; the pipe may break before any of it is delivered.
Put(p) == /\ phase[p] = "open" /\ phase'[p] \in {"open", "broken"}
          /\ Prefix(sent[p], sent'[p]) /\ Same(rcvd, p)

\* Part of what was sent and not yet delivered arrives.
Deliver(p) == /\ phase[p] = "open" /\ Same(phase, p) /\ Same(sent, p)
              /\ Prefix(rcvd[p], rcvd'[p]) /\ Prefix(rcvd'[p], sent[p])

\* A pipe is refused before it opens, or an open one breaks.
Break(p) == /\ phase[p] # "broken" /\ phase'[p] = "broken"
            /\ Same(sent, p) /\ Same(rcvd, p)

Idle(p) == Same(phase, p) /\ Same(sent, p) /\ Same(rcvd, p)

PipeNext == \A p \in Pipe : Open(p) \/ Put(p) \/ Deliver(p) \/ Break(p) \/ Idle(p)

PipeSpec == PipeInit /\ [][PipeNext]_pipeVars
=============================================================================
