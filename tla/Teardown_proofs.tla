-------------------------- MODULE Teardown_proofs ---------------------------
(***************************************************************************)
(* Proofs about Teardown, for every set of connections.  All calls but     *)
(* three are the last statement of their caller, so that below the two or  *)
(* three frames that have something left to do every frame is finished:    *)
(* the invariant says which frames these are, on which object they run,    *)
(* and which objects exist meanwhile.                                      *)
(***************************************************************************)
EXTENDS Teardown, SequenceTheorems, TLAPS

Statement == {"this", "fwd", "proxy", "close", "closeCb", "closeProxy", "cmDrop", "lock",
              "unlock", "erase", "release", "clear", "resetFwd", "end"}

Frames == [body : Seq(Statement), obj : Objects \cup {<<"none">>}]

\* Proxy and Forwarder of c exist if and while c is registered ...
Matched(c) == /\ <<"proxy", c>> \in alive <=> c \in processors
              /\ <<"fwd", c>> \in alive => c \in processors

Consistent == \A c \in Conn : Matched(c)

\* ... and while c is being destroyed this is so for every other connection.
Except(c) == c \notin processors /\ \A d \in Conn \ {c} : Matched(d)

\* Below the k frames at the top no frame has a statement left.
Below(k) == \A i \in 1..Len(stack) : i > k => stack[i].body = <<>>

\* Nothing is left to do.
Finished == Below(0) /\ ~mutex /\ Consistent

\* On the way to the mutex, on an object that exists.
Entering(c, kind) ==
  /\ stack # <<>> /\ Below(1) /\ ~mutex /\ Consistent
  /\ Top.obj = <<kind, c>> /\ Top.obj \in alive
  /\ \/ Top.body \in {onEvent, <<"close">>, closeBody, <<"this", "closeCb">>, <<"closeCb">>}
     \/ /\ kind = "proxy"
        /\ \/ Top.body \in {pmDrop, <<"this", "cmDrop">>, <<"cmDrop">>, <<"closeProxy">>, cmDrop}
           \/ Top.body \in {onFwdClose, <<"fwd", "closeProxy">>} /\ <<"fwd", c>> \in alive

\* CLOSE_ALL before the mutex.
EnteringAll ==
  stack # <<>> /\ Below(1) /\ ~mutex /\ Consistent /\ Top.body = cmDropAll

\* What is left of a function that holds the mutex when a Proxy is gone.
Holder == {<<"unlock">>, <<"clear", "unlock">>}

\* dropConnection with the mutex, the Proxy still registered, or not released yet.
Dropping(c) ==
  /\ stack # <<>> /\ Below(1) /\ mutex
  /\ Top.obj = <<"proxy", c>> /\ Top.obj \in alive
  /\ \/ Consistent /\ Top.body \in {<<"proxy", "erase", "release", "unlock">>,
                                    <<"erase", "release", "unlock">>, <<"release", "unlock">>}
     \/ Except(c) /\ Top.body = <<"release", "unlock">>

Holding == stack # <<>> /\ Below(1) /\ mutex /\ Consistent /\ Top.body \in Holder

\* ~Proxy.
DestroyingProxy(c) ==
  /\ Len(stack) >= 2 /\ Below(2) /\ mutex /\ stack[2].body \in Holder
  /\ Top.obj = <<"proxy", c>> /\ Except(c)
  /\ \/ Top.body \in {dtorProxy, <<"resetFwd", "this", "end">>} /\ Top.obj \in alive
     \/ Top.body \in {dtor, <<"end">>} /\ Top.obj \in alive /\ <<"fwd", c>> \notin alive
     \/ Top.body = <<>> /\ Consistent

\* ~Forwarder, called by ~Proxy.
DestroyingFwd(c) ==
  /\ Len(stack) >= 3 /\ Below(3) /\ mutex /\ stack[3].body \in Holder
  /\ stack[2] = Frame(dtor, <<"proxy", c>>) /\ <<"proxy", c>> \in alive /\ Except(c)
  /\ Top.obj = <<"fwd", c>>
  /\ \/ Top.body \in {dtor, <<"end">>} /\ Top.obj \in alive
     \/ Top.body = <<>> /\ Top.obj \notin alive

Phase == \/ Finished \/ EnteringAll \/ Holding
         \/ \E c \in Conn : \/ \E kind \in {"proxy", "fwd"} : Entering(c, kind)
                            \/ Dropping(c) \/ DestroyingProxy(c) \/ DestroyingFwd(c)

\* The inductive invariant.
Typed == /\ stack \in Seq(Frames) /\ processors \subseteq Conn /\ alive \subseteq Objects
         /\ mutex \in BOOLEAN /\ running \in BOOLEAN /\ used = FALSE

IInv == Typed /\ Phase

-----------------------------------------------------------------------------
\* ~Proxy, before ~ConnectionProcessor.
LEMMA DtorProxyBody == dtorProxy = <<"this", "resetFwd", "this", "end">>
<1> DEFINE l == <<"this", "resetFwd">> \o <<"this", "end">>
           r == <<"this", "resetFwd", "this", "end">>
<1>1. <<"this", "resetFwd">> \in Seq(Statement) /\ <<"this", "end">> \in Seq(Statement)
  BY DEF Statement
<1>2. l \in Seq(Statement) /\ Len(l) = 4 /\ r \in Seq(Statement) /\ Len(r) = 4
  BY <1>1 DEF Statement
<1>3. l[1] = "this" /\ l[2] = "resetFwd" /\ l[3] = "this" /\ l[4] = "end"
  BY <1>1
<1>4. r[1] = "this" /\ r[2] = "resetFwd" /\ r[3] = "this" /\ r[4] = "end"
  OBVIOUS
<1>5. \A i \in 1..4 : l[i] = r[i]
  BY <1>3, <1>4
<1>6. l = r
  <2> HIDE DEF l, r
  <2> QED BY <1>2, <1>5, SeqEqual
<1> QED BY <1>6 DEF dtorProxy, dtor

\* The bodies that are called are sequences of statements.
LEMMA BodyType ==
  /\ onEvent \in Seq(Statement) /\ dataRecieved \in Seq(Statement)
  /\ closeBody \in Seq(Statement) /\ onFwdClose \in Seq(Statement)
  /\ pmDrop \in Seq(Statement) /\ cmDrop \in Seq(Statement)
  /\ cmDropAll \in Seq(Statement) /\ dtor \in Seq(Statement) /\ dtorProxy \in Seq(Statement)
<1>1. <<"this", "resetFwd", "this", "end">> \in Seq(Statement)
  BY DEF Statement
<1>2. dtorProxy \in Seq(Statement)
  BY <1>1, DtorProxyBody
<1>3. cmDrop \in Seq(Statement)
  BY DEF Statement, cmDrop
<1>4. onEvent \in Seq(Statement) /\ dataRecieved \in Seq(Statement) /\ dtor \in Seq(Statement)
  BY DEF Statement, onEvent, dataRecieved, dtor
<1>5. closeBody \in Seq(Statement) /\ onFwdClose \in Seq(Statement)
  BY DEF Statement, closeBody, onFwdClose
<1>6. pmDrop \in Seq(Statement) /\ cmDropAll \in Seq(Statement)
  BY DEF Statement, pmDrop, cmDropAll
<1> QED BY <1>2, <1>3, <1>4, <1>5, <1>6

\* The next statement of a body, and what is left after it.
Next1(b, s, t) == b # <<>> /\ Head(b) = s /\ Tail(b) = t

\* The course of the functions on the way to the managers.
LEMMA EntryCourse ==
  /\ Next1(onEvent, "this", <<"close">>) /\ Next1(<<"close">>, "close", <<>>)
  /\ Next1(closeBody, "this", <<"this", "closeCb">>)
  /\ Next1(<<"this", "closeCb">>, "this", <<"closeCb">>) /\ Next1(<<"closeCb">>, "closeCb", <<>>)
  /\ Next1(onFwdClose, "this", <<"fwd", "closeProxy">>)
  /\ Next1(<<"fwd", "closeProxy">>, "fwd", <<"closeProxy">>)
  /\ Next1(<<"closeProxy">>, "closeProxy", <<>>)
  /\ Next1(pmDrop, "this", <<"this", "cmDrop">>)
  /\ Next1(<<"this", "cmDrop">>, "this", <<"cmDrop">>) /\ Next1(<<"cmDrop">>, "cmDrop", <<>>)
  BY DEF Next1, onEvent, closeBody, onFwdClose, pmDrop

\* The course of dropConnection and dropAll.
LEMMA DropCourse ==
  /\ Next1(cmDrop, "lock", <<"proxy", "erase", "release", "unlock">>)
  /\ Next1(<<"proxy", "erase", "release", "unlock">>, "proxy", <<"erase", "release", "unlock">>)
  /\ Next1(<<"erase", "release", "unlock">>, "erase", <<"release", "unlock">>)
  /\ Next1(<<"release", "unlock">>, "release", <<"unlock">>)
  /\ Next1(<<"unlock">>, "unlock", <<>>)
  /\ Next1(cmDropAll, "lock", <<"clear", "unlock">>)
  /\ Next1(<<"clear", "unlock">>, "clear", <<"unlock">>)
  BY DEF Next1, cmDrop, cmDropAll

\* The course of the destructors.
LEMMA DtorCourse ==
  /\ Next1(dtorProxy, "this", <<"resetFwd", "this", "end">>)
  /\ Next1(<<"resetFwd", "this", "end">>, "resetFwd", dtor)
  /\ Next1(dtor, "this", <<"end">>) /\ Next1(<<"end">>, "end", <<>>)
<1>1. Next1(<<"this", "resetFwd", "this", "end">>, "this", <<"resetFwd", "this", "end">>)
  BY DEF Next1
<1> QED BY <1>1, DtorProxyBody DEF Next1, dtor

\* A frame with other statements left.
LEMMA FrameUpdate ==
  ASSUME NEW f \in Frames, NEW b
  PROVE  [f EXCEPT !.body = b] = Frame(b, f.obj)
<1>1. \A S, T : \A r \in [body : S, obj : T] : [r EXCEPT !.body = b] = [body |-> b, obj |-> r.obj]
  OBVIOUS
<1> QED BY <1>1 DEF Frames, Frame

\* The statement at the top is done, and those of the other frames stay.
LEMMA LeftStack ==
  ASSUME stack \in Seq(Frames), stack # <<>>, Top.body # <<>>
  PROVE  /\ Left \in Seq(Frames) /\ Len(Left) = Len(stack) /\ Len(stack) >= 1
         /\ Left[1] = Frame(Tail(Top.body), Top.obj)
         /\ \A i \in 2..Len(stack) : Left[i] = stack[i]
<1>1. Len(stack) \in Nat /\ Len(stack) >= 1 /\ Top \in Frames
  BY DEF Top
<1>2. [Top EXCEPT !.body = Tail(@)] = Frame(Tail(Top.body), Top.obj)
  BY <1>1, FrameUpdate
<1>3. Tail(Top.body) \in Seq(Statement)
  BY <1>1 DEF Frames
<1>4. Frame(Tail(Top.body), Top.obj) \in Frames
  BY <1>1, <1>3 DEF Frames, Frame
<1>5. <<Frame(Tail(Top.body), Top.obj)>> \in Seq(Frames) /\ Tail(stack) \in Seq(Frames)
  BY <1>1, <1>4
<1> QED BY <1>1, <1>2, <1>5 DEF Left

\* A call puts a frame on top of the rest of the caller.
LEMMA PushStack ==
  ASSUME stack \in Seq(Frames), stack # <<>>, Top.body # <<>>,
         NEW b \in Seq(Statement), NEW o \in Objects, Push(b, o)
  PROVE  /\ stack' \in Seq(Frames) /\ Len(stack') = Len(stack) + 1 /\ Len(stack) >= 1
         /\ stack'[1] = Frame(b, o)
         /\ stack'[2] = Frame(Tail(Top.body), Top.obj)
         /\ \A i \in 3..Len(stack') : stack'[i] = stack[i - 1]
<1>1. /\ Left \in Seq(Frames) /\ Len(Left) = Len(stack) /\ Len(stack) >= 1
      /\ Left[1] = Frame(Tail(Top.body), Top.obj)
      /\ \A i \in 2..Len(stack) : Left[i] = stack[i]
  BY LeftStack
<1>2. Frame(b, o) \in Frames
  BY DEF Frames, Frame
<1>3. stack' = <<Frame(b, o)>> \o Left
  BY DEF Push
<1>4. /\ stack' \in Seq(Frames) /\ Len(stack') = Len(stack) + 1 /\ stack'[1] = Frame(b, o)
      /\ \A i \in 2..Len(stack') : stack'[i] = Left[i - 1]
  BY <1>1, <1>2, <1>3
<1>5. stack'[2] = Left[1]
  BY <1>1, <1>4
<1>6. ASSUME NEW i \in 3..Len(stack') PROVE stack'[i] = stack[i - 1]
  <2>1. i \in 2..Len(stack') /\ i - 1 \in 2..Len(stack)
    BY <1>1, <1>4
  <2> QED BY <1>1, <1>4, <2>1
<1> QED BY <1>1, <1>4, <1>5, <1>6

\* A return leaves the frames below.
LEMMA PopStack ==
  ASSUME stack \in Seq(Frames), stack # <<>>
  PROVE  /\ Tail(stack) \in Seq(Frames) /\ Len(Tail(stack)) = Len(stack) - 1
         /\ Len(stack) \in Nat /\ Len(stack) >= 1
         /\ \A i \in 1..Len(stack) - 1 : Tail(stack)[i] = stack[i + 1]
  OBVIOUS

\* The statement at the top decides which step is taken.
LEMMA Dispatch ==
  ASSUME Step
  PROVE  /\ stack # <<>>
         /\ Top.body = <<>> => Return
         /\ Top.body # <<>> =>
              /\ Head(Top.body) = "this" => This
              /\ Head(Top.body) = "fwd" => Fwd
              /\ Head(Top.body) = "proxy" => Proxy
              /\ Head(Top.body) \in {"close", "closeProxy", "cmDrop", "closeCb", "resetFwd"} => Calls
              /\ Head(Top.body) = "lock" => Lock
              /\ Head(Top.body) = "unlock" => Unlock
              /\ Head(Top.body) = "erase" => Erase
              /\ Head(Top.body) = "release" => Release
              /\ Head(Top.body) = "end" => End
              /\ Head(Top.body) = "clear" => Clear
  BY DEF Step, At, This, Fwd, Proxy, Touch, Calls, Lock, Unlock, Erase, Release, End, Clear, Return

\* The step of a statement that only touches objects that exist.
Continue == stack' = Left /\ UNCHANGED <<processors, alive, mutex, running, used>>

\* Touching an object that exists is harmless.
LEMMA TouchAlive ==
  ASSUME used = FALSE, NEW s, NEW o \in alive, Touch(s, o)
  PROVE  Continue
  BY Zenon DEF Touch, Continue

-----------------------------------------------------------------------------
\* How a statement changes the frames that matter ...
LEMMA LeftFrames ==
  ASSUME stack \in Seq(Frames), stack # <<>>, Top.body # <<>>, stack' = Left
  PROVE  /\ stack' \in Seq(Frames) /\ stack' # <<>> /\ Len(stack') = Len(stack)
         /\ Top' = Frame(Tail(Top.body), Top.obj)
         /\ Len(stack) >= 2 => stack'[2] = stack[2]
         /\ Len(stack) >= 3 => stack'[3] = stack[3]
         /\ Below(1) => Below(1)' /\ (Tail(Top.body) = <<>> => Below(0)')
         /\ Below(2) => Below(2)'
         /\ Below(3) => Below(3)'
<1>1. /\ Left \in Seq(Frames) /\ Len(Left) = Len(stack) /\ Len(stack) >= 1 /\ Len(stack) \in Nat
      /\ Left[1] = Frame(Tail(Top.body), Top.obj)
      /\ \A i \in 2..Len(stack) : Left[i] = stack[i]
  BY LeftStack
<1>2. \A i \in 1..Len(stack') : i = 1 \/ i \in 2..Len(stack)
  BY <1>1
<1>3. stack' # <<>> /\ Top' = Frame(Tail(Top.body), Top.obj)
  BY <1>1 DEF Top
<1>4. ASSUME NEW k \in {1, 2, 3}, Below(k) PROVE Below(k)'
  BY <1>1, <1>2, <1>4 DEF Below
<1>5. ASSUME Below(1), Tail(Top.body) = <<>> PROVE Below(0)'
  <2>1. stack'[1].body = <<>>
    BY <1>1, <1>5 DEF Frame
  <2>2. \A i \in 2..Len(stack) : stack'[i].body = <<>>
    BY <1>1, <1>5 DEF Below
  <2> QED BY <1>2, <2>1, <2>2 DEF Below
<1> QED BY <1>1, <1>3, <1>4, <1>5

\* ... how a call does ...
LEMMA PushFrames ==
  ASSUME stack \in Seq(Frames), stack # <<>>, Top.body # <<>>,
         NEW b \in Seq(Statement), NEW o \in Objects, Push(b, o)
  PROVE  /\ stack' \in Seq(Frames) /\ stack' # <<>> /\ Len(stack') = Len(stack) + 1
         /\ Len(stack') >= 2 /\ Top' = Frame(b, o)
         /\ stack'[2] = Frame(Tail(Top.body), Top.obj)
         /\ Len(stack) >= 2 => Len(stack') >= 3 /\ stack'[3] = stack[2]
         /\ Below(1) => Below(2)' /\ (Tail(Top.body) = <<>> => Below(1)')
         /\ Below(2) => Below(3)'
<1>1. /\ stack' \in Seq(Frames) /\ Len(stack') = Len(stack) + 1 /\ Len(stack) >= 1
      /\ Len(stack) \in Nat /\ stack'[1] = Frame(b, o)
      /\ stack'[2] = Frame(Tail(Top.body), Top.obj)
      /\ \A i \in 3..Len(stack') : stack'[i] = stack[i - 1]
  BY PushStack
<1>2. \A i \in 1..Len(stack') : i \in {1, 2} \/ (i \in 3..Len(stack') /\ i - 1 \in 2..Len(stack))
  BY <1>1
<1>3. stack' # <<>> /\ Top' = Frame(b, o)
  BY <1>1 DEF Top
<1>4. Below(1) => Below(2)'
  BY <1>1, <1>2 DEF Below
<1>5. Below(2) => Below(3)'
  BY <1>1, <1>2 DEF Below
<1>6. ASSUME Below(1), Tail(Top.body) = <<>> PROVE Below(1)'
  <2>1. stack'[2].body = <<>>
    BY <1>1, <1>6 DEF Frame
  <2>2. \A i \in 3..Len(stack') : stack'[i].body = <<>>
    BY <1>1, <1>2, <1>6 DEF Below
  <2>3. \A i \in 1..Len(stack') : i > 1 => i = 2 \/ i \in 3..Len(stack')
    BY <1>1
  <2> QED BY <2>1, <2>2, <2>3 DEF Below
<1> QED BY <1>1, <1>3, <1>4, <1>5, <1>6

\* ... and how a return does.
LEMMA PopFrames ==
  ASSUME stack \in Seq(Frames), stack # <<>>, stack' = Tail(stack)
  PROVE  /\ stack' \in Seq(Frames) /\ Len(stack') = Len(stack) - 1
         /\ Len(stack) >= 2 => stack' # <<>> /\ Top' = stack[2]
         /\ Len(stack) >= 3 => stack'[2] = stack[3]
         /\ Below(0) => Below(0)'
         /\ Below(2) => Below(1)'
         /\ Below(3) => Below(2)'
<1>1. /\ stack' \in Seq(Frames) /\ Len(stack') = Len(stack) - 1
      /\ Len(stack) \in Nat /\ Len(stack) >= 1 /\ Len(stack') \in Nat
      /\ \A i \in 1..Len(stack') : stack'[i] = stack[i + 1] /\ i + 1 \in 1..Len(stack)
  BY PopStack
<1>2. ASSUME Len(stack) >= 2 PROVE stack' # <<>> /\ Top' = stack[2]
  <2>1. Len(stack') >= 1 /\ 1 \in 1..Len(stack')
    BY <1>1, <1>2
  <2>2. stack'[1] = stack[2]
    BY <1>1, <2>1
  <2>3. stack' # <<>>
    <3>1. \A t \in Seq(Frames) : Len(t) >= 1 => t # <<>>
      OBVIOUS
    <3> QED BY <1>1, <2>1, <3>1
  <2> QED BY <2>2, <2>3 DEF Top
<1>3. Len(stack) >= 3 => stack'[2] = stack[3]
  BY <1>1
<1>4. Below(0) => Below(0)'
  BY <1>1 DEF Below
<1>5. Below(2) => Below(1)'
  BY <1>1 DEF Below
<1>6. Below(3) => Below(2)'
  BY <1>1 DEF Below
<1> QED BY <1>1, <1>2, <1>3, <1>4, <1>5, <1>6

-----------------------------------------------------------------------------
\* On the way to the mutex every statement finds its object.
LEMMA EnteringStep ==
  ASSUME Typed, Step, NEW c \in Conn, NEW kind \in {"proxy", "fwd"}, Entering(c, kind)
  PROVE  Typed' /\ ((\E k \in {"proxy", "fwd"} : Entering(c, k)') \/ Dropping(c)')
<1>0. /\ stack \in Seq(Frames) /\ stack # <<>> /\ Below(1) /\ ~mutex /\ Consistent
      /\ Top.obj = <<kind, c>> /\ Top.obj \in alive /\ Top.obj \in Objects
      /\ ProxyOf(Top.obj) = <<"proxy", c>> /\ FwdOf(Top.obj) = <<"fwd", c>>
      /\ <<"proxy", c>> \in Objects
  BY DEF Entering, Typed, ProxyOf, FwdOf, Objects
<1>1. ASSUME NEW b, Next1(Top.body, "this", b) PROVE Continue
  BY <1>0, <1>1, Dispatch, TouchAlive DEF Next1, This, Typed
<1>2. ASSUME Continue, NEW s, NEW b, Next1(Top.body, s, b)
      PROVE  /\ Typed' /\ stack' # <<>> /\ Below(1)' /\ ~mutex' /\ Consistent'
             /\ Top'.obj = <<kind, c>> /\ Top'.obj \in alive' /\ Top'.body = b /\ alive' = alive
  <2>1. stack' \in Seq(Frames) /\ stack' # <<>> /\ Below(1)' /\ Top' = Frame(b, <<kind, c>>)
    BY <1>0, <1>2, LeftFrames DEF Continue, Next1
  <2>2. Typed' /\ ~mutex' /\ Consistent' /\ alive' = alive
    BY <1>0, <1>2, <2>1 DEF Continue, Typed, Consistent, Matched
  <2> QED BY <1>0, <2>1, <2>2 DEF Frame
<1>3. ASSUME NEW s, Next1(Top.body, s, <<>>), NEW b \in Seq(Statement), NEW k \in {"proxy", "fwd"},
             Push(b, <<k, c>>), <<k, c>> \in alive, UNCHANGED <<processors, alive, mutex, running, used>>
      PROVE  /\ Typed' /\ stack' # <<>> /\ Below(1)' /\ ~mutex' /\ Consistent'
             /\ Top'.obj = <<k, c>> /\ Top'.obj \in alive' /\ Top'.body = b /\ alive' = alive
  BY <1>0, <1>3, PushFrames DEF Typed, Consistent, Matched, Next1, Frame
<1>4. CASE Top.body \in {onEvent, closeBody, <<"this", "closeCb">>}
  <2>1. \E b \in {<<"close">>, <<"this", "closeCb">>, <<"closeCb">>} : Next1(Top.body, "this", b)
    BY <1>4, EntryCourse
  <2> QED BY <1>1, <1>2, <2>1 DEF Entering
<1>5. CASE Top.body = <<"close">>
  <2>1. Next1(Top.body, "close", <<>>)
    BY <1>5, EntryCourse
  <2>2. Push(closeBody, <<kind, c>>) /\ UNCHANGED <<processors, alive, mutex, running, used>>
    BY <1>0, <2>1, Dispatch DEF Calls, At, Next1
  <2> QED BY <1>0, <1>3, <2>1, <2>2, BodyType DEF Entering
<1>6. CASE Top.body = <<"closeCb">>
  <2>1. Next1(Top.body, "closeCb", <<>>)
    BY <1>6, EntryCourse
  <2>2. CASE kind = "fwd"
    <3>1. /\ Push(onFwdClose, <<"proxy", c>>)
          /\ UNCHANGED <<processors, alive, mutex, running, used>>
      BY <1>0, <2>1, <2>2, Dispatch DEF Calls, At, Next1
    <3>2. <<"proxy", c>> \in alive /\ <<"fwd", c>> \in alive
      BY <1>0, <2>2 DEF Consistent, Matched
    <3> QED BY <1>3, <2>1, <3>1, <3>2, BodyType DEF Entering
  <2>3. CASE kind = "proxy"
    <3>1. /\ Push(pmDrop, <<"proxy", c>>)
          /\ UNCHANGED <<processors, alive, mutex, running, used>>
      BY <1>0, <2>1, <2>3, Dispatch DEF Calls, At, Next1
    <3> QED BY <1>0, <1>3, <2>1, <2>3, <3>1, BodyType DEF Entering
  <2> QED BY <2>2, <2>3
<1>7. CASE kind = "proxy" /\ Top.body \in {pmDrop, <<"this", "cmDrop">>}
  <2>1. \E b \in {<<"this", "cmDrop">>, <<"cmDrop">>} : Next1(Top.body, "this", b)
    BY <1>7, EntryCourse
  <2> QED BY <1>1, <1>2, <1>7, <2>1 DEF Entering
<1>8. CASE kind = "proxy" /\ Top.body = <<"cmDrop">>
  <2>1. Next1(Top.body, "cmDrop", <<>>)
    BY <1>8, EntryCourse
  <2>2. Push(cmDrop, <<kind, c>>) /\ UNCHANGED <<processors, alive, mutex, running, used>>
    BY <1>0, <2>1, Dispatch DEF Calls, At, Next1
  <2> QED BY <1>0, <1>3, <1>8, <2>1, <2>2, BodyType DEF Entering
<1>9. CASE kind = "proxy" /\ Top.body = <<"closeProxy">>
  <2>1. Next1(Top.body, "closeProxy", <<>>)
    BY <1>9, EntryCourse
  <2>2. Push(closeBody, <<"proxy", c>>) /\ UNCHANGED <<processors, alive, mutex, running, used>>
    BY <1>0, <2>1, Dispatch DEF Calls, At, Next1
  <2> QED BY <1>0, <1>3, <1>9, <2>1, <2>2, BodyType DEF Entering
<1>10. CASE kind = "proxy" /\ Top.body = onFwdClose /\ <<"fwd", c>> \in alive
  <2>1. Next1(Top.body, "this", <<"fwd", "closeProxy">>)
    BY <1>10, EntryCourse
  <2> QED BY <1>1, <1>2, <1>10, <2>1 DEF Entering
<1>11. CASE kind = "proxy" /\ Top.body = <<"fwd", "closeProxy">> /\ <<"fwd", c>> \in alive
  <2>1. Next1(Top.body, "fwd", <<"closeProxy">>)
    BY <1>11, EntryCourse
  <2>2. Continue
    BY <1>0, <1>11, <2>1, Dispatch, TouchAlive DEF Next1, Fwd, Typed
  <2> QED BY <1>2, <1>11, <2>1, <2>2 DEF Entering
<1>12. CASE kind = "proxy" /\ Top.body = cmDrop
  <2>1. Next1(Top.body, "lock", <<"proxy", "erase", "release", "unlock">>)
    BY <1>12, DropCourse
  <2>2. mutex' = TRUE /\ stack' = Left /\ UNCHANGED <<processors, alive, running, used>>
    BY <2>1, Dispatch DEF Lock, Next1
  <2>3. /\ stack' \in Seq(Frames) /\ stack' # <<>> /\ Below(1)'
        /\ Top' = Frame(<<"proxy", "erase", "release", "unlock">>, <<"proxy", c>>)
    BY <1>0, <1>12, <2>1, <2>2, LeftFrames DEF Next1
  <2>4. Consistent' /\ mutex' \in BOOLEAN /\ mutex'
    BY <1>0, <2>2 DEF Consistent, Matched
  <2>5. Typed'
    BY <2>2, <2>3, <2>4 DEF Typed
  <2>6. Dropping(c)'
    BY <1>0, <1>12, <2>2, <2>3, <2>4 DEF Dropping, Frame
  <2> QED BY <2>5, <2>6
<1> QED BY <1>4, <1>5, <1>6, <1>7, <1>8, <1>9, <1>10, <1>11, <1>12 DEF Entering

\* CLOSE_ALL takes the mutex.
LEMMA EnteringAllStep ==
  ASSUME Typed, Step, EnteringAll
  PROVE  Typed' /\ Holding'
<1>0. stack \in Seq(Frames) /\ stack # <<>> /\ Below(1) /\ Consistent
  BY DEF EnteringAll, Typed
<1>1. Next1(Top.body, "lock", <<"clear", "unlock">>)
  BY DropCourse DEF EnteringAll
<1>2. mutex' = TRUE /\ stack' = Left /\ UNCHANGED <<processors, alive, running, used>>
  BY <1>1, Dispatch DEF Lock, Next1
<1>3. stack' \in Seq(Frames) /\ stack' # <<>> /\ Below(1)' /\ Top' = Frame(<<"clear", "unlock">>, Top.obj)
  BY <1>0, <1>1, <1>2, LeftFrames DEF Next1
<1>4. Consistent' /\ mutex' \in BOOLEAN /\ mutex'
  BY <1>0, <1>2 DEF Consistent, Matched
<1>5. Typed'
  BY <1>2, <1>3, <1>4 DEF Typed
<1> QED BY <1>3, <1>4, <1>5 DEF Holding, Holder, Frame

\* With the mutex held, the Proxy is unregistered and, with its last reference, destroyed.
LEMMA DroppingStep ==
  ASSUME Typed, Step, NEW c \in Conn, Dropping(c)
  PROVE  Typed' /\ (Dropping(c)' \/ Holding' \/ DestroyingProxy(c)')
<1>0. /\ stack \in Seq(Frames) /\ stack # <<>> /\ Below(1) /\ mutex
      /\ Top.obj = <<"proxy", c>> /\ <<"proxy", c>> \in alive
      /\ ProxyOf(Top.obj) = <<"proxy", c>> /\ Top.obj[2] = c /\ <<"proxy", c>> \in Objects
  BY DEF Dropping, Typed, ProxyOf, Objects
<1>1. ASSUME NEW s, NEW b, Next1(Top.body, s, b), stack' = Left, UNCHANGED <<alive, mutex, running, used>>,
             processors' \subseteq processors
      PROVE  /\ Typed' /\ stack' # <<>> /\ Below(1)' /\ mutex' /\ Top'.body = b
             /\ Top'.obj = <<"proxy", c>> /\ Top'.obj \in alive'
  <2>1. stack' \in Seq(Frames) /\ stack' # <<>> /\ Below(1)' /\ Top' = Frame(b, <<"proxy", c>>)
    BY <1>0, <1>1, LeftFrames DEF Next1
  <2>2. Typed' /\ mutex'
    BY <1>0, <1>1, <2>1 DEF Typed
  <2> QED BY <1>0, <1>1, <2>1, <2>2 DEF Frame
<1>2. CASE Consistent /\ Top.body = <<"proxy", "erase", "release", "unlock">>
  <2>1. Next1(Top.body, "proxy", <<"erase", "release", "unlock">>)
    BY <1>2, DropCourse
  <2>2. Continue
    BY <1>0, <2>1, Dispatch, TouchAlive DEF Next1, Proxy, Typed
  <2>3. Consistent'
    BY <1>2, <2>2 DEF Continue, Consistent, Matched
  <2> QED BY <1>1, <2>1, <2>2, <2>3 DEF Continue, Dropping
<1>3. CASE Consistent /\ Top.body = <<"erase", "release", "unlock">>
  <2>1. Next1(Top.body, "erase", <<"release", "unlock">>)
    BY <1>3, DropCourse
  <2>2. /\ processors' = IF running THEN processors \ {c} ELSE processors
        /\ stack' = Left /\ UNCHANGED <<alive, mutex, running, used>>
    BY <1>0, <2>1, Dispatch DEF Next1, Erase
  <2>3. Consistent' \/ Except(c)'
    BY <1>3, <2>2 DEF Consistent, Except, Matched
  <2> QED BY <1>1, <2>1, <2>2, <2>3 DEF Dropping
<1>4. CASE Consistent /\ Top.body = <<"release", "unlock">>
  <2>1. Next1(Top.body, "release", <<"unlock">>)
    BY <1>4, DropCourse
  <2>2. c \in processors
    BY <1>0, <1>4 DEF Consistent, Matched
  <2>3. stack' = Left /\ UNCHANGED <<processors, alive, mutex, running, used>>
    BY <1>0, <2>1, <2>2, Dispatch DEF Next1, Release
  <2>4. Consistent'
    BY <1>4, <2>3 DEF Consistent, Matched
  <2> QED BY <1>1, <2>1, <2>3, <2>4 DEF Holding, Holder
<1>5. CASE Except(c) /\ Top.body = <<"release", "unlock">>
  <2>1. Next1(Top.body, "release", <<"unlock">>)
    BY <1>5, DropCourse
  <2>2. Push(dtorProxy, <<"proxy", c>>) /\ UNCHANGED <<processors, alive, mutex, running, used>>
    BY <1>0, <1>5, <2>1, Dispatch DEF Next1, Release, Except
  <2>3. /\ stack' \in Seq(Frames) /\ Len(stack') >= 2 /\ Top' = Frame(dtorProxy, <<"proxy", c>>)
        /\ stack'[2] = Frame(<<"unlock">>, <<"proxy", c>>) /\ Below(2)'
    BY <1>0, <2>1, <2>2, PushFrames, BodyType DEF Next1
  <2>4. Except(c)' /\ mutex'
    BY <1>0, <1>5, <2>2 DEF Except, Matched
  <2>5. Typed'
    BY <2>2, <2>3 DEF Typed
  <2> QED BY <1>0, <2>2, <2>3, <2>4, <2>5 DEF DestroyingProxy, Frame, Holder
<1> QED BY <1>2, <1>3, <1>4, <1>5 DEF Dropping

\* The mutex is released when no Proxy is half destroyed; clear() takes the next one.
LEMMA HoldingStep ==
  ASSUME Typed, Step, Holding
  PROVE  Typed' /\ (Finished' \/ Holding' \/ \E d \in Conn : DestroyingProxy(d)')
<1>0. /\ stack \in Seq(Frames) /\ stack # <<>> /\ Below(1) /\ mutex /\ Consistent
      /\ processors \subseteq Conn
  BY DEF Holding, Typed
<1>1. CASE Top.body = <<"unlock">>
  <2>1. Next1(Top.body, "unlock", <<>>)
    BY <1>1, DropCourse
  <2>2. mutex' = FALSE /\ stack' = Left /\ UNCHANGED <<processors, alive, running, used>>
    BY <2>1, Dispatch DEF Next1, Unlock
  <2>3. stack' \in Seq(Frames) /\ Below(0)'
    BY <1>0, <2>1, <2>2, LeftFrames DEF Next1
  <2>4. Consistent' /\ ~mutex' /\ mutex' \in BOOLEAN
    BY <1>0, <2>2 DEF Consistent, Matched
  <2> QED BY <2>2, <2>3, <2>4 DEF Finished, Typed
<1>2. CASE Top.body = <<"clear", "unlock">>
  <2>1. Next1(Top.body, "clear", <<"unlock">>)
    BY <1>2, DropCourse
  <2>2. Clear
    BY <2>1, Dispatch DEF Next1
  <2>3. running' \in BOOLEAN /\ UNCHANGED <<alive, mutex, used>>
    BY <2>2, Zenon DEF Clear
  <2>4. CASE processors = {}
    <3>1. stack' = Left /\ processors' = processors
      BY <2>2, <2>4 DEF Clear
    <3>2. /\ stack' \in Seq(Frames) /\ stack' # <<>> /\ Below(1)'
          /\ Top' = Frame(<<"unlock">>, Top.obj)
      BY <1>0, <2>1, <3>1, LeftFrames DEF Next1
    <3>3. Consistent' /\ mutex'
      BY <1>0, <2>3, <3>1 DEF Consistent, Matched
    <3>4. Typed'
      BY <2>3, <3>1, <3>2 DEF Typed
    <3> QED BY <3>2, <3>3, <3>4 DEF Holding, Holder, Frame
  <2>5. CASE processors # {}
    <3>1. PICK d \in processors : /\ processors' = processors \ {d}
                                  /\ stack' = <<Frame(dtorProxy, <<"proxy", d>>)>> \o stack
      BY <2>2, <2>5 DEF Clear
    <3>2. d \in Conn /\ <<"proxy", d>> \in alive /\ <<"proxy", d>> \in Objects
      BY <1>0 DEF Consistent, Matched, Objects
    <3>3. Frame(dtorProxy, <<"proxy", d>>) \in Frames
      BY <3>2, BodyType DEF Frames, Frame
    <3>4. /\ stack' \in Seq(Frames) /\ Len(stack') = Len(stack) + 1 /\ Len(stack) \in Nat
          /\ Len(stack) >= 1 /\ stack'[1] = Frame(dtorProxy, <<"proxy", d>>)
          /\ \A i \in 2..Len(stack') : stack'[i] = stack[i - 1]
      BY <1>0, <3>1, <3>3
    <3>5. stack'[2] = stack[1] /\ Len(stack') >= 2
      BY <3>4
    <3>6. Below(2)'
      BY <1>0, <3>4 DEF Below
    <3>7. Except(d)' /\ mutex'
      BY <1>0, <2>3, <3>1 DEF Except, Consistent, Matched
    <3>8. Typed'
      BY <2>3, <3>1, <3>4 DEF Typed
    <3>9. Top' = Frame(dtorProxy, <<"proxy", d>>) /\ stack'[2].body \in Holder
      BY <1>2, <3>4, <3>5 DEF Top, Holder
    <3>10. DestroyingProxy(d)'
      BY <2>3, <3>2, <3>5, <3>6, <3>7, <3>9 DEF DestroyingProxy, Frame
    <3> QED BY <3>2, <3>8, <3>10
  <2> QED BY <2>4, <2>5
<1> QED BY <1>1, <1>2 DEF Holding, Holder

\* ~Proxy destroys the Forwarder, if there is one, before the Proxy is gone.
LEMMA DestroyingProxyStep ==
  ASSUME Typed, Step, NEW c \in Conn, DestroyingProxy(c)
  PROVE  Typed' /\ (DestroyingProxy(c)' \/ DestroyingFwd(c)' \/ Holding')
<1>0. /\ stack \in Seq(Frames) /\ stack # <<>> /\ Len(stack) >= 2 /\ Below(2) /\ mutex
      /\ stack[2].body \in Holder /\ Top.obj = <<"proxy", c>> /\ Except(c)
      /\ FwdOf(Top.obj) = <<"fwd", c>> /\ <<"fwd", c>> \in Objects
  BY DEF DestroyingProxy, Typed, FwdOf, Objects
<1>1. ASSUME NEW s, NEW b, Next1(Top.body, s, b), stack' = Left,
             UNCHANGED <<processors, mutex, running, used>>, alive' \subseteq alive
      PROVE  /\ Typed' /\ Len(stack') >= 2 /\ Below(2)' /\ mutex' /\ Top'.body = b
             /\ stack'[2].body \in Holder /\ Top'.obj = <<"proxy", c>>
  <2>1. /\ stack' \in Seq(Frames) /\ Len(stack') >= 2 /\ Below(2)'
        /\ Top' = Frame(b, <<"proxy", c>>) /\ stack'[2] = stack[2]
    BY <1>0, <1>1, LeftFrames DEF Next1
  <2>2. Typed' /\ mutex'
    BY <1>0, <1>1, <2>1 DEF Typed
  <2> QED BY <1>0, <2>1, <2>2 DEF Frame
<1>2. ASSUME UNCHANGED <<processors, alive>> PROVE Except(c)'
  BY <1>0, <1>2 DEF Except, Matched
<1>3. CASE Top.body = dtorProxy /\ Top.obj \in alive
  <2>1. Next1(Top.body, "this", <<"resetFwd", "this", "end">>)
    BY <1>3, DtorCourse
  <2>2. Continue
    BY <1>0, <1>3, <2>1, Dispatch, TouchAlive DEF Next1, This, Typed
  <2> QED BY <1>0, <1>1, <1>2, <1>3, <2>1, <2>2 DEF Continue, DestroyingProxy
<1>4. CASE Top.body = <<"resetFwd", "this", "end">> /\ Top.obj \in alive
  <2>1. Next1(Top.body, "resetFwd", dtor)
    BY <1>4, DtorCourse
  <2>2. /\ UNCHANGED <<processors, alive, mutex, running, used>>
        /\ \/ <<"fwd", c>> \in alive /\ Push(dtor, <<"fwd", c>>)
           \/ <<"fwd", c>> \notin alive /\ stack' = Left
    BY <1>0, <2>1, Dispatch DEF Next1, Calls, At
  <2>3. CASE <<"fwd", c>> \in alive /\ Push(dtor, <<"fwd", c>>)
    <3>1. /\ stack' \in Seq(Frames) /\ Len(stack') >= 3 /\ Top' = Frame(dtor, <<"fwd", c>>)
          /\ stack'[2] = Frame(dtor, <<"proxy", c>>) /\ stack'[3] = stack[2] /\ Below(3)'
      BY <1>0, <2>1, <2>3, PushFrames, BodyType DEF Next1
    <3>2. Typed' /\ mutex'
      BY <1>0, <2>2, <3>1 DEF Typed
    <3> QED BY <1>0, <1>2, <1>4, <2>2, <2>3, <3>1, <3>2 DEF DestroyingFwd, Frame
  <2>4. CASE <<"fwd", c>> \notin alive /\ stack' = Left
    BY <1>0, <1>1, <1>2, <1>4, <2>1, <2>2, <2>4 DEF DestroyingProxy
  <2> QED BY <2>2, <2>3, <2>4
<1>5. CASE Top.body = dtor /\ Top.obj \in alive /\ <<"fwd", c>> \notin alive
  <2>1. Next1(Top.body, "this", <<"end">>)
    BY <1>5, DtorCourse
  <2>2. Continue
    BY <1>0, <1>5, <2>1, Dispatch, TouchAlive DEF Next1, This, Typed
  <2> QED BY <1>0, <1>1, <1>2, <1>5, <2>1, <2>2 DEF Continue, DestroyingProxy
<1>6. CASE Top.body = <<"end">> /\ Top.obj \in alive /\ <<"fwd", c>> \notin alive
  <2>1. Next1(Top.body, "end", <<>>)
    BY <1>6, DtorCourse
  <2>2. /\ alive' = alive \ {<<"proxy", c>>} /\ stack' = Left
        /\ UNCHANGED <<processors, mutex, running, used>>
    BY <1>0, <2>1, Dispatch DEF Next1, End
  <2>3. Except(c)' /\ Consistent'
    BY <1>0, <1>6, <2>2 DEF Except, Matched, Consistent
  <2> QED BY <1>1, <2>1, <2>2, <2>3 DEF DestroyingProxy
<1>7. CASE Top.body = <<>> /\ Consistent
  <2>1. stack' = Tail(stack) /\ UNCHANGED <<processors, alive, mutex, running, used>>
    BY <1>7, Dispatch DEF Return
  <2>2. stack' \in Seq(Frames) /\ stack' # <<>> /\ Top' = stack[2] /\ Below(1)'
    BY <1>0, <2>1, PopFrames
  <2>3. Typed' /\ mutex' /\ Consistent'
    BY <1>0, <1>7, <2>1, <2>2 DEF Typed, Consistent, Matched
  <2> QED BY <1>0, <2>2, <2>3 DEF Holding
<1> QED BY <1>3, <1>4, <1>5, <1>6, <1>7 DEF DestroyingProxy

\* ~Forwarder returns to ~Proxy.
LEMMA DestroyingFwdStep ==
  ASSUME Typed, Step, NEW c \in Conn, DestroyingFwd(c)
  PROVE  Typed' /\ (DestroyingFwd(c)' \/ DestroyingProxy(c)')
<1>0. /\ stack \in Seq(Frames) /\ stack # <<>> /\ Len(stack) >= 3 /\ Below(3) /\ mutex
      /\ stack[3].body \in Holder /\ stack[2] = Frame(dtor, <<"proxy", c>>)
      /\ Top.obj = <<"fwd", c>> /\ <<"proxy", c>> \in alive /\ Except(c)
  BY DEF DestroyingFwd, Typed
<1>1. ASSUME NEW s, NEW b, Next1(Top.body, s, b), stack' = Left,
             UNCHANGED <<processors, mutex, running, used>>, alive' \subseteq alive
      PROVE  /\ Typed' /\ Len(stack') >= 3 /\ Below(3)' /\ mutex' /\ Top'.body = b
             /\ stack'[3].body \in Holder /\ Top'.obj = <<"fwd", c>> /\ stack'[2] = stack[2]
  <2>1. /\ stack' \in Seq(Frames) /\ Len(stack') >= 3 /\ Below(3)'
        /\ Top' = Frame(b, <<"fwd", c>>) /\ stack'[2] = stack[2] /\ stack'[3] = stack[3]
    <3>1. Len(stack) >= 2
      BY <1>0
    <3> QED BY <1>0, <1>1, <3>1, LeftFrames DEF Next1
  <2>2. Typed' /\ mutex'
    BY <1>0, <1>1, <2>1 DEF Typed
  <2> QED BY <1>0, <2>1, <2>2 DEF Frame
<1>2. CASE Top.body = dtor /\ Top.obj \in alive
  <2>1. Next1(Top.body, "this", <<"end">>)
    BY <1>2, DtorCourse
  <2>2. Continue
    BY <1>0, <1>2, <2>1, Dispatch, TouchAlive DEF Next1, This, Typed
  <2>3. Except(c)'
    BY <1>0, <2>2 DEF Continue, Except, Matched
  <2> QED BY <1>0, <1>1, <1>2, <2>1, <2>2, <2>3 DEF Continue, DestroyingFwd
<1>3. CASE Top.body = <<"end">> /\ Top.obj \in alive
  <2>1. Next1(Top.body, "end", <<>>)
    BY <1>3, DtorCourse
  <2>2. /\ alive' = alive \ {<<"fwd", c>>} /\ stack' = Left
        /\ UNCHANGED <<processors, mutex, running, used>>
    BY <1>0, <2>1, Dispatch DEF Next1, End
  <2>3. Except(c)' /\ <<"proxy", c>> \in alive'
    BY <1>0, <2>2 DEF Except, Matched
  <2> QED BY <1>0, <1>1, <2>1, <2>2, <2>3 DEF DestroyingFwd
<1>4. CASE Top.body = <<>> /\ Top.obj \notin alive
  <2>1. stack' = Tail(stack) /\ UNCHANGED <<processors, alive, mutex, running, used>>
    BY <1>4, Dispatch DEF Return
  <2>2. /\ stack' \in Seq(Frames) /\ Len(stack') >= 2 /\ Below(2)'
        /\ Top' = Frame(dtor, <<"proxy", c>>) /\ stack'[2] = stack[3]
    BY <1>0, <2>1, PopFrames
  <2>3. Typed' /\ mutex' /\ Except(c)'
    BY <1>0, <2>1, <2>2 DEF Typed, Except, Matched
  <2> QED BY <1>0, <1>4, <2>1, <2>2, <2>3 DEF DestroyingProxy, Frame
<1> QED BY <1>2, <1>3, <1>4 DEF DestroyingFwd

\* The finished frames return one after another.
LEMMA FinishedStep ==
  ASSUME Typed, Step, Finished
  PROVE  Typed' /\ Finished'
<1>0. stack \in Seq(Frames) /\ stack # <<>> /\ Below(0) /\ ~mutex /\ Consistent
  BY Dispatch DEF Finished, Typed
<1>1. Top.body = <<>>
  BY <1>0 DEF Below, Top
<1>2. stack' = Tail(stack) /\ UNCHANGED <<processors, alive, mutex, running, used>>
  BY <1>1, Dispatch DEF Return
<1>3. stack' \in Seq(Frames) /\ Below(0)'
  BY <1>0, <1>2, PopFrames
<1> QED BY <1>0, <1>2, <1>3 DEF Typed, Finished, Consistent, Matched

-----------------------------------------------------------------------------
\* An event finds nothing half done ...
LEMMA IdleIsFinished == ASSUME IInv, Idle PROVE Finished
<1>1. Len(stack) = 0
  BY DEF Idle
<1> QED BY <1>1 DEF IInv, Phase, Idle, Entering, EnteringAll, Holding, Dropping, DestroyingProxy, DestroyingFwd

\* ... and calls one function.
LEMMA OneFrame ==
  ASSUME NEW f \in Frames, stack' = <<f>>
  PROVE  stack' \in Seq(Frames) /\ stack' # <<>> /\ Top' = f /\ Below(1)'
  BY DEF Top, Below

\* Every step keeps the invariant.
LEMMA Inductive == ASSUME IInv, [Next]_vars PROVE IInv'
<1>0. Typed /\ Phase
  BY DEF IInv
<1>1. CASE Step
  BY <1>0, <1>1, EnteringStep, EnteringAllStep, DroppingStep, HoldingStep, DestroyingProxyStep,
     DestroyingFwdStep, FinishedStep DEF Phase, IInv
<1>2. ASSUME NEW c \in Conn, Accept(c) PROVE IInv'
  <2>1. Finished /\ stack = <<>>
    BY <1>2, IdleIsFinished DEF Accept, Idle
  <2>2. /\ processors' = processors \cup {c} /\ alive' = alive \cup {<<"proxy", c>>}
        /\ UNCHANGED <<stack, mutex, running, used>>
    BY <1>2 DEF Accept
  <2>3. Typed'
    BY <1>0, <2>2 DEF Typed, Objects
  <2>4. Finished'
    BY <2>1, <2>2 DEF Finished, Below, Consistent, Matched
  <2> QED BY <2>3, <2>4 DEF IInv, Phase
<1>3. ASSUME NEW c \in Conn, NEW kind \in {"proxy", "fwd"}, NEW b \in {onEvent, cmDrop},
             Idle, <<kind, c>> \in alive, b = cmDrop => kind = "proxy", stack' = <<Frame(b, <<kind, c>>)>>,
             UNCHANGED <<processors, alive, mutex, running, used>>
      PROVE  IInv'
  <2>1. Finished
    BY <1>3, IdleIsFinished
  <2>2. Frame(b, <<kind, c>>) \in Frames
    BY <1>3, BodyType DEF Frames, Frame, Objects
  <2>3. stack' \in Seq(Frames) /\ stack' # <<>> /\ Top' = Frame(b, <<kind, c>>) /\ Below(1)'
    BY <1>3, <2>2, OneFrame
  <2>4. Typed' /\ ~mutex' /\ Consistent'
    BY <1>0, <1>3, <2>1, <2>3 DEF Typed, Finished, Consistent, Matched
  <2>5. Entering(c, kind)'
    BY <1>3, <2>3, <2>4 DEF Entering, Frame
  <2> QED BY <2>4, <2>5 DEF IInv, Phase
<1>4. ASSUME NEW c \in Conn, Message(c) PROVE IInv'
  <2>1. CASE alive' = alive \cup {<<"fwd", c>>} /\ UNCHANGED stack
    <3>1. Finished /\ stack = <<>> /\ <<"proxy", c>> \in alive
      BY <1>4, IdleIsFinished DEF Message, Idle
    <3>2. Typed'
      BY <1>0, <1>4, <2>1 DEF Typed, Objects, Message
    <3>3. Finished'
      BY <1>4, <2>1, <3>1 DEF Finished, Below, Consistent, Matched, Message
    <3> QED BY <3>2, <3>3 DEF IInv, Phase
  <2>2. CASE stack' = <<Frame(dataRecieved, <<"proxy", c>>)>> /\ UNCHANGED alive
    BY <1>3, <1>4, <2>2 DEF Message, dataRecieved, onEvent, cmDrop
  <2> QED BY <1>4, <2>1, <2>2 DEF Message
<1>5. ASSUME NEW c \in Conn, Close(c) PROVE IInv'
  <2>1. <<"proxy", c>> \in alive
    BY <1>5, IdleIsFinished DEF Close, Finished, Consistent, Matched
  <2> QED BY <1>3, <1>5, <2>1 DEF Close
<1>6. ASSUME NEW c \in Conn, NEW kind \in {"proxy", "fwd"}, Gone(<<kind, c>>) PROVE IInv'
  BY <1>3, <1>6 DEF Gone, onEvent, cmDrop
<1>7. CASE CloseAll
  <2>1. Finished
    BY <1>7, IdleIsFinished DEF CloseAll
  <2>2. Frame(cmDropAll, <<"none">>) \in Frames
    BY BodyType DEF Frames, Frame
  <2>3. stack' \in Seq(Frames) /\ stack' # <<>> /\ Top' = Frame(cmDropAll, <<"none">>) /\ Below(1)'
    BY <1>7, <2>2, OneFrame DEF CloseAll
  <2>4. Typed' /\ ~mutex' /\ Consistent'
    BY <1>0, <1>7, <2>1, <2>3 DEF Typed, Finished, Consistent, Matched, CloseAll
  <2>5. EnteringAll'
    BY <2>3, <2>4 DEF EnteringAll, Frame
  <2> QED BY <2>4, <2>5 DEF IInv, Phase
<1>8. CASE UNCHANGED vars
  BY <1>8, <1>0 DEF vars, IInv, Typed, Phase, Finished, Entering, EnteringAll, Holding, Dropping,
     DestroyingProxy, DestroyingFwd, Consistent, Matched, Except, Below, Top
<1> QED BY <1>1, <1>2, <1>4, <1>5, <1>6, <1>7, <1>8 DEF Next

\* The invariant holds of every behaviour.
LEMMA Invariance == Spec => []IInv
<1>1. Init => IInv
  <2> SUFFICES ASSUME Init PROVE IInv
    OBVIOUS
  <2>1. stack = <<>> /\ processors = {} /\ alive = {}
    BY DEF Init
  <2>2. mutex \in BOOLEAN /\ ~mutex /\ running \in BOOLEAN /\ used = FALSE
    BY Zenon DEF Init
  <2> QED BY <2>1, <2>2 DEF IInv, Typed, Phase, Finished, Below, Consistent, Matched
<1>2. IInv /\ [Next]_vars => IInv'
  BY Inductive
<1> QED BY <1>1, <1>2, PTL DEF Spec

\* No statement touches an object after its destructor, though Proxy and Forwarder
\* are destroyed inside their own close(), for any number of connections
\* (connectionprocessor.cpp:118-129, connectionmanager.cpp:37-41).
THEOREM NothingAfterTheEndHolds == Spec => []NothingAfterTheEnd
<1>1. IInv => NothingAfterTheEnd
  BY DEF IInv, Typed, NothingAfterTheEnd
<1> QED BY <1>1, Invariance, PTL

\* No function that may run with the mutex held asks for it: the destructors call
\* neither close() nor a manager (connectionmanager.cpp:34-41,
\* connectionprocessor.cpp:131-139).
THEOREM NoSelfDeadlockHolds == Spec => []NoSelfDeadlock
<1>1. IInv => NoSelfDeadlock
  <2> SUFFICES ASSUME IInv, At("lock"), mutex PROVE FALSE
    BY DEF NoSelfDeadlock
  <2>1. Top.body # <<>> /\ Head(Top.body) = "lock" /\ stack # <<>> /\ stack \in Seq(Frames)
    BY DEF At, IInv, Typed
  <2>2. ~Finished /\ ~EnteringAll /\ \A c \in Conn, k \in {"proxy", "fwd"} : ~Entering(c, k)
    BY DEF Finished, EnteringAll, Entering
  <2>3. ~Holding
    BY <2>1, DropCourse DEF Holding, Holder, Next1
  <2>4. ASSUME NEW c \in Conn PROVE ~Dropping(c)
    BY <2>1, DropCourse DEF Dropping, Next1
  <2>5. ASSUME NEW c \in Conn PROVE ~DestroyingProxy(c) /\ ~DestroyingFwd(c)
    BY <2>1, DtorCourse DEF DestroyingProxy, DestroyingFwd, Next1
  <2> QED BY <2>2, <2>3, <2>4, <2>5 DEF IInv, Phase
<1> QED BY <1>1, Invariance, PTL

\* Between events the Proxies that exist are the registered ones, no Forwarder is
\* without its Proxy, and the mutex is free (connectionmanager.cpp:31-54).
THEOREM NoneLeaksHolds == Spec => []NoneLeaks
<1>1. IInv => NoneLeaks
  <2> SUFFICES ASSUME IInv PROVE NoneLeaks
    OBVIOUS
  <2>1. stack = <<>> => Finished
    BY IdleIsFinished DEF Idle
  <2>2. processors \subseteq Conn /\ alive \subseteq Objects
    BY DEF IInv, Typed
  <2>3. {mutex, running, used} \subseteq BOOLEAN
    BY Zenon DEF IInv, Typed
  <2>4. mutex => stack # <<>>
    BY <2>1 DEF Finished
  <2>5. stack = <<>> => Consistent
    BY <2>1 DEF Finished
  <2> QED BY <2>2, <2>3, <2>4, <2>5 DEF NoneLeaks, TypeOK, Consistent, Matched
<1> QED BY <1>1, Invariance, PTL
=============================================================================
