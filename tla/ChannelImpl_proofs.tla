------------------------- MODULE ChannelImpl_proofs -------------------------
(***************************************************************************)
(* The inductive invariant of ChannelImpl, for every number of             *)
(* instructions, every chain of registrations and every set of Channel     *)
(* objects: what the list of results and the frames that wait have to do   *)
(* with each other, and what each result has told the program.             *)
(***************************************************************************)
EXTENDS ChannelImpl, SequenceTheorems, WellFoundedInduction, TLAPS

-----------------------------------------------------------------------------
(* The invariant.                                                          *)

\* The results that were put into the list, and those that are still in it, without the
\* one that is being reported.
Pushed == {i \in 1..Len(ops) : ops[i].class # "none"}
Ahead  == {i \in Pushed : oldest # 0 /\ i >= oldest /\ i # run.op}

\* j is the result pushed next after i.
Follows(i, j) == /\ j \in Pushed /\ j > i
                 /\ \A k \in Pushed : k > i => k >= j

\* The list leads from the oldest result to the newest, through all that were pushed in
\* between; the one that is being reported is at its head.
ListInv ==
  /\ oldest = 0 <=> newest = 0
  /\ oldest # 0 => /\ oldest \in Pushed /\ newest \in Pushed
                   /\ \A i \in Pushed : i <= newest
  /\ \A i \in Pushed : oldest # 0 /\ i >= oldest =>
       IF i = newest THEN next[i] = 0 ELSE Follows(i, next[i])
  /\ run.op # 0 => run.op = oldest

Succeeded(d) == ToldAs(d, {"success", "special"})
Failed(d)    == ToldAs(d, {"error"})

\* Nobody was told of an outcome.
Unheard(d) == Succeeded(d) = {} /\ Failed(d) = {} /\ ~d.failed

\* The results that wait for their frame to be answered are at the head of the list, in
\* the order of the frames, and have no outcome; while the channel is usable they are
\* all of it.  The frame that closes the channel is the last one.
QueueInv ==
  /\ \A p, q \in Due : p < q => Frames[p].op < Frames[q].op
  /\ \A p \in Due : Frames[p].op \in Ahead /\ Unheard(ops[Frames[p].op])
  /\ \A p \in Due : \A i \in Ahead : i <= Frames[p].op => \E q \in Due : Frames[q].op = i
  /\ usable => \A i \in Ahead : \E p \in Due : Frames[p].op = i
  /\ usable => \A p \in 1..Len(Frames) : Frames[p].what # "close"
  /\ state = "closing" => \A p \in 1..Len(Frames) : Frames[p].what = "close" => p = Len(Frames)
  /\ state = "closed" => Len(Frames) = 0

\* What a result object has told, whoever reports to it next: it succeeds once, one that
\* could not be sent has said so, and only the classes that have a callback of their own
\* use its slot.
Sound(d) ==
  /\ \A j, k \in Succeeded(d) : j = k
  /\ d.failed /\ d.cb["error"] # 0 /\ d.class # "Get" => Failed(d) # {}
  /\ d.cb["special"] # 0 => d.class \in {"Queue", "Delete", "Cancel", "Consumer", "Get"}
  /\ d.class = "none" => d.cb["error"] = 0 /\ Succeeded(d) = {}

\* It has one outcome.
Single(d) == Succeeded(d) # {} => Failed(d) = {}

\* The program listens, could be told, and was not.
Untold(d) == /\ d.cb["error"] # 0 /\ (d.cb["success"] # 0 \/ d.cb["special"] # 0)
             /\ ~(d.class = "Get" /\ d.failed)
             /\ Succeeded(d) = {} /\ Failed(d) = {}

\* Who has not been told is still in the list, and none is once the errors of a closed
\* channel are reported.
OutcomeInv ==
  /\ \A i \in Ahead : Succeeded(ops[i]) = {}
  /\ \A i \in 1..Len(ops) : Untold(ops[i]) => i \in Ahead
  /\ state = "closed" => \/ run.what \in {"closed", "error"}
                         \/ \A i \in 1..Len(ops) : ~Untold(ops[i])

\* A report has a result unless it is that of the channel itself.
Fits(r) == r.op = 0 <=> r.what \in {"idle", "ready"}

\* The connection fails once, and takes every instruction with it.  The report that it
\* interrupts goes on afterwards, along results that were told of the failure: all that
\* follow the one it reports, none of which succeeds any more.
FailInv ==
  /\ connection = "up" => struck = 0
  /\ connection # "up" => state = "closed"
  /\ connection # "up" /\ struck # 0 =>
       \A i \in 1..Len(ops) : i > struck => Succeeded(ops[i]) = {}
  /\ connection = "failing" => run.what = "error" /\ under.op = struck /\ Fits(under)
  /\ connection # "failing" => under = Idle
  /\ connection = "failed" /\ run.op # 0 => struck # 0 /\ run.op >= struck

ChannelInv ==
  /\ TypeOK
  /\ \A i \in 1..Len(ops) : Sound(ops[i])
  /\ \A i \in 1..Len(ops) : i # struck => Single(ops[i])
  /\ \A i \in 1..Len(ops) : next[i] # 0 => next[i] > i
  /\ run.what \in {"closed", "error"} => state = "closed"
  /\ Fits(run)
  /\ FailInv
  /\ alive /\ connection # "failed" => ListInv /\ OutcomeInv
  /\ alive /\ connection = "failed" => \A i \in 1..Len(ops) : ~Untold(ops[i])
  /\ alive /\ attached => QueueInv

-----------------------------------------------------------------------------
(* Result objects.                                                         *)

\* The fields of a result object have their types.
LEMMA ResultFields ==
  ASSUME NEW d \in Result
  PROVE  /\ d.class \in Classes \cup {"none"} /\ d.failed \in BOOLEAN
         /\ d.cb \in [Slots -> Nat] /\ d.told \in Seq(Slots \X Nat)
         /\ \A s \in Slots : d.cb[s] \in Nat
  BY DEF Result

\* Calling a callback adds to what the program was told, if it is set.
LEMMA CallResult ==
  ASSUME NEW d \in Result, NEW slot \in Slots
  PROVE  /\ Call(d, slot) \in Result
         /\ Call(d, slot).class = d.class /\ Call(d, slot).failed = d.failed
         /\ Call(d, slot).cb = d.cb
         /\ \A S : ToldAs(Call(d, slot), S)
                     = IF d.cb[slot] # 0 /\ slot \in S
                       THEN ToldAs(d, S) \cup {Len(d.told) + 1} ELSE ToldAs(d, S)
<1> DEFINE new == Append(d.told, <<slot, d.cb[slot]>>)
           e   == [d EXCEPT !.told = new]
<1>1. d.told \in Seq(Slots \X Nat) /\ <<slot, d.cb[slot]>> \in Slots \X Nat
  BY ResultFields
<1>2. /\ new \in Seq(Slots \X Nat) /\ Len(new) = Len(d.told) + 1
      /\ \A k \in 1..Len(d.told) : new[k] = d.told[k]
      /\ new[Len(d.told) + 1] = <<slot, d.cb[slot]>> /\ Len(d.told) \in Nat
  BY <1>1, AppendProperties
<1> HIDE DEF new
<1>3. e \in Result /\ e.class = d.class /\ e.failed = d.failed /\ e.cb = d.cb /\ e.told = new
  BY <1>2 DEF Result
<1>4. \A S : slot \in S => ToldAs(e, S) = ToldAs(d, S) \cup {Len(d.told) + 1}
  BY <1>2, <1>3, SMTT(30) DEF ToldAs
<1>5. \A S : slot \notin S => ToldAs(e, S) = ToldAs(d, S)
  BY <1>2, <1>3, SMTT(30) DEF ToldAs
<1>6. Call(d, slot) = IF d.cb[slot] = 0 THEN d ELSE e
  BY DEF Call, new
<1> HIDE DEF e
<1>7. CASE d.cb[slot] = 0
  BY <1>6, <1>7
<1>8. CASE d.cb[slot] # 0
  BY <1>3, <1>4, <1>5, <1>6, <1>8
<1> QED BY <1>7, <1>8

\* Storing a callback tells nothing.
LEMMA StoreResult ==
  ASSUME NEW d \in Result, NEW slot \in Slots, NEW n \in Nat
  PROVE  /\ Store(d, slot, n) \in Result
         /\ Store(d, slot, n).class = d.class /\ Store(d, slot, n).failed = d.failed
         /\ Store(d, slot, n).cb = [d.cb EXCEPT ![slot] = n]
         /\ Store(d, slot, n).told = d.told
         /\ \A S : ToldAs(Store(d, slot, n), S) = ToldAs(d, S)
<1> DEFINE f == [d.cb EXCEPT ![slot] = n]
           e == [d EXCEPT !.cb = f]
<1>1. f \in [Slots -> Nat]
  BY ResultFields
<1>2. Store(d, slot, n) = e
  BY DEF Store
<1> HIDE DEF f
<1>3. e \in Result /\ e.class = d.class /\ e.failed = d.failed /\ e.cb = f /\ e.told = d.told
  BY <1>1 DEF Result
<1> HIDE DEF e
<1> QED BY <1>2, <1>3 DEF ToldAs, f

\* What a result has told before anyone reports to it, with the callbacks it has.
Fresh(d, class, failed) ==
  /\ d \in Result /\ d.class = class /\ d.failed = failed
  /\ Succeeded(d) = {}
  /\ ~failed => d.told = <<>>
  /\ failed /\ d.cb["error"] # 0 /\ class # "Get" => Failed(d) # {}
  /\ d.cb["special"] # 0 => class \in {"Queue", "Delete", "Cancel", "Consumer", "Get"}

\* A result that is made has no callbacks.
LEMMA MakeFresh ==
  ASSUME NEW class \in Classes \cup {"none"}, NEW failed \in BOOLEAN
  PROVE  /\ Fresh(Make(class, failed), class, failed)
         /\ \A s \in Slots : Make(class, failed).cb[s] = 0
<1> DEFINE d == Make(class, failed)
<1>1. d \in Result /\ d.class = class /\ d.failed = failed /\ d.told = <<>>
      /\ \A s \in Slots : d.cb[s] = 0
  BY DEF Make, Result, Slots
<1> HIDE DEF d
<1>2. Succeeded(d) = {}
  BY <1>1 DEF Succeeded, ToldAs
<1>3. d.cb["error"] = 0 /\ d.cb["special"] = 0
  BY <1>1 DEF Slots
<1> QED BY <1>1, <1>2, <1>3 DEF Fresh, d

\* A registration that only stores the callback.
LEMMA StoreFresh ==
  ASSUME NEW d, NEW class, NEW failed, Fresh(d, class, failed), NEW slot \in Slots, NEW n \in Nat,
         slot = "special" => class \in {"Queue", "Delete", "Cancel", "Consumer", "Get"},
         slot = "error" => ~failed \/ class = "Get"
  PROVE  Fresh(Store(d, slot, n), class, failed)
<1> DEFINE e == Store(d, slot, n)
<1>1. d \in Result
  BY DEF Fresh
<1>2. /\ e \in Result /\ e.class = d.class /\ e.failed = d.failed /\ e.told = d.told
      /\ e.cb = [d.cb EXCEPT ![slot] = n]
      /\ Succeeded(e) = Succeeded(d) /\ Failed(e) = Failed(d)
  BY <1>1, StoreResult DEF Succeeded, Failed
<1> HIDE DEF e
<1>3. /\ slot # "error" => e.cb["error"] = d.cb["error"]
      /\ slot # "special" => e.cb["special"] = d.cb["special"]
  BY <1>1, <1>2, ResultFields DEF Slots
<1> QED BY <1>2, <1>3 DEF Fresh, e

\* Registering a callback keeps a result that nobody has reported to as it should be: one
\* that has failed calls its error callback at once, but for get() (deferred.h:255-265).
LEMMA RegisterFresh ==
  ASSUME NEW d, NEW class, NEW failed \in BOOLEAN, Fresh(d, class, failed), NEW method,
         NEW n \in Nat \ {0}
  PROVE  Fresh(Register(d, method, n), class, failed)
<1>1. d \in Result /\ d.class = class /\ d.failed = failed /\ n \in Nat /\ n # 0
  BY DEF Fresh
<1>2. Fresh(Store(d, "success", n), class, failed)
  BY <1>1, StoreFresh DEF Slots
<1>3. class \in {"Queue", "Delete", "Cancel", "Consumer", "Get"} =>
        Fresh(Store(d, "special", n), class, failed)
  BY <1>1, StoreFresh DEF Slots
<1>4. class = "Get" \/ ~failed => Fresh(Store(d, "error", n), class, failed)
  BY <1>1, StoreFresh DEF Slots
<1>5. Fresh(Store(d, "finalize", n), class, failed)
  BY <1>1, StoreFresh DEF Slots
<1>6. Fresh(onError(d, n), class, failed)
  <2>1. CASE ~failed
    BY <2>1, <1>1, <1>4 DEF onError
  <2>2. CASE failed
    <3> DEFINE e == Store(d, "error", n)
               f == Call(e, "error")
    <3>1. onError(d, n) = f
      BY <1>1, <2>2 DEF onError
    <3>2. /\ e \in Result /\ e.class = class /\ e.failed = failed
          /\ e.cb = [d.cb EXCEPT !["error"] = n] /\ Succeeded(e) = Succeeded(d)
      BY <1>1, StoreResult DEF Slots, Succeeded
    <3>3. e.cb["error"] # 0 /\ e.cb["special"] = d.cb["special"]
      BY <1>1, <3>2, ResultFields DEF Slots
    <3> HIDE DEF e
    <3>4. "error" \in Slots /\ "error" \notin {"success", "special"} /\ "error" \in {"error"}
      BY DEF Slots
    <3>5. /\ f \in Result /\ f.class = e.class /\ f.failed = e.failed /\ f.cb = e.cb
          /\ Succeeded(f) = Succeeded(e) /\ Failed(f) # {}
      <4>1. /\ f \in Result /\ f.class = e.class /\ f.failed = e.failed /\ f.cb = e.cb
            /\ ToldAs(f, {"success", "special"}) = ToldAs(e, {"success", "special"})
        BY <3>2, <3>4, CallResult
      <4>2. ToldAs(f, {"error"}) = ToldAs(e, {"error"}) \cup {Len(e.told) + 1}
        BY <3>2, <3>3, <3>4, CallResult
      <4> QED BY <4>1, <4>2 DEF Succeeded, Failed
    <3> HIDE DEF f
    <3> QED BY <2>2, <3>1, <3>2, <3>3, <3>5 DEF Fresh
  <2> QED BY <2>1, <2>2
<1>7. Fresh(onFinalize(d, n), class, failed)
  <2>1. CASE ~failed
    BY <2>1, <1>1, <1>5 DEF onFinalize
  <2>2. CASE failed
    <3> DEFINE e == Store(d, "finalize", n)
               f == Call(e, "finalize")
    <3>1. onFinalize(d, n) = f
      BY <1>1, <2>2 DEF onFinalize
    <3>2. Fresh(e, class, failed)
      BY <1>5
    <3> HIDE DEF e
    <3>3. "finalize" \in Slots /\ "finalize" \notin {"success", "special"}
          /\ "finalize" \notin {"error"}
      BY DEF Slots
    <3>4. /\ f \in Result /\ f.class = e.class /\ f.failed = e.failed /\ f.cb = e.cb
          /\ Succeeded(f) = Succeeded(e) /\ Failed(f) = Failed(e)
      BY <3>2, <3>3, CallResult DEF Fresh, Succeeded, Failed
    <3> HIDE DEF f
    <3> QED BY <2>2, <3>1, <3>2, <3>4 DEF Fresh
  <2> QED BY <2>1, <2>2
<1> QED BY <1>1, <1>2, <1>3, <1>4, <1>6, <1>7
        DEF Register, onSuccess, getOnError, queueOnSuccess, deleteOnSuccess, cancelOnSuccess,
            consumerOnSuccess, getOnSuccess, confirmOnSuccess

-----------------------------------------------------------------------------
(* Chains of registrations.                                                *)

\* A set of numbers has a least one.
LEMMA NatMin ==
  ASSUME NEW T \in SUBSET Nat, T # {}
  PROVE  \E x \in T : \A y \in T : x <= y
<1> DEFINE R == OpToRel(<, Nat)
<1>1. \E x \in T : \A y \in T : ~(<<y, x>> \in R)
  BY NatLessThanWellFounded, WFMin
<1>2. \A x, y \in Nat : y < x => <<y, x>> \in R
  BY DEF OpToRel
<1> HIDE DEF R
<1>3. PICK x \in T : \A y \in T : <<y, x>> \notin R
  BY <1>1
<1>4. ASSUME NEW y \in T PROVE x <= y
  <2>1. x \in Nat /\ y \in Nat /\ <<y, x>> \notin R
    BY <1>3
  <2>2. ~(y < x)
    BY <1>2, <2>1
  <2> QED BY <2>1, <2>2
<1> QED BY <1>4

\* g has the results of a chain, after each of its first n methods.
IsChain(g, d, methods, n) ==
  g = [i \in 0..n |-> IF i = 0 THEN d ELSE Register(g[i - 1], methods[i], i)]

\* There is such a function for every length: the shortest chain without one would be one
\* method longer than a chain that has one.
LEMMA ChainExists ==
  ASSUME NEW d, NEW methods PROVE \A n \in Nat : \E g : IsChain(g, d, methods, n)
<1> DEFINE T == {n \in Nat : ~\E g : IsChain(g, d, methods, n)}
<1> SUFFICES ASSUME T # {} PROVE FALSE
  OBVIOUS
<1>1. PICK n \in T : \A y \in T : n <= y
  BY NatMin
<1>2. n # 0
  <2> DEFINE g == [i \in 0..0 |-> d]
  <2>1. g = [i \in 0..0 |-> IF i = 0 THEN d ELSE Register(g[i - 1], methods[i], i)]
    OBVIOUS
  <2> QED BY <2>1 DEF IsChain
<1>3. n - 1 \in Nat /\ n - 1 \notin T
  BY <1>1, <1>2
<1>4. PICK g : g = [i \in 0..(n - 1) |-> IF i = 0 THEN d ELSE Register(g[i - 1], methods[i], i)]
  BY <1>3 DEF IsChain
<1> DEFINE h == [i \in 0..n |-> IF i = n THEN Register(g[n - 1], methods[n], n) ELSE g[i]]
<1>5. ASSUME NEW i \in 0..n PROVE h[i] = IF i = 0 THEN d ELSE Register(h[i - 1], methods[i], i)
  <2>1. CASE i = n
    BY <2>1, <1>2
  <2>2. CASE i # n
    BY <2>2, <1>4, <1>2
  <2> QED BY <2>1, <2>2
<1>6. h = [i \in 0..n |-> IF i = 0 THEN d ELSE Register(h[i - 1], methods[i], i)]
  BY <1>5
<1> QED BY <1>6 DEF IsChain

\* The methods that are called on the result of an instruction, before anyone reports to
\* it, leave it as it should be.
LEMMA ChainedFresh ==
  ASSUME NEW d, NEW class, NEW failed \in BOOLEAN, Fresh(d, class, failed), NEW methods,
         Len(methods) \in Nat
  PROVE  Fresh(Chained(d, methods), class, failed)
<1> DEFINE N == Len(methods)
<1>1. PICK g : IsChain(g, d, methods, N) /\ Chained(d, methods) = g[N]
  <2>1. \E g : IsChain(g, d, methods, N)
    BY ChainExists
  <2> QED BY <2>1 DEF IsChain, Chained
<1>2. \A i \in 0..N : g[i] = IF i = 0 THEN d ELSE Register(g[i - 1], methods[i], i)
  BY <1>1 DEF IsChain
<1> HIDE DEF N
<1>3. N \in Nat
  BY DEF N
<1> DEFINE T == {i \in 0..N : ~Fresh(g[i], class, failed)}
<1>4. T = {}
  <2> SUFFICES ASSUME T # {} PROVE FALSE
    OBVIOUS
  <2>1. PICK i \in T : \A y \in T : i <= y
    <3>1. T \in SUBSET Nat
      BY <1>3
    <3> HIDE DEF T
    <3> QED BY <3>1, NatMin
  <2>2. i # 0
    BY <1>2, <1>3
  <2>3. i - 1 \in 0..N /\ i - 1 \notin T /\ i \in Nat \ {0}
    BY <1>3, <2>1, <2>2
  <2>4. Fresh(g[i - 1], class, failed)
    BY <2>3
  <2>5. Fresh(Register(g[i - 1], methods[i], i), class, failed)
    BY <2>3, <2>4, RegisterFresh
  <2> QED BY <1>2, <2>2, <2>5
<1> QED BY <1>1, <1>3, <1>4

-----------------------------------------------------------------------------
(* Reports to results.                                                     *)

\* A result that nobody has reported to is as it should be.
LEMMA FreshSound ==
  ASSUME NEW d, NEW class \in Classes, NEW failed \in BOOLEAN, Fresh(d, class, failed)
  PROVE  /\ Sound(d) /\ Single(d) /\ d \in Result /\ d.class = class /\ d.class # "none"
         /\ failed => ~Untold(d)
         /\ ~failed => Unheard(d)
         /\ Succeeded(d) = {}
<1>1. /\ Sound(d) /\ Single(d) /\ d \in Result /\ d.class = class /\ d.class # "none"
      /\ failed => ~Untold(d)
      /\ Succeeded(d) = {}
  BY DEF Fresh, Sound, Single, Untold, Classes
<1>2. ~failed => d.told = <<>> /\ ~d.failed
  BY DEF Fresh
<1>3. d.told = <<>> => Failed(d) = {}
  BY DEF Failed, ToldAs
<1> QED BY <1>1, <1>2, <1>3 DEF Unheard

\* ~Deferred tells neither success nor failure.
LEMMA ForgottenResult ==
  ASSUME NEW d \in Result
  PROVE  /\ Forgotten(d) \in Result /\ Forgotten(d).class = d.class
         /\ Forgotten(d).failed = d.failed /\ Forgotten(d).cb = d.cb
         /\ Succeeded(Forgotten(d)) = Succeeded(d) /\ Failed(Forgotten(d)) = Failed(d)
         /\ Sound(d) => Sound(Forgotten(d))
         /\ Single(d) => Single(Forgotten(d))
         /\ Unheard(d) => Unheard(Forgotten(d))
         /\ Untold(Forgotten(d)) => Untold(d)
<1> DEFINE e == Forgotten(d)
<1>1. "finalize" \in Slots /\ "finalize" \notin {"success", "special"} /\ "finalize" \notin {"error"}
  BY DEF Slots
<1>2. /\ e \in Result /\ e.class = d.class /\ e.failed = d.failed /\ e.cb = d.cb
      /\ Succeeded(e) = Succeeded(d) /\ Failed(e) = Failed(d)
  BY <1>1, CallResult DEF Forgotten, Succeeded, Failed
<1> HIDE DEF e
<1>3. (Sound(d) => Sound(e)) /\ (Untold(e) => Untold(d))
  BY <1>2 DEF Sound, Untold
<1>4. (Single(d) => Single(e)) /\ (Unheard(d) => Unheard(e))
  BY <1>2 DEF Single, Unheard
<1> QED BY <1>2, <1>3, <1>4 DEF e

\* reportError tells the failure, if anyone listens.
LEMMA ErrorResult ==
  ASSUME NEW d \in Result, Sound(d)
  PROVE  /\ reportError(d) \in Result /\ reportError(d).class = d.class
         /\ Sound(reportError(d)) /\ ~Untold(reportError(d))
         /\ Succeeded(d) = {} => Succeeded(reportError(d)) = {} /\ Single(reportError(d))
<1> DEFINE c == [d EXCEPT !.failed = TRUE]
           e == reportError(d)
<1>1. c \in Result /\ c.class = d.class /\ c.failed = TRUE /\ c.cb = d.cb /\ c.told = d.told
  BY DEF Result
<1> HIDE DEF c
<1>2. "error" \in Slots /\ "error" \notin {"success", "special"} /\ "error" \in {"error"}
  BY DEF Slots
<1>3. e = Call(c, "error")
  BY DEF reportError, c
<1> HIDE DEF e
<1>4. /\ e \in Result /\ e.class = d.class /\ e.failed = TRUE /\ e.cb = d.cb
      /\ ToldAs(e, {"success", "special"}) = ToldAs(d, {"success", "special"})
  <2>1. /\ e \in Result /\ e.class = c.class /\ e.failed = c.failed /\ e.cb = c.cb
        /\ ToldAs(e, {"success", "special"}) = ToldAs(c, {"success", "special"})
    BY <1>1, <1>2, <1>3, CallResult
  <2>2. ToldAs(c, {"success", "special"}) = ToldAs(d, {"success", "special"})
    BY <1>1 DEF ToldAs
  <2> QED BY <1>1, <2>1, <2>2
<1>5. d.cb["error"] # 0 => Failed(e) # {}
  <2>1. d.cb["error"] # 0 => ToldAs(e, {"error"}) = ToldAs(c, {"error"}) \cup {Len(c.told) + 1}
    BY <1>1, <1>2, <1>3, CallResult
  <2> QED BY <2>1 DEF Failed
<1>6. Succeeded(e) = Succeeded(d)
  BY <1>4 DEF Succeeded
<1>7. Sound(e) /\ ~Untold(e)
  BY <1>4, <1>5, <1>6 DEF Sound, Untold
<1> QED BY <1>4, <1>6, <1>7 DEF Single, e

\* An answer tells the success, once, through the callback that fits.
LEMMA AnsweredResult ==
  ASSUME NEW d \in Result, Sound(d), d.class # "none", Unheard(d)
  PROVE  /\ Answered(d) \in Result /\ Answered(d).class = d.class
         /\ Sound(Answered(d)) /\ Single(Answered(d)) /\ ~Untold(Answered(d))
<1> DEFINE Special == {"Queue", "Delete", "Cancel", "Consumer", "Get"}
           slot    == IF d.class \in Special /\ d.cb["special"] # 0 THEN "special" ELSE "success"
           e       == Answered(d)
<1>1. e = Call(d, slot)
  BY DEF Answered, reportQueue, reportDelete, reportTagged, reportSuccess
<1>2. slot \in Slots /\ slot \in {"success", "special"} /\ slot \notin {"error"}
  BY DEF Slots
<1>3. ToldAs(d, {"error"}) = {} /\ ToldAs(d, {"success", "special"}) = {} /\ ~d.failed
  BY DEF Unheard, Succeeded, Failed
<1>4. ~(d.cb[slot] # 0) => d.cb["success"] = 0 /\ d.cb["special"] = 0
  BY DEF Sound
<1> HIDE DEF e, slot
<1>5. /\ e \in Result /\ e.class = d.class /\ e.failed = d.failed /\ e.cb = d.cb
      /\ ToldAs(e, {"error"}) = {}
  BY <1>1, <1>2, <1>3, CallResult
<1>6. ToldAs(e, {"success", "special"}) = IF d.cb[slot] # 0 THEN {Len(d.told) + 1} ELSE {}
  BY <1>1, <1>2, <1>3, CallResult
<1>7. Failed(e) = {} /\ (\A j, k \in Succeeded(e) : j = k)
      /\ (d.cb[slot] # 0 => Succeeded(e) # {})
  BY <1>5, <1>6 DEF Failed, Succeeded
<1>8. Sound(e) /\ Single(e)
  BY <1>3, <1>5, <1>7 DEF Sound, Single
<1>9. ~Untold(e)
  BY <1>4, <1>5, <1>7 DEF Untold
<1> QED BY <1>5, <1>8, <1>9 DEF e

-----------------------------------------------------------------------------
(* Frames that wait.                                                       *)

\* A frame that is put at the end of the queue is the last one.
LEMMA AppendBehind ==
  ASSUME NEW S, NEW w \in Seq(S), NEW q \in Seq(S), NEW f \in S
  PROVE  w \o Append(q, f) = Append(w \o q, f)
<1>1. Append(q, f) = q \o <<f>> /\ Append(w \o q, f) = (w \o q) \o <<f>>
  BY AppendIsConcat, ConcatProperties
<1>2. <<f>> \in Seq(S)
  OBVIOUS
<1> QED BY <1>1, <1>2, ConcatAssociative

\* A queue is what is taken off its head and what is left.
LEMMA SplitQueue ==
  ASSUME NEW S, NEW q \in Seq(S), NEW n \in 0..Len(q)
  PROVE  /\ SubSeq(q, 1, n) \in Seq(S) /\ SubSeq(q, n + 1, Len(q)) \in Seq(S)
         /\ SubSeq(q, 1, n) \o SubSeq(q, n + 1, Len(q)) = q
<1>1. Len(q) \in Nat /\ \A i \in 1..Len(q) : q[i] \in S
  OBVIOUS
<1>2. SubSeq(q, 1, n) \in Seq(S) /\ SubSeq(q, n + 1, Len(q)) \in Seq(S)
  BY <1>1, SubSeqProperties
<1>3. SubSeq(q, 1, n) \o SubSeq(q, n + 1, Len(q)) = SubSeq(q, 1, Len(q))
  <2>1. 1 \in 1..(Len(q) + 1) /\ n \in (1 - 1)..Len(q) /\ Len(q) \in n..Len(q)
    BY <1>1
  <2> QED BY <2>1, ConcatAdjacentSubSeq
<1> QED BY <1>2, <1>3, SubSeqFull

\* The frames, as a sequence.
LEMMA FramesTyped ==
  ASSUME TypeOK PROVE Frames \in Seq(Frame) /\ Len(Frames) \in Nat
  BY ConcatProperties DEF TypeOK, Frames

\* send puts a frame behind the others, wherever that is, on a channel that is usable and
\* attached, and only pretends otherwise.
LEMMA SendFrames ==
  ASSUME TypeOK, MaxOps \in Nat, NEW what \in {"open", "call", "close", "send"},
         NEW op \in 0..(MaxOps + 1), send(what, op)
  PROVE  /\ queue' \in Seq(Frame) /\ wire' \in Seq(Frame) /\ synchronous' \in BOOLEAN
         /\ usable /\ attached => Frames' = Append(Frames, [op |-> op, what |-> what])
         /\ ~(usable /\ attached) => Frames' = Frames
<1> DEFINE f == [op |-> op, what |-> what]
<1>1. f \in Frame /\ wire \in Seq(Frame) /\ queue \in Seq(Frame) /\ synchronous \in BOOLEAN
  BY DEF Frame, TypeOK
<1>2. CASE ~(usable /\ attached)
  BY <1>1, <1>2 DEF send, Frames
<1>3. CASE usable /\ attached /\ waiting
  <2>1. queue' = Append(queue, f) /\ wire' = wire /\ synchronous' = synchronous
    BY <1>3 DEF send
  <2> HIDE DEF f
  <2>2. wire \o Append(queue, f) = Append(wire \o queue, f)
    BY <1>1, AppendBehind
  <2> QED BY <1>1, <1>3, <2>1, <2>2, AppendProperties DEF Frames, f
<1>4. CASE usable /\ attached /\ ~waiting
  <2>1. queue' = queue /\ wire' = Append(wire, f) /\ synchronous' = (what # "send") /\ queue = <<>>
    BY <1>4 DEF send, waiting
  <2> HIDE DEF f
  <2>2. wire' \in Seq(Frame)
    BY <1>1, <2>1, AppendProperties
  <2>3. Append(wire, f) \o <<>> = Append(wire \o <<>>, f)
    <3>1. wire \o <<>> = wire
      BY <1>1, ConcatEmptySeq
    <3> QED BY <3>1, <2>1, <2>2, ConcatEmptySeq
  <2> QED BY <1>1, <1>4, <2>1, <2>2, <2>3 DEF Frames, f
<1> QED BY <1>2, <1>3, <1>4

\* The broker answers the first frame.
LEMMA AnswerFrames ==
  ASSUME TypeOK, NEW what, Answer(what), queue' = queue
  PROVE  /\ wire' \in Seq(Frame) /\ Len(Frames) > 0 /\ Frames[1].what = what
         /\ Len(Frames') = Len(Frames) - 1
         /\ \A p \in 1..Len(Frames') : Frames'[p] = Frames[p + 1]
<1>1. wire \in Seq(Frame) /\ queue \in Seq(Frame) /\ wire # <<>> /\ wire' = Tail(wire)
      /\ wire[1].what = what
  BY DEF TypeOK, Answer
<1>2. /\ wire' \in Seq(Frame) /\ Len(wire') = Len(wire) - 1 /\ Len(wire) \in Nat \ {0}
      /\ \A i \in 1..Len(wire') : wire'[i] = wire[i + 1] /\ Len(queue) \in Nat
  BY <1>1, HeadTailProperties
<1>3. /\ Len(Frames) = Len(wire) + Len(queue)
      /\ \A i \in 1..(Len(wire) + Len(queue)) :
           Frames[i] = IF i <= Len(wire) THEN wire[i] ELSE queue[i - Len(wire)]
  BY <1>1, ConcatProperties DEF Frames
<1>4. /\ Len(Frames') = Len(wire') + Len(queue)
      /\ \A i \in 1..(Len(wire') + Len(queue)) :
           Frames'[i] = IF i <= Len(wire') THEN wire'[i] ELSE queue[i - Len(wire')]
  BY <1>1, <1>2, ConcatProperties DEF Frames
<1>5. Len(queue) \in Nat
  BY <1>1
<1>6. ASSUME NEW p \in 1..Len(Frames') PROVE Frames'[p] = Frames[p + 1]
  <2>1. p \in 1..(Len(wire') + Len(queue)) /\ p + 1 \in 1..(Len(wire) + Len(queue))
    BY <1>2, <1>3, <1>4, <1>5
  <2>2. CASE p <= Len(wire')
    BY <1>2, <1>3, <1>4, <2>1, <2>2
  <2>3. CASE ~(p <= Len(wire'))
    <3>1. ~(p + 1 <= Len(wire)) /\ (p + 1) - Len(wire) = p - Len(wire')
      BY <1>2, <2>1, <2>3
    <3> QED BY <1>3, <1>4, <2>1, <2>3, <3>1
  <2> QED BY <2>2, <2>3
<1>7. Len(Frames) > 0 /\ Frames[1].what = what /\ Len(Frames') = Len(Frames) - 1
  BY <1>1, <1>2, <1>3, <1>4, <1>5
<1> QED BY <1>2, <1>6, <1>7

\* onSynchronized moves frames to the wire, and changes none.
LEMMA SyncFrames ==
  ASSUME TypeOK, onSynchronized
  PROVE  /\ queue' \in Seq(Frame) /\ wire' \in Seq(Frame) /\ synchronous' \in BOOLEAN
         /\ Frames' = Frames
<1>1. wire \in Seq(Frame) /\ queue \in Seq(Frame) /\ synchronous \in BOOLEAN
  BY DEF TypeOK
<1>2. Sent(queue) \in 0..Len(queue)
  <2>1. CASE Calls(queue) = {}
    BY <1>1, <2>1 DEF Sent
  <2>2. CASE Calls(queue) # {}
    <3>1. Calls(queue) \in SUBSET Nat /\ Calls(queue) \subseteq 1..Len(queue)
      BY <1>1 DEF Calls
    <3>2. \E i \in Calls(queue) : \A j \in Calls(queue) : i <= j
      BY <2>2, <3>1, NatMin
    <3>3. Sent(queue) \in Calls(queue)
      BY <2>2, <3>2 DEF Sent
    <3> QED BY <1>1, <3>1, <3>3
  <2> QED BY <2>1, <2>2
<1>3. CASE attached /\ state # "closed"
  <2>1. /\ wire' = wire \o SubSeq(queue, 1, Sent(queue))
        /\ queue' = SubSeq(queue, Sent(queue) + 1, Len(queue))
        /\ synchronous' \in BOOLEAN
    BY <1>3 DEF onSynchronized
  <2> DEFINE n == Sent(queue)
             a == SubSeq(queue, 1, n)
             b == SubSeq(queue, n + 1, Len(queue))
  <2>2. a \in Seq(Frame) /\ b \in Seq(Frame) /\ a \o b = queue
    BY <1>1, <1>2, SplitQueue
  <2>3. wire' = wire \o a /\ queue' = b
    BY <2>1
  <2> HIDE DEF a, b
  <2>4. wire \o a \in Seq(Frame)
    BY <1>1, <2>2, ConcatProperties
  <2>5. a \in Seq(Frame) /\ b \in Seq(Frame)
    BY <2>2
  <2>6. (wire \o a) \o b = wire \o (a \o b)
    BY <1>1, <2>5, ConcatAssociative, SMTT(30)
  <2>7. wire' \o queue' = wire \o queue
    BY <2>2, <2>3, <2>6
  <2> QED BY <2>1, <2>3, <2>4, <2>5, <2>7 DEF Frames
<1>4. CASE ~(attached /\ state # "closed")
  BY <1>1, <1>4 DEF onSynchronized, Frames
<1> QED BY <1>3, <1>4

-----------------------------------------------------------------------------
(* The list of results.                                                    *)

\* Reports change what results have told, and not which are in the list.
LEMMA PushedSame ==
  ASSUME Len(ops') = Len(ops), \A i \in 1..Len(ops) : ops'[i].class = ops[i].class
  PROVE  Pushed' = Pushed
  BY DEF Pushed

\* The types of the list.
LEMMA ListTyped ==
  ASSUME TypeOK
  PROVE  /\ Len(ops) \in Nat /\ oldest \in Nat /\ newest \in Nat /\ run.op \in Nat
         /\ run.op <= Len(ops) /\ oldest <= Len(ops) /\ newest <= Len(ops)
         /\ Pushed \subseteq 1..Len(ops)
         /\ \A i \in 1..Len(ops) : ops[i] \in Result /\ next[i] \in 0..Len(ops)
  BY DEF TypeOK, Reports, Pushed

\* push puts a result at the end of the list, also while the head is being reported.
LEMMA PushList ==
  ASSUME TypeOK, ListInv, Len(ops') = Len(ops) + 1,
         \A i \in 1..Len(ops) : ops'[i].class = ops[i].class,
         ops'[Len(ops) + 1].class # "none", push(Len(ops) + 1), run' = run
  PROVE  /\ ListInv' /\ Pushed' = Pushed \cup {Len(ops) + 1}
         /\ Ahead' = Ahead \cup {Len(ops) + 1}
<1> DEFINE op == Len(ops) + 1
<1>1. /\ Len(ops) \in Nat /\ oldest \in Nat /\ newest \in Nat /\ run.op \in Nat
      /\ run.op <= Len(ops) /\ oldest <= Len(ops) /\ newest <= Len(ops)
      /\ Pushed \subseteq 1..Len(ops) /\ \A i \in 1..Len(ops) : next[i] \in 0..Len(ops)
  BY ListTyped
<1>2. /\ Len(ops') = op /\ \A i \in 1..Len(ops) : ops'[i].class = ops[i].class
      /\ ops'[op].class # "none"
  OBVIOUS
<1>3. Pushed' = Pushed \cup {op}
  BY <1>1, <1>2 DEF Pushed
<1>4. /\ oldest' = (IF oldest = 0 THEN op ELSE oldest) /\ newest' = op
      /\ next' = [i \in 1..op |-> IF i = op THEN 0 ELSE IF i = newest THEN op ELSE next[i]]
  BY DEF push
<1> HIDE DEF op
<1>5. op = Len(ops) + 1
  BY DEF op
<1>6. Ahead' = Ahead \cup {op}
  <2>1. CASE oldest = 0
    <3>1. Ahead = {} /\ oldest' = op /\ op # 0 /\ run'.op # op
      BY <1>1, <1>4, <1>5, <2>1 DEF Ahead
    <3>2. \A i \in Pushed' : i >= op <=> i = op
      BY <1>1, <1>3, <1>5
    <3>3. Ahead' = {i \in Pushed' : i >= op /\ i # run'.op}
      BY <3>1 DEF Ahead
    <3> QED BY <1>3, <3>1, <3>2, <3>3
  <2>2. CASE oldest # 0
    <3>1. oldest' = oldest /\ run'.op = run.op /\ op # run.op /\ op >= oldest
      BY <1>1, <1>4, <1>5, <2>2
    <3> QED BY <1>3, <2>2, <3>1 DEF Ahead
  <2> QED BY <2>1, <2>2
<1>7. \A i \in Pushed' : oldest' # 0 /\ i >= oldest' =>
        IF i = newest' THEN next'[i] = 0 ELSE Follows(i, next[i])'
  <2> SUFFICES ASSUME NEW i \in Pushed', oldest' # 0, i >= oldest'
               PROVE  IF i = newest' THEN next'[i] = 0 ELSE Follows(i, next[i])'
    OBVIOUS
  <2>0. i \in 1..op
    BY <1>1, <1>3, <1>5
  <2>1. CASE i = op
    BY <1>4, <2>0, <2>1
  <2>2. CASE i # op /\ i = newest
    <3>1. i \in Pushed /\ next'[i] = op /\ oldest # 0 /\ \A k \in Pushed : k <= i
      BY <1>1, <1>3, <1>4, <1>5, <2>0, <2>2 DEF ListInv
    <3>2. \A k \in Pushed' : k > i => k >= op
      BY <1>1, <1>3, <1>5, <3>1
    <3>3. op \in Pushed' /\ op > i
      BY <1>1, <1>3, <1>5, <3>1
    <3> QED BY <1>4, <2>2, <3>1, <3>2, <3>3 DEF Follows
  <2>3. CASE i # op /\ i # newest
    <3>1. i \in Pushed /\ next'[i] = next[i] /\ oldest # 0 /\ i >= oldest
      BY <1>1, <1>3, <1>4, <1>5, <2>0, <2>3
    <3>2. next[i] \in Pushed /\ next[i] > i /\ \A k \in Pushed : k > i => k >= next[i]
      BY <2>3, <3>1 DEF ListInv, Follows
    <3>3. next[i] \in 1..Len(ops)
      BY <1>1, <3>2
    <3>4. op >= next[i]
      BY <1>1, <1>5, <3>3
    <3>5. next[i] \in Pushed' /\ \A k \in Pushed' : k > i => k >= next[i]
      BY <1>3, <3>2, <3>4
    <3>6. Follows(i, next[i])'
      BY <3>1, <3>2, <3>5 DEF Follows
    <3>7. i # newest'
      BY <1>4, <2>3
    <3> QED BY <3>6, <3>7
  <2> QED BY <2>1, <2>2, <2>3
<1>8. ListInv'
  <2>1. oldest' # 0 /\ newest' # 0 /\ newest' \in Pushed'
    BY <1>1, <1>3, <1>4, <1>5
  <2>2. oldest' \in Pushed' /\ \A i \in Pushed' : i <= newest'
    BY <1>1, <1>3, <1>4, <1>5 DEF ListInv
  <2>3. run'.op # 0 => run'.op = oldest'
    BY <1>1, <1>4 DEF ListInv
  <2> QED BY <1>7, <2>1, <2>2, <2>3 DEF ListInv
<1> QED BY <1>3, <1>5, <1>6, <1>8

\* A report of the head, or of none, begins.
LEMMA BeginList ==
  ASSUME TypeOK, ListInv, Pushed' = Pushed, UNCHANGED <<oldest, newest, next>>, run.op = 0,
         run'.op \in {0, oldest}
  PROVE  ListInv' /\ Ahead' = Ahead \ {run'.op}
<1>1. ListInv'
  BY DEF ListInv, Follows
<1>2. Ahead' = Ahead \ {run'.op}
  BY ListTyped DEF Ahead
<1> QED BY <1>1, <1>2

\* A step that is about something else.
LEMMA KeepList ==
  ASSUME ListInv, Pushed' = Pushed, UNCHANGED <<oldest, newest, next, run>>
  PROVE  ListInv' /\ Ahead' = Ahead
  BY DEF ListInv, Follows, Ahead

\* When a report returns the list loses its head, and the next report may begin.
LEMMA AdvanceList ==
  ASSUME TypeOK, ListInv, Pushed' = Pushed, next' = next, Advance,
         run'.op \in {0, oldest'}
  PROVE  /\ ListInv' /\ Ahead' = Ahead \ {run'.op}
         /\ oldest' \in 0..Len(ops) /\ newest' \in 0..Len(ops)
         /\ oldest' # 0 => oldest' \in Ahead
         /\ oldest' = 0 => Ahead = {}
<1>1. /\ Len(ops) \in Nat /\ oldest \in Nat /\ newest \in Nat /\ run.op \in Nat
      /\ run.op <= Len(ops) /\ oldest <= Len(ops) /\ newest <= Len(ops)
      /\ Pushed \subseteq 1..Len(ops) /\ \A i \in 1..Len(ops) : next[i] \in 0..Len(ops)
  BY ListTyped
<1>2. CASE run.op = 0
  <2>1. oldest' = oldest /\ newest' = newest
    BY <1>2 DEF Advance
  <2>2. ListInv'
    BY <2>1 DEF ListInv, Follows
  <2>3. Ahead' = Ahead \ {run'.op}
    BY <1>1, <1>2, <2>1 DEF Ahead
  <2>4. (oldest # 0 => oldest \in Ahead) /\ (oldest = 0 => Ahead = {})
    BY <1>1, <1>2 DEF Ahead, ListInv
  <2> QED BY <1>1, <2>1, <2>2, <2>3, <2>4
<1>3. CASE run.op # 0
  <2>1. run.op = oldest /\ oldest \in Pushed /\ newest \in Pushed
        /\ \A i \in Pushed : i <= newest
    BY <1>3 DEF ListInv
  <2>2. oldest' = next[oldest] /\ newest' = IF next[oldest] = 0 THEN 0 ELSE newest
    BY <1>3, <2>1 DEF Advance
  <2>3. CASE oldest = newest
    <3>1. next[oldest] = 0
      BY <1>1, <2>1, <2>3, <1>3 DEF ListInv
    <3>2. Ahead = {}
      <4>1. \A i \in Pushed : i >= oldest => i = oldest
        BY <1>1, <2>1, <2>3
      <4> QED BY <2>1, <4>1 DEF Ahead
    <3>3. oldest' = 0 /\ newest' = 0 /\ run'.op = 0
      BY <2>2, <3>1
    <3>4. ListInv' /\ Ahead' = {}
      BY <3>3 DEF ListInv, Ahead
    <3> QED BY <1>1, <3>2, <3>3, <3>4
  <2>4. CASE oldest # newest
    <3>1. Follows(oldest, next[oldest])
      BY <1>1, <2>1, <2>4, <1>3 DEF ListInv
    <3>2. /\ next[oldest] \in Pushed /\ next[oldest] > oldest
          /\ \A k \in Pushed : k > oldest => k >= next[oldest]
      BY <3>1 DEF Follows
    <3>3. oldest' \in Pushed /\ oldest' > oldest /\ oldest' # 0 /\ newest' = newest
          /\ \A k \in Pushed : k > oldest => k >= oldest'
      BY <1>1, <2>2, <3>2
    <3>4. \A k \in Pushed : k >= oldest' <=> k >= oldest /\ k # oldest
      BY <1>1, <2>1, <3>3
    <3>5. Ahead = {k \in Pushed : k >= oldest'}
      BY <1>3, <2>1, <3>4 DEF Ahead
    <3>6. Ahead' = Ahead \ {run'.op}
      BY <3>3, <3>5 DEF Ahead
    <3>7. newest' # 0 /\ newest # 0
      BY <1>1, <2>1, <3>3
    <3>8. \A i \in Pushed : i >= oldest' => i >= oldest
      BY <3>4
    <3>9. ListInv'
      BY <1>3, <2>1, <3>3, <3>7, <3>8 DEF ListInv, Follows
    <3> QED BY <1>1, <3>3, <3>5, <3>6, <3>9
  <2> QED BY <2>3, <2>4
<1> QED BY <1>2, <1>3

\* The next report goes to the least of those ahead.
LEMMA HeadLeast ==
  ASSUME TypeOK, ListInv
  PROVE  /\ Ahead # {} => ListHead \in Ahead /\ \A i \in Ahead : ListHead <= i
         /\ Ahead = {} => ListHead = 0
<1>1. /\ Len(ops) \in Nat /\ oldest \in Nat /\ newest \in Nat /\ run.op \in Nat
      /\ Pushed \subseteq 1..Len(ops) /\ \A i \in 1..Len(ops) : next[i] \in 0..Len(ops)
  BY ListTyped
<1>2. CASE run.op = 0
  <2>1. ListHead = oldest
    BY <1>2 DEF ListHead
  <2>2. (oldest # 0 => oldest \in Ahead) /\ (oldest = 0 => Ahead = {})
    BY <1>1, <1>2 DEF Ahead, ListInv
  <2>3. \A i \in Ahead : oldest <= i
    BY <1>1 DEF Ahead
  <2> QED BY <1>1, <2>1, <2>2, <2>3
<1>3. CASE run.op # 0
  <2>1. run.op = oldest /\ oldest \in Pushed /\ newest \in Pushed /\ ListHead = next[oldest]
        /\ \A i \in Pushed : i <= newest
    BY <1>3 DEF ListInv, ListHead
  <2>2. CASE oldest = newest
    <3>1. next[oldest] = 0
      BY <1>1, <2>1, <2>2, <1>3 DEF ListInv
    <3>2. \A i \in Pushed : i >= oldest => i = oldest
      BY <1>1, <2>1, <2>2
    <3> QED BY <2>1, <3>1, <3>2 DEF Ahead
  <2>3. CASE oldest # newest
    <3>1. Follows(oldest, next[oldest])
      BY <1>1, <2>1, <2>3, <1>3 DEF ListInv
    <3>2. next[oldest] \in Pushed /\ next[oldest] > oldest
          /\ \A k \in Pushed : k > oldest => k >= next[oldest]
      BY <3>1 DEF Follows
    <3>3. \A k \in Ahead : k \in Pushed /\ k > oldest
      BY <1>1, <2>1 DEF Ahead
    <3>4. next[oldest] \in Nat /\ \A k \in Pushed : k \in Nat
      <4>1. \A k \in Pushed : k \in Nat
        BY <1>1
      <4> QED BY <3>2, <4>1
    <3>5. next[oldest] \in Ahead
      BY <1>1, <1>3, <2>1, <3>2, <3>4 DEF Ahead
    <3>6. \A k \in Ahead : next[oldest] <= k
      BY <3>2, <3>3, <3>4
    <3> QED BY <2>1, <3>5, <3>6
  <2> QED BY <2>2, <2>3
<1> QED BY <1>2, <1>3

\* The first frame that will be answered is the one of the list's head.
LEMMA FirstDue ==
  ASSUME TypeOK, ListInv, QueueInv, NEW p \in Due, \A q \in Due : p <= q
  PROVE  Frames[p].op = ListHead
<1>1. Frames[p].op \in Ahead /\ Ahead \subseteq Nat
  BY ListTyped DEF QueueInv, Ahead
<1>2. ListHead \in Ahead /\ ListHead <= Frames[p].op
  BY <1>1, HeadLeast
<1>3. PICK q \in Due : Frames[q].op = ListHead
  BY <1>2 DEF QueueInv
<1>4. p = q \/ Frames[p].op < Frames[q].op
  <2>1. p \in Nat /\ q \in Nat /\ p <= q
    BY FramesTyped DEF Due
  <2> QED BY <2>1 DEF QueueInv
<1>5. Frames[p].op \in Nat /\ ListHead \in Nat
  BY <1>1, <1>2
<1> QED BY <1>2, <1>3, <1>4, <1>5

-----------------------------------------------------------------------------
(* Frames and the list.                                                    *)

\* A step that sends and answers nothing.
LEMMA QueueKeep ==
  ASSUME QueueInv, Frames' = Frames, Ahead' = Ahead, usable' <=> usable,
         state' = "closing" <=> state = "closing", state' = "closed" <=> state = "closed",
         \A i \in Ahead : Unheard(ops[i]) => Unheard(ops'[i])
  PROVE  QueueInv'
<1>1. Due' = Due
  BY DEF Due
<1> QED BY <1>1 DEF QueueInv

\* A result whose instruction is not sent goes to the end of the list.
LEMMA QueuePretend ==
  ASSUME TypeOK, QueueInv, Frames' = Frames, Ahead' = Ahead \cup {Len(ops) + 1},
         state' = state, ~usable, \A i \in Ahead : Unheard(ops[i]) => Unheard(ops'[i])
  PROVE  QueueInv'
<1>1. Due' = Due /\ ~usable'
  BY DEF Due, usable
<1>2. \A i \in Ahead : i < Len(ops) + 1
  BY ListTyped DEF Ahead
<1>3. \A p \in Due : Frames[p].op \in Ahead /\ ~(Len(ops) + 1 <= Frames[p].op)
  <2>1. \A p \in Due : Frames[p].op \in Ahead
    BY DEF QueueInv
  <2>2. Ahead \subseteq Nat /\ Len(ops) \in Nat
    BY ListTyped DEF Ahead
  <2>3. \A i \in Ahead : ~(Len(ops) + 1 <= i)
    BY <1>2, <2>2
  <2> QED BY <2>1, <2>3
<1> QED BY <1>1, <1>3 DEF QueueInv

\* The places of the frames when one is added.
LEMMA DueAppend ==
  ASSUME TypeOK, NEW f, Frames' = Append(Frames, f)
  PROVE  /\ Len(Frames') = Len(Frames) + 1 /\ Len(Frames) \in Nat
         /\ \A p \in 1..Len(Frames) : Frames'[p] = Frames[p]
         /\ Frames'[Len(Frames) + 1] = f /\ Due \subseteq 1..Len(Frames)
         /\ \A p \in Due : Frames'[p] = Frames[p]
         /\ Due' = IF f.what \in {"call", "close"} THEN Due \cup {Len(Frames) + 1} ELSE Due
<1>1. Frames \in Seq(Frame \cup {f})
  <2>1. Frames \in Seq(Frame)
    BY FramesTyped
  <2>2. Len(Frames) \in Nat /\ DOMAIN Frames = 1..Len(Frames)
        /\ \A i \in 1..Len(Frames) : Frames[i] \in Frame \cup {f}
    BY <2>1
  <2> QED BY <2>1, <2>2
<1>2. /\ Len(Frames') = Len(Frames) + 1 /\ Len(Frames) \in Nat
      /\ \A p \in 1..Len(Frames) : Frames'[p] = Frames[p]
      /\ Frames'[Len(Frames) + 1] = f
  <2>1. f \in Frame \cup {f}
    OBVIOUS
  <2> QED BY <1>1, <2>1, AppendProperties
<1>3. Due' = IF f.what \in {"call", "close"} THEN Due \cup {Len(Frames) + 1} ELSE Due
  BY <1>2 DEF Due
<1> QED BY <1>2, <1>3 DEF Due

\* A frame is sent that has no answer.
LEMMA QueueSend ==
  ASSUME TypeOK, QueueInv, NEW f, f.what = "send", Frames' = Append(Frames, f), Ahead' = Ahead,
         usable, state' = state, \A i \in Ahead : Unheard(ops[i]) => Unheard(ops'[i])
  PROVE  QueueInv'
<1>1. /\ Len(Frames') = Len(Frames) + 1 /\ Len(Frames) \in Nat
      /\ \A p \in 1..Len(Frames) : Frames'[p] = Frames[p]
      /\ Frames'[Len(Frames) + 1] = f /\ Due \subseteq 1..Len(Frames)
      /\ \A p \in Due : Frames'[p] = Frames[p] /\ Due' = Due
  BY DueAppend
<1>2. Due' = Due /\ usable' /\ state' # "closing" /\ state' # "closed"
  BY DueAppend DEF usable
<1>3. \A p \in 1..Len(Frames') : Frames'[p].what # "close"
  BY <1>1 DEF QueueInv
<1> QED BY <1>1, <1>2, <1>3 DEF QueueInv

\* An instruction is sent: its result is the last of the list, its frame the last of all.
LEMMA QueueCall ==
  ASSUME TypeOK, QueueInv, NEW f, f.op = Len(ops) + 1, Frames' = Append(Frames, f),
         Ahead' = Ahead \cup {Len(ops) + 1}, usable,
         \/ f.what = "call" /\ state' = state
         \/ f.what = "close" /\ state' = "closing",
         \A i \in Ahead : Unheard(ops[i]) => Unheard(ops'[i]),
         Unheard(ops'[Len(ops) + 1])
  PROVE  QueueInv'
<1> DEFINE op == Len(ops) + 1
           n  == Len(Frames) + 1
<1>1. /\ Len(Frames') = n /\ n \in Nat /\ Len(Frames) \in Nat
      /\ \A p \in 1..Len(Frames) : Frames'[p] = Frames[p]
      /\ Frames'[n] = f /\ Due \subseteq 1..Len(Frames)
      /\ \A p \in Due : Frames'[p] = Frames[p]
  BY DueAppend
<1>2. Due' = Due \cup {n}
  BY DueAppend
<1>3. Ahead \subseteq Nat /\ op \in Nat /\ \A i \in Ahead : i < op
  BY ListTyped DEF Ahead
<1>4. \A p \in Due : Frames[p].op \in Ahead
  BY DEF QueueInv
<1>5. Ahead' = Ahead \cup {op} /\ f.op = op /\ Unheard(ops'[op])
  OBVIOUS
<1>6. \A p \in Due : p < n /\ ~(n < p)
  BY <1>1
<1> HIDE DEF op, n
<1>7. \A p, q \in Due' : p < q => Frames'[p].op < Frames'[q].op
  <2> SUFFICES ASSUME NEW p \in Due', NEW q \in Due', p < q
               PROVE  Frames'[p].op < Frames'[q].op
    OBVIOUS
  <2>1. CASE q = n
    <3>1. p \in Due
      BY <1>1, <1>2, <2>1
    <3> QED BY <1>1, <1>3, <1>4, <1>5, <2>1, <3>1
  <2>2. CASE q # n
    <3>1. q \in Due /\ p \in Due
      BY <1>1, <1>2, <1>6, <2>2
    <3> QED BY <1>1, <3>1 DEF QueueInv
  <2> QED BY <2>1, <2>2
<1>8. \A p \in Due' : Frames'[p].op \in Ahead' /\ Unheard(ops'[Frames'[p].op])
  BY <1>1, <1>2, <1>4, <1>5 DEF QueueInv
<1>9. \A i \in Ahead' : \E q \in Due' : Frames'[q].op = i
  <2>1. \A i \in Ahead : \E q \in Due : Frames[q].op = i
    BY DEF QueueInv
  <2> QED BY <1>1, <1>2, <1>5, <2>1
<1>10. \A p \in 1..Len(Frames) : Frames'[p].what # "close"
  BY <1>1 DEF QueueInv
<1>11. f.what = "call" => \A p \in 1..Len(Frames') : Frames'[p].what # "close"
  BY <1>1, <1>10 DEF n
<1>12. \A p \in 1..Len(Frames') : Frames'[p].what = "close" => p = Len(Frames')
  BY <1>1, <1>10 DEF n
<1>13. /\ usable' => f.what = "call" /\ state' # "closed"
       /\ state' # "closed"
  BY DEF usable
<1> QED BY <1>7, <1>8, <1>9, <1>11, <1>12, <1>13 DEF QueueInv

\* The first frame is answered, and the result at the head of the list is reported.
LEMMA QueueAnswer ==
  ASSUME TypeOK, ListInv, QueueInv, run.op = 0, Len(Frames) > 0,
         Len(Frames') = Len(Frames) - 1,
         \A p \in 1..Len(Frames') : Frames'[p] = Frames[p + 1],
         Frames[1].what \in {"call", "close"} => run'.op = oldest,
         Frames[1].what \notin {"call", "close"} => run'.op = 0,
         Ahead' = Ahead \ {run'.op},
         \/ (usable' <=> usable) /\ state' # "closed"
            /\ (state' = "closing" <=> state = "closing") /\ state # "closed"
         \/ Frames[1].what = "close" /\ state' = "closed",
         \A i \in Ahead' : Unheard(ops[i]) => Unheard(ops'[i])
  PROVE  QueueInv'
         /\ (Frames[1].what \in {"call", "close"} =>
               oldest \in Ahead /\ Unheard(ops[oldest]))
<1>1. Len(Frames) \in Nat \ {0} /\ Len(Frames') \in Nat
  BY FramesTyped
<1>2. /\ \A p \in Due' : p + 1 \in Due /\ Frames'[p] = Frames[p + 1]
      /\ \A p \in Due : p # 1 => p - 1 \in Due' /\ Frames'[p - 1] = Frames[p]
      /\ \A p \in Due' : p \in Nat
      /\ \A p \in Due : p \in Nat /\ p >= 1
  BY <1>1 DEF Due
<1>3. 1 \in Due <=> Frames[1].what \in {"call", "close"}
  BY <1>1 DEF Due
<1>4. 1 \in Due => Frames[1].op = oldest
  <2>1. \A q \in Due : 1 <= q
    BY <1>2
  <2> QED BY <2>1, FirstDue DEF ListHead
<1>5. 1 \in Due => oldest \in Ahead /\ Unheard(ops[oldest])
  BY <1>4 DEF QueueInv
<1>6. \A p \in Due : p # 1 => Frames[p].op \in Ahead'
  <2> SUFFICES ASSUME NEW p \in Due, p # 1 PROVE Frames[p].op \in Ahead'
    OBVIOUS
  <2>1. Frames[p].op \in Ahead /\ Ahead \subseteq Nat /\ 0 \notin Ahead
    BY ListTyped DEF QueueInv, Ahead
  <2>2. CASE 1 \in Due
    <3>1. Frames[1].op < Frames[p].op /\ Frames[1].op \in Nat
      <4>1. 1 < p
        BY <1>2
      <4>2. Frames[1].op \in Ahead /\ (1 < p => Frames[1].op < Frames[p].op)
        BY <2>2 DEF QueueInv
      <4> QED BY <2>1, <4>1, <4>2
    <3> QED BY <1>3, <1>4, <2>1, <2>2, <3>1
  <2>3. CASE 1 \notin Due
    BY <1>3, <2>1, <2>3
  <2> QED BY <2>2, <2>3
<1>7. \A p, q \in Due' : p < q => Frames'[p].op < Frames'[q].op
  <2> SUFFICES ASSUME NEW p \in Due', NEW q \in Due', p < q
               PROVE  Frames'[p].op < Frames'[q].op
    OBVIOUS
  <2>1. p + 1 \in Due /\ q + 1 \in Due /\ p + 1 < q + 1
    BY <1>2
  <2>2. Frames[p + 1].op < Frames[q + 1].op
    BY <2>1 DEF QueueInv
  <2> QED BY <1>2, <2>2
<1>8. \A p \in Due' : Frames'[p].op \in Ahead' /\ Unheard(ops'[Frames'[p].op])
  <2> SUFFICES ASSUME NEW p \in Due'
               PROVE  Frames'[p].op \in Ahead' /\ Unheard(ops'[Frames'[p].op])
    OBVIOUS
  <2>1. p + 1 \in Due /\ p + 1 # 1 /\ Frames'[p] = Frames[p + 1]
    BY <1>2, <1>1 DEF Due
  <2>2. Frames[p + 1].op \in Ahead'
    BY <1>6, <2>1
  <2>3. Unheard(ops[Frames[p + 1].op])
    BY <2>1 DEF QueueInv
  <2> QED BY <2>1, <2>2, <2>3
<1>9. \A i \in Ahead' : (\E q \in Due : Frames[q].op = i) => \E q \in Due' : Frames'[q].op = i
  <2> SUFFICES ASSUME NEW i \in Ahead', NEW q \in Due, Frames[q].op = i
               PROVE  \E r \in Due' : Frames'[r].op = i
    OBVIOUS
  <2>1. q # 1
    BY <1>3, <1>4
  <2> QED BY <1>2, <2>1
<1>10. \A p \in Due' : \A i \in Ahead' : i <= Frames'[p].op => \E q \in Due' : Frames'[q].op = i
  <2> SUFFICES ASSUME NEW p \in Due', NEW i \in Ahead', i <= Frames'[p].op
               PROVE  \E q \in Due' : Frames'[q].op = i
    OBVIOUS
  <2>1. p + 1 \in Due /\ i <= Frames[p + 1].op /\ i \in Ahead
    BY <1>2
  <2>2. \E q \in Due : Frames[q].op = i
    BY <2>1 DEF QueueInv
  <2> QED BY <1>9, <2>2
<1>11. usable => \A i \in Ahead' : \E p \in Due' : Frames'[p].op = i
  <2>1. usable => \A i \in Ahead : \E p \in Due : Frames[p].op = i
    BY DEF QueueInv
  <2> QED BY <1>9, <2>1
<1>12. \A p \in 1..Len(Frames') : p + 1 \in 1..Len(Frames) /\ Frames'[p] = Frames[p + 1]
  BY <1>1
<1>13. usable => \A p \in 1..Len(Frames') : Frames'[p].what # "close"
  BY <1>12 DEF QueueInv
<1>14. state = "closing" =>
         \A p \in 1..Len(Frames') : Frames'[p].what = "close" => p = Len(Frames')
  <2> SUFFICES ASSUME state = "closing", NEW p \in 1..Len(Frames'), Frames'[p].what = "close"
               PROVE  p = Len(Frames')
    OBVIOUS
  <2>1. p + 1 = Len(Frames)
    BY <1>12 DEF QueueInv
  <2> QED BY <1>1, <2>1
<1>15. Frames[1].what = "close" => Len(Frames') = 0
  <2> SUFFICES ASSUME Frames[1].what = "close" PROVE Len(Frames') = 0
    OBVIOUS
  <2>1. 1 \in 1..Len(Frames)
    BY <1>1
  <2>2. state \in {"connected", "ready", "closing", "closed"}
    BY DEF TypeOK
  <2>3. Len(Frames) = 1
    BY <1>1, <2>1, <2>2 DEF QueueInv, usable
  <2> QED BY <1>1, <2>3
<1>16. CASE state' = "closed"
  <2>1. ~usable' /\ state' # "closing" /\ Frames[1].what = "close"
    BY <1>16 DEF usable
  <2> QED BY <1>3, <1>5, <1>7, <1>8, <1>10, <1>15, <2>1 DEF QueueInv
<1>17. CASE state' # "closed"
  BY <1>3, <1>5, <1>7, <1>8, <1>10, <1>11, <1>13, <1>14, <1>17 DEF QueueInv
<1> QED BY <1>16, <1>17

-----------------------------------------------------------------------------
(* Steps that tell no success.                                             *)

\* e is the result d, or what is told when it is forgotten.
Calm(d, e) ==
  /\ e \in Result /\ e.class = d.class /\ Succeeded(e) = Succeeded(d)
  /\ Sound(d) => Sound(e)
  /\ Single(d) => Single(e)
  /\ Unheard(d) => Unheard(e)
  /\ Untold(e) => Untold(d)

\* A result that stays as it is.
LEMMA CalmSelf ==
  ASSUME NEW d \in Result PROVE Calm(d, d)
  BY DEF Calm

\* The results that nobody holds any more are forgotten, whichever they are.
LEMMA CollectedCalm ==
  ASSUME NEW o \in Seq(Result)
  PROVE  /\ Collected(o) \in Seq(Result) /\ Len(Collected(o)) = Len(o)
         /\ \A i \in 1..Len(o) : Calm(o[i], Collected(o)[i])
<1> DEFINE Gone(i) == i \in Kept \ Kept' /\ o[i].class # "none"
           p       == [i \in 1..Len(o) |-> IF Gone(i) THEN Forgotten(o[i]) ELSE o[i]]
<1>1. Collected(o) = p
  BY DEF Collected
<1> HIDE DEF Gone
<1>2. Len(o) \in Nat /\ \A i \in 1..Len(o) : o[i] \in Result
  OBVIOUS
<1>3. \A i \in 1..Len(o) : Calm(o[i], p[i])
  <2> SUFFICES ASSUME NEW i \in 1..Len(o) PROVE Calm(o[i], p[i])
    OBVIOUS
  <2>1. CASE Gone(i)
    <3>1. Calm(o[i], Forgotten(o[i]))
      BY <1>2, ForgottenResult DEF Calm
    <3> QED BY <2>1, <3>1
  <2>2. CASE ~Gone(i)
    BY <1>2, <2>2, CalmSelf
  <2> QED BY <2>1, <2>2
<1>4. \A i \in 1..Len(o) : p[i] \in Result
  BY <1>3 DEF Calm
<1>5. p \in Seq(Result) /\ Len(p) = Len(o)
  <2>1. p \in [1..Len(o) -> Result]
    BY <1>4
  <2> HIDE DEF p
  <2> QED BY <1>2, <2>1
<1> QED BY <1>1, <1>3, <1>5

\* o and p are the results before and after a step that tells no success.
Quiet(o, p) ==
  /\ p \in Seq(Result) /\ Len(p) = Len(o)
  /\ \A i \in 1..Len(o) : /\ p[i].class = o[i].class /\ Sound(p[i])
                          /\ i # struck' /\ Single(o[i]) => Single(p[i])
                          /\ Untold(p[i]) => Untold(o[i])
                          /\ Succeeded(o[i]) = {} => Succeeded(p[i]) = {}

\* Forgetting results is quiet.
LEMMA CollectedQuiet ==
  ASSUME NEW o \in Seq(Result), \A i \in 1..Len(o) : Sound(o[i])
  PROVE  Quiet(o, Collected(o))
  BY CollectedCalm DEF Calm, Quiet

\* One result changes.
LEMMA OneResult ==
  ASSUME NEW o \in Seq(Result), NEW i \in 1..Len(o), NEW d \in Result
  PROVE  /\ [o EXCEPT ![i] = d] \in Seq(Result) /\ Len([o EXCEPT ![i] = d]) = Len(o)
         /\ [o EXCEPT ![i] = d][i] = d
         /\ \A k \in 1..Len(o) : k # i => [o EXCEPT ![i] = d][k] = o[k]
  BY ExceptSeq

\* Telling one of a failure is quiet, but for one that has succeeded.
LEMMA ErrorQuiet ==
  ASSUME NEW o \in Seq(Result), \A i \in 1..Len(o) : Sound(o[i]), NEW op \in 1..Len(o),
         op = struck' \/ Succeeded(o[op]) = {}
  PROVE  /\ Quiet(o, [o EXCEPT ![op] = reportError(@)])
         /\ ~Untold([o EXCEPT ![op] = reportError(@)][op])
<1> DEFINE d == reportError(o[op])
           p == [o EXCEPT ![op] = d]
<1>1. o[op] \in Result /\ Sound(o[op]) /\ Len(o) \in Nat /\ \A i \in 1..Len(o) : o[i] \in Result
  OBVIOUS
<1>2. /\ d \in Result /\ d.class = o[op].class /\ Sound(d) /\ ~Untold(d)
      /\ Succeeded(o[op]) = {} => Succeeded(d) = {} /\ Single(d)
  BY <1>1, ErrorResult
<1>3. [o EXCEPT ![op] = reportError(@)] = p
  OBVIOUS
<1> HIDE DEF d
<1>4. /\ p \in Seq(Result) /\ Len(p) = Len(o) /\ p[op] = d
      /\ \A k \in 1..Len(o) : k # op => p[k] = o[k]
  BY <1>2, OneResult
<1> HIDE DEF p
<1>5. Quiet(o, p)
  BY <1>1, <1>2, <1>4 DEF Quiet
<1> QED BY <1>2, <1>3, <1>4, <1>5

\* The two together.
LEMMA QuietTwice ==
  ASSUME NEW o, NEW p, NEW q, Quiet(o, p), Quiet(p, q)
  PROVE  Quiet(o, q)
  BY DEF Quiet

\* Telling one that has not succeeded of a failure, or none.
LEMMA TellQuiet ==
  ASSUME ops \in Seq(Result), \A i \in 1..Len(ops) : Sound(ops[i]),
         NEW op \in 0..Len(ops), op # 0 => Succeeded(ops[op]) = {}, Tell(op)
  PROVE  /\ Quiet(ops, ops') /\ \A i \in 1..Len(ops) : Untold(ops'[i]) => i # op
         /\ op = 0 => Back
         /\ op # 0 => run' = [what |-> "error", op |-> op] /\ UNCHANGED <<under, connection>>
<1>1. Len(ops) \in Nat
  OBVIOUS
<1>2. CASE op = 0
  BY <1>1, <1>2, CollectedQuiet DEF Tell
<1>3. CASE op # 0
  <2> DEFINE p == [ops EXCEPT ![op] = reportError(@)]
  <2>1. /\ ops' = Collected(p) /\ run' = [what |-> "error", op |-> op]
        /\ UNCHANGED <<under, connection>>
    BY <1>3 DEF Tell
  <2>2. op \in 1..Len(ops)
    BY <1>1, <1>3
  <2>3. Quiet(ops, p) /\ ~Untold(p[op])
    BY <1>3, <2>2, ErrorQuiet
  <2> HIDE DEF p
  <2>4. p \in Seq(Result) /\ Len(p) = Len(ops) /\ \A i \in 1..Len(p) : Sound(p[i])
    BY <2>3 DEF Quiet
  <2>5. Quiet(p, ops')
    BY <2>1, <2>4, CollectedQuiet
  <2>6. Quiet(ops, ops')
    BY <2>3, <2>5, QuietTwice
  <2>7. ~Untold(ops'[op])
    BY <2>2, <2>3, <2>4, <2>5 DEF Quiet
  <2> QED BY <1>3, <2>1, <2>6, <2>7
<1> QED BY <1>2, <1>3

\* A step that tells no success, and takes none from the list but to tell it of a failure,
\* leaves who is not told in it.
LEMMA QuietOutcome ==
  ASSUME OutcomeInv, Quiet(ops, ops'), Ahead \subseteq 1..Len(ops), Ahead' \subseteq Ahead,
         \A i \in 1..Len(ops) : Untold(ops'[i]) => i \notin Ahead \ Ahead',
         state' = "closed" => \/ run'.what \in {"closed", "error"} \/ Ahead' = {}
                              \/ state = "closed" /\ run.what \notin {"closed", "error"}
  PROVE  OutcomeInv'
<1>1. \A i \in Ahead' : Succeeded(ops'[i]) = {}
  BY DEF OutcomeInv, Quiet
<1>2. \A i \in 1..Len(ops') : Untold(ops'[i]) => i \in Ahead' /\ Untold(ops[i])
  BY DEF OutcomeInv, Quiet
<1>3. state' = "closed" => \/ run'.what \in {"closed", "error"}
                           \/ \A i \in 1..Len(ops') : ~Untold(ops'[i])
  BY <1>2 DEF OutcomeInv, Quiet
<1> QED BY <1>1, <1>2, <1>3 DEF OutcomeInv

\* Those ahead are results, and none is the one reported.
LEMMA AheadTyped ==
  ASSUME TypeOK
  PROVE  /\ Ahead \subseteq 1..Len(ops) /\ Ahead \subseteq Nat /\ 0 \notin Ahead
         /\ run.op \notin Ahead
  BY ListTyped DEF Ahead

\* A channel that is closed has no frames.
LEMMA QueueClosed ==
  ASSUME Len(Frames') = 0, state' = "closed"
  PROVE  QueueInv'
<1>1. Due' = {}
  BY DEF Due
<1>2. ~usable' /\ state' # "closing"
  BY DEF usable
<1> QED BY <1>1, <1>2 DEF QueueInv

\* A channel that is closed stays without frames.
LEMMA QueueShut ==
  ASSUME QueueInv, state = "closed", state' = "closed", Len(Frames') = Len(Frames)
  PROVE  QueueInv'
<1>1. Len(Frames') = 0
  BY DEF QueueInv
<1> QED BY <1>1, QueueClosed

\* A channel that is not closed has a connection that has not failed.
LEMMA OpenUp ==
  ASSUME ChannelInv, state # "closed"
  PROVE  /\ connection = "up" /\ struck = 0 /\ under = Idle
         /\ alive => ListInv /\ OutcomeInv
  BY DEF ChannelInv, FailInv

\* The types after a step that changes results and the list's ends.
LEMMA TypedAfter ==
  ASSUME TypeOK, ops' \in Seq(Result), Len(ops') = Len(ops),
         state' \in {"connected", "ready", "closing", "closed"}, synchronous' \in BOOLEAN,
         oldest' \in 0..Len(ops), newest' \in 0..Len(ops), next' = next,
         queue' \in Seq(Frame), wire' \in Seq(Frame),
         run' \in Reports, under' \in Reports, struck' \in 0..Len(ops),
         connection' \in {"up", "failing", "failed"},
         UNCHANGED <<attached, alive, handles>>
  PROVE  TypeOK'
  BY DEF TypeOK, Reports

\* The reports' types.
LEMMA ReportsTyped ==
  ASSUME TypeOK
  PROVE  /\ Idle \in Reports /\ \A i \in 0..Len(ops) : [what |-> "error", op |-> i] \in Reports
         /\ [what |-> "ready", op |-> 0] \in Reports
         /\ run \in Reports /\ under \in Reports /\ struck \in 0..Len(ops)
         /\ connection \in {"up", "failing", "failed"} /\ Fits(Idle)
<1>1. 0 \in 0..Len(ops)
  BY ListTyped
<1> QED BY <1>1 DEF TypeOK, Reports, Idle, Fits

-----------------------------------------------------------------------------
(* Every action keeps the invariant.                                       *)

\* A result is made.
LEMMA OpsAppend ==
  ASSUME TypeOK, NEW d \in Result, ops' = Append(ops, d)
  PROVE  /\ ops' \in Seq(Result) /\ Len(ops') = Len(ops) + 1 /\ Len(ops) \in Nat
         /\ \A i \in 1..Len(ops) : ops'[i] = ops[i]
         /\ ops'[Len(ops) + 1] = d
         /\ 1..Len(ops') = (1..Len(ops)) \cup {Len(ops) + 1}
<1>1. ops \in Seq(Result)
  BY DEF TypeOK
<1>2. /\ ops' \in Seq(Result) /\ Len(ops') = Len(ops) + 1 /\ Len(ops) \in Nat
      /\ \A i \in 1..Len(ops) : ops'[i] = ops[i]
      /\ ops'[Len(ops) + 1] = d
  BY <1>1, AppendProperties
<1> QED BY <1>2

\* The types of the list when a result is put into it.
LEMMA PushTyped ==
  ASSUME TypeOK, Len(ops') = Len(ops) + 1, push(Len(ops) + 1),
         \A i \in 1..Len(ops) : next[i] # 0 => next[i] > i
  PROVE  /\ oldest' \in 0..Len(ops') /\ newest' \in 0..Len(ops')
         /\ next' \in [1..Len(ops') -> 0..Len(ops')]
         /\ \A i \in 1..Len(ops') : next'[i] # 0 => next'[i] > i
<1> DEFINE op == Len(ops) + 1
<1>1. /\ Len(ops) \in Nat /\ oldest \in Nat /\ newest \in Nat
      /\ oldest <= Len(ops) /\ newest <= Len(ops)
      /\ \A i \in 1..Len(ops) : next[i] \in 0..Len(ops)
  BY ListTyped
<1>2. /\ oldest' = (IF oldest = 0 THEN op ELSE oldest) /\ newest' = op
      /\ next' = [i \in 1..op |-> IF i = op THEN 0 ELSE IF i = newest THEN op ELSE next[i]]
  BY DEF push
<1> HIDE DEF op
<1>3. op = Len(ops) + 1 /\ Len(ops') = op
  BY DEF op
<1>4. oldest' \in 0..Len(ops') /\ newest' \in 0..Len(ops')
  BY <1>1, <1>2, <1>3
<1>5. \A i \in 1..op : next'[i] \in 0..op /\ (next'[i] # 0 => next'[i] > i)
  <2> SUFFICES ASSUME NEW i \in 1..op PROVE next'[i] \in 0..op /\ (next'[i] # 0 => next'[i] > i)
    OBVIOUS
  <2>1. i = op \/ i \in 1..Len(ops)
    BY <1>1, <1>3
  <2>2. next'[i] = IF i = op THEN 0 ELSE IF i = newest THEN op ELSE next[i]
    BY <1>2
  <2> QED BY <1>1, <1>3, <2>1, <2>2
<1>6. next' \in [1..op -> 0..op]
  BY <1>2, <1>5
<1> QED BY <1>3, <1>4, <1>5, <1>6

\* An instruction: its result is made, put into the list, and its frame sent.
LEMMA PushInv ==
  ASSUME ChannelInv, MaxOps \in Nat, alive, ops' \in Seq(Result), Len(ops') = Len(ops) + 1,
         \A i \in 1..Len(ops) : Calm(ops[i], ops'[i]),
         NEW d, ops'[Len(ops) + 1] = d, Sound(d), Single(d), d.class # "none",
         Succeeded(d) = {}, usable /\ attached => Unheard(d), state = "closed" => ~Untold(d),
         NEW what \in {"call", "close"}, Len(ops) + 1 <= MaxOps + 1,
         push(Len(ops) + 1), send(what, Len(ops) + 1),
         \/ what = "call" /\ state' = state
         \/ what = "close" /\ state' = "closing" /\ usable /\ attached,
         UNCHANGED <<attached, run, failVars, alive>>,
         handles' \in [Handle -> {"none", "holds", "gone", "null", "crashed"}]
  PROVE  ChannelInv'
<1> DEFINE op == Len(ops) + 1
<1>1. /\ TypeOK /\ (attached => QueueInv) /\ FailInv /\ Fits(run)
      /\ connection # "failed" => ListInv /\ OutcomeInv
      /\ connection = "failed" => \A i \in 1..Len(ops) : ~Untold(ops[i])
      /\ \A i \in 1..Len(ops) : Sound(ops[i]) /\ (i # struck => Single(ops[i]))
      /\ \A i \in 1..Len(ops) : next[i] # 0 => next[i] > i
  BY DEF ChannelInv
<1>2. /\ Len(ops') = op /\ Len(ops) \in Nat /\ ops'[op] = d
      /\ 1..Len(ops') = (1..Len(ops)) \cup {op}
  BY <1>1, ListTyped
<1>3. /\ oldest' \in 0..Len(ops') /\ newest' \in 0..Len(ops')
      /\ next' \in [1..Len(ops') -> 0..Len(ops')]
      /\ \A i \in 1..Len(ops') : next'[i] # 0 => next'[i] > i
  BY <1>1, PushTyped
<1>4. connection # "failed" => ListInv' /\ Ahead' = Ahead \cup {op}
  <2>1. \A i \in 1..Len(ops) : ops'[i].class = ops[i].class
    BY DEF Calm
  <2> QED BY <1>1, <2>1, PushList
<1>5. op \in 0..(MaxOps + 1)
  BY <1>2
<1>6. /\ queue' \in Seq(Frame) /\ wire' \in Seq(Frame) /\ synchronous' \in BOOLEAN
      /\ usable /\ attached => Frames' = Append(Frames, [op |-> op, what |-> what])
      /\ ~(usable /\ attached) => Frames' = Frames
  BY <1>1, <1>5, SendFrames
<1>7. UNCHANGED <<under, connection, struck>>
  BY DEF failVars
<1>8. TypeOK'
  <2>1. run' \in Reports' /\ under' \in Reports' /\ struck' \in 0..Len(ops')
        /\ connection' \in {"up", "failing", "failed"}
    <3>1. run \in Reports /\ under \in Reports /\ struck \in 0..Len(ops)
          /\ connection \in {"up", "failing", "failed"}
      BY <1>1, ReportsTyped
    <3>2. \A r \in Reports : r \in Reports'
      BY <1>2 DEF Reports
    <3>3. 0..Len(ops) \subseteq 0..Len(ops')
      BY <1>2
    <3> QED BY <1>7, <3>1, <3>2, <3>3
  <2>2. state' \in {"connected", "ready", "closing", "closed"} /\ attached' \in BOOLEAN
        /\ alive' \in BOOLEAN
    BY <1>1 DEF TypeOK
  <2>3. Len(ops') <= MaxOps + 1
    BY <1>2
  <2> HIDE DEF op
  <2> QED BY <1>2, <1>3, <1>6, <2>1, <2>2, <2>3 DEF TypeOK
<1>9. \A i \in Ahead : i \in 1..Len(ops)
  BY DEF Ahead, Pushed
<1> HIDE DEF op
<1>10. \A i \in 1..Len(ops') : Sound(ops'[i]) /\ (i # struck' => Single(ops'[i]))
  BY <1>1, <1>2, <1>7 DEF Calm
<1>11. connection # "failed" => OutcomeInv'
  <2> SUFFICES ASSUME connection # "failed" PROVE OutcomeInv'
    OBVIOUS
  <2>1. \A i \in Ahead' : Succeeded(ops'[i]) = {}
    BY <1>1, <1>2, <1>4, <1>9 DEF OutcomeInv, Calm
  <2>2. \A i \in 1..Len(ops') : Untold(ops'[i]) => i \in Ahead'
    BY <1>1, <1>2, <1>4 DEF OutcomeInv, Calm
  <2>3. state' = "closed" => \/ run'.what \in {"closed", "error"}
                             \/ \A i \in 1..Len(ops') : ~Untold(ops'[i])
    BY <1>1, <1>2 DEF OutcomeInv, Calm
  <2> QED BY <2>1, <2>2, <2>3 DEF OutcomeInv
<1>12. connection = "failed" => \A i \in 1..Len(ops') : ~Untold(ops'[i])
  <2>1. connection = "failed" => state = "closed"
    BY <1>1 DEF FailInv
  <2> QED BY <1>1, <1>2, <2>1 DEF Calm
<1>13. state = "closed" => state' = "closed" /\ ~usable
  BY DEF usable
<1>14. attached => QueueInv'
  <2>1. CASE attached /\ usable
    <3> DEFINE f == [op |-> op, what |-> what]
    <3>1. f.op = op /\ f.what = what /\ Frames' = Append(Frames, f)
      BY <1>6, <2>1
    <3> HIDE DEF f
    <3>2. Unheard(ops'[op])
      BY <1>2, <2>1
    <3>3. QueueInv /\ usable /\ state # "closed"
      BY <1>1, <1>13, <2>1
    <3>4. \A i \in Ahead : Unheard(ops[i]) => Unheard(ops'[i])
      BY <1>9 DEF Calm
    <3>5. Ahead' = Ahead \cup {op}
      BY <1>4, <3>3, OpenUp
    <3> QED BY <1>1, <3>1, <3>2, <3>3, <3>4, <3>5, QueueCall DEF op
  <2>2. CASE attached /\ ~usable /\ state = "closed"
    <3>1. Len(Frames') = Len(Frames)
      BY <1>6, <2>2
    <3> QED BY <1>1, <1>13, <2>2, <3>1, QueueShut
  <2>3. CASE attached /\ ~usable /\ state # "closed"
    <3>1. Frames' = Frames /\ QueueInv /\ state' = state
      BY <1>1, <1>6, <2>3
    <3>2. \A i \in Ahead : Unheard(ops[i]) => Unheard(ops'[i])
      BY <1>9 DEF Calm
    <3>3. Ahead' = Ahead \cup {op}
      BY <1>4, <2>3, OpenUp
    <3> QED BY <1>1, <2>3, <3>1, <3>2, <3>3, QueuePretend DEF op
  <2> QED BY <2>1, <2>2, <2>3
<1>15. /\ run'.what \in {"closed", "error"} => state' = "closed"
       /\ Fits(run)'
  BY <1>1 DEF ChannelInv, usable, Fits
<1>16. FailInv'
  <2>1. struck # 0 => \A i \in 1..Len(ops) : Succeeded(ops[i]) = {} => Succeeded(ops'[i]) = {}
    BY DEF Calm
  <2>2. connection # "up" /\ struck # 0 =>
          \A i \in 1..Len(ops') : i > struck => Succeeded(ops'[i]) = {}
    BY <1>1, <1>2, <2>1 DEF FailInv
  <2> QED BY <1>1, <1>7, <1>13, <2>2 DEF FailInv, Fits
<1> QED BY <1>3, <1>4, <1>7, <1>8, <1>10, <1>11, <1>12, <1>14, <1>15, <1>16 DEF ChannelInv

\* An instruction of the program, with the callbacks it registers at once.
LEMMA InstructInv ==
  ASSUME ChannelInv, MaxOps \in Nat, NEW m, NEW methods, Len(methods) \in Nat,
         Instruct(m, methods)
  PROVE  ChannelInv'
<1> DEFINE c == Chained(Make(ClassOf(m), ~Sends), methods)
           o == Append(ops, c)
           d == Collected(o)[Len(ops) + 1]
<1>1. ClassOf(m) \in Classes
  BY DEF Instruct, ClassOf, Classes
<1>2. TypeOK /\ alive /\ Len(ops) + 1 <= MaxOps /\ Len(ops) \in Nat
  BY ListTyped DEF ChannelInv, Instruct
<1>3. (~Sends) \in BOOLEAN
  OBVIOUS
<1>4. Fresh(c, ClassOf(m), ~Sends)
  <2>1. Fresh(Make(ClassOf(m), ~Sends), ClassOf(m), ~Sends)
    BY <1>1, <1>3, MakeFresh
  <2> QED BY <1>3, <2>1, ChainedFresh
<1>5. /\ ops' = Collected(o) /\ push(Len(ops) + 1) /\ send("call", Len(ops) + 1)
      /\ UNCHANGED <<state, attached, run, failVars, alive, handles>>
  BY DEF Instruct
<1> HIDE DEF c
<1>6. /\ Sound(c) /\ Single(c) /\ c \in Result /\ c.class # "none" /\ Succeeded(c) = {}
      /\ ~Sends => ~Untold(c)
      /\ Sends => Unheard(c)
  BY <1>1, <1>3, <1>4, FreshSound
<1>7. /\ o \in Seq(Result) /\ Len(o) = Len(ops) + 1 /\ o[Len(ops) + 1] = c
      /\ \A i \in 1..Len(ops) : o[i] = ops[i]
  <2>1. ops \in Seq(Result)
    BY <1>2 DEF TypeOK
  <2> QED BY <1>6, <2>1, AppendProperties
<1> HIDE DEF o
<1>8. /\ ops' \in Seq(Result) /\ Len(ops') = Len(ops) + 1
      /\ \A i \in 1..Len(o) : Calm(o[i], ops'[i])
  BY <1>5, <1>7, CollectedCalm
<1>9. \A i \in 1..Len(ops) : Calm(ops[i], ops'[i])
  BY <1>2, <1>7, <1>8
<1>10. Calm(c, d) /\ ops'[Len(ops) + 1] = d
  <2>1. Len(ops) + 1 \in 1..Len(o)
    BY <1>2, <1>7
  <2> QED BY <1>5, <1>7, <1>8, <2>1
<1> HIDE DEF d
<1>11. /\ Sound(d) /\ Single(d) /\ d.class # "none" /\ Succeeded(d) = {}
       /\ ~Sends => ~Untold(d)
       /\ Sends => Unheard(d)
  BY <1>6, <1>10 DEF Calm
<1>12. (usable /\ attached => Sends) /\ (state = "closed" => ~Sends)
  BY DEF usable, Sends
<1>13. Len(ops) + 1 <= MaxOps + 1
  BY <1>2
<1>14. handles' \in [Handle -> {"none", "holds", "gone", "null", "crashed"}]
  BY <1>2, <1>5 DEF TypeOK
<1> QED BY <1>2, <1>5, <1>8, <1>9, <1>10, <1>11, <1>12, <1>13, <1>14, PushInv

\* A step that leaves the list and the results alone.
LEMMA StillInv ==
  ASSUME ChannelInv, TypeOK', UNCHANGED <<state, oldest, newest, ops, next, run, failVars, alive>>,
         attached' => attached /\ Frames' = Frames
  PROVE  ChannelInv'
<1>1. Pushed' = Pushed /\ UNCHANGED <<under, connection, struck>>
  BY PushedSame DEF failVars
<1>2. Ahead' = Ahead /\ (alive /\ connection # "failed" => ListInv')
  BY <1>1, KeepList DEF ChannelInv, Ahead
<1>3. alive /\ connection # "failed" => OutcomeInv'
  BY <1>2 DEF ChannelInv, OutcomeInv
<1>4. alive /\ attached' => QueueInv'
  <2>1. usable' <=> usable
    BY DEF usable
  <2> QED BY <1>2, <2>1, QueueKeep DEF ChannelInv
<1>5. FailInv' /\ Fits(run)'
  BY <1>1 DEF ChannelInv, FailInv, Fits
<1> QED BY <1>1, <1>2, <1>3, <1>4, <1>5 DEF ChannelInv

\* A step of the program's Channel objects alone.
LEMMA HandlesInv ==
  ASSUME ChannelInv, UNCHANGED <<implVars, ops, next, run, failVars, alive>>,
         handles' \in [Handle -> {"none", "holds", "gone", "null", "crashed"}]
  PROVE  ChannelInv'
<1>1. TypeOK'
  BY DEF ChannelInv, TypeOK, Reports, implVars, failVars
<1>2. Frames' = Frames /\ attached' = attached
  BY DEF Frames, implVars
<1> QED BY <1>1, <1>2, StillInv DEF implVars

\* ChannelImpl::close.
LEMMA CloseInv ==
  ASSUME ChannelInv, MaxOps \in Nat, CloseImpl,
         handles' \in [Handle -> {"none", "holds", "gone", "null", "crashed"}]
  PROVE  ChannelInv'
<1>1. CASE usable /\ attached
  <2> DEFINE d == Make("Deferred", FALSE)
  <2>1. Fresh(d, "Deferred", FALSE) /\ "Deferred" \in Classes /\ FALSE \in BOOLEAN
    BY MakeFresh DEF Classes
  <2>2. /\ ops' = Append(ops, d) /\ push(Len(ops) + 1) /\ send("close", Len(ops) + 1)
        /\ state' = "closing" /\ UNCHANGED <<attached, run, failVars, alive>> /\ alive
        /\ Len(ops) + 1 <= MaxOps + 1
    BY <1>1 DEF CloseImpl
  <2> HIDE DEF d
  <2>3. /\ Sound(d) /\ Single(d) /\ d \in Result /\ d.class # "none" /\ Succeeded(d) = {}
        /\ Unheard(d)
    BY <2>1, FreshSound
  <2>4. state # "closed" /\ TypeOK
    BY <1>1 DEF usable, ChannelInv
  <2>5. /\ ops' \in Seq(Result) /\ Len(ops') = Len(ops) + 1 /\ ops'[Len(ops) + 1] = d
        /\ \A i \in 1..Len(ops) : ops'[i] = ops[i]
    BY <2>2, <2>3, <2>4, OpsAppend
  <2>6. \A i \in 1..Len(ops) : Calm(ops[i], ops'[i])
    BY <2>4, <2>5, CalmSelf, ListTyped
  <2> QED BY <1>1, <2>2, <2>3, <2>4, <2>5, <2>6, PushInv
<1>2. CASE ~(usable /\ attached)
  <2>1. UNCHANGED <<ops, next, oldest, newest, queue, wire, synchronous, state, attached, run,
                    failVars, alive>>
    BY <1>2 DEF CloseImpl
  <2>2. UNCHANGED <<implVars, ops, next, run, failVars, alive>>
    BY <2>1 DEF implVars
  <2> QED BY <2>2, HandlesInv
<1> QED BY <1>1, <1>2

\* ack and reject: a frame without an answer, and no result.
LEMMA AcknowledgeInv ==
  ASSUME ChannelInv, MaxOps \in Nat, NEW m, Acknowledge(m)
  PROVE  ChannelInv'
<1> DEFINE op == Len(ops) + 1
           d  == Make("none", FALSE)
<1>1. /\ TypeOK /\ (attached => QueueInv) /\ alive /\ FailInv /\ Fits(run)
      /\ connection # "failed" => ListInv /\ OutcomeInv
      /\ connection = "failed" => \A i \in 1..Len(ops) : ~Untold(ops[i])
      /\ \A i \in 1..Len(ops) : Sound(ops[i]) /\ (i # struck => Single(ops[i]))
      /\ \A i \in 1..Len(ops) : next[i] # 0 => next[i] > i
  BY DEF ChannelInv, Acknowledge
<1>2. /\ ops' = Append(ops, d) /\ next' = Append(next, 0) /\ send("send", op) /\ op <= MaxOps
      /\ UNCHANGED <<state, attached, oldest, newest, run, under, connection, struck, alive,
                     handles>>
  BY DEF Acknowledge, failVars
<1>3. d \in Result /\ d.class = "none" /\ ~Untold(d) /\ Sound(d) /\ Single(d) /\ Succeeded(d) = {}
  <2>1. Fresh(d, "none", FALSE) /\ \A s \in Slots : d.cb[s] = 0
    BY MakeFresh
  <2>2. d.cb["error"] = 0 /\ d.cb["special"] = 0
    BY <2>1 DEF Slots
  <2> HIDE DEF d
  <2> QED BY <2>1, <2>2 DEF Fresh, Untold, Sound, Single
<1> HIDE DEF d
<1>4. /\ ops' \in Seq(Result) /\ Len(ops') = op /\ Len(ops) \in Nat
      /\ \A i \in 1..Len(ops) : ops'[i] = ops[i]
      /\ ops'[op] = d /\ 1..Len(ops') = (1..Len(ops)) \cup {op}
  BY <1>1, <1>2, <1>3, OpsAppend
<1>5. op \in 0..(MaxOps + 1) /\ Len(ops') <= MaxOps + 1
  BY <1>2, <1>4
<1>6. /\ queue' \in Seq(Frame) /\ wire' \in Seq(Frame) /\ synchronous' \in BOOLEAN
      /\ usable /\ attached => Frames' = Append(Frames, [op |-> op, what |-> "send"])
      /\ ~(usable /\ attached) => Frames' = Frames
  BY <1>1, <1>2, <1>5, SendFrames
<1>7. /\ next' \in [1..Len(ops') -> 0..Len(ops')] /\ next'[op] = 0
      /\ \A i \in 1..Len(ops) : next'[i] = next[i]
  <2>1. next \in [1..Len(ops) -> 0..Len(ops)]
    BY <1>1 DEF TypeOK
  <2>2. next \in Seq(0..Len(ops)) /\ Len(next) = Len(ops) /\ 0 \in 0..Len(ops)
    BY <1>4, <2>1
  <2>3. /\ next' \in Seq(0..Len(ops)) /\ Len(next') = Len(ops) + 1
        /\ \A i \in 1..Len(ops) : next'[i] = next[i]
        /\ next'[Len(ops) + 1] = 0
    BY <1>2, <2>2, AppendProperties
  <2>4. next' \in [1..(Len(ops) + 1) -> 0..Len(ops)]
    BY <2>3
  <2> QED BY <1>4, <2>3, <2>4
<1>8. Pushed' = Pushed /\ Ahead' = Ahead
  <2>1. Pushed' = Pushed
    BY <1>3, <1>4 DEF Pushed
  <2> QED BY <1>2, <2>1 DEF Ahead
<1>9. TypeOK'
  <2>1. run' \in Reports' /\ under' \in Reports' /\ struck' \in 0..Len(ops')
        /\ connection' \in {"up", "failing", "failed"}
    <3>1. run \in Reports /\ under \in Reports /\ struck \in 0..Len(ops)
          /\ connection \in {"up", "failing", "failed"}
      BY <1>1, ReportsTyped
    <3>2. \A r \in Reports : r \in Reports'
      BY <1>4 DEF Reports
    <3>3. 0..Len(ops) \subseteq 0..Len(ops')
      BY <1>4
    <3> QED BY <1>2, <3>1, <3>2, <3>3
  <2>2. oldest' \in 0..Len(ops') /\ newest' \in 0..Len(ops')
    BY <1>1, <1>2, <1>4 DEF TypeOK
  <2> HIDE DEF op
  <2> QED BY <1>1, <1>2, <1>4, <1>5, <1>6, <1>7, <2>1, <2>2 DEF TypeOK
<1>10. connection # "failed" => ListInv'
  <2>1. \A i \in Pushed : next'[i] = next[i]
    BY <1>7 DEF Pushed
  <2>2. \A i \in Pushed : Follows(i, next[i]) => Follows(i, next[i])'
    BY <1>8, <2>1 DEF Follows
  <2> QED BY <1>1, <1>2, <1>8, <2>1, <2>2 DEF ListInv
<1>11. \A i \in Ahead : i \in 1..Len(ops) /\ ops'[i] = ops[i]
  BY <1>4 DEF Ahead, Pushed
<1> HIDE DEF op
<1>12. \A i \in 1..Len(ops') : Untold(ops'[i]) => i \in 1..Len(ops) /\ Untold(ops[i])
  BY <1>3, <1>4
<1>13. connection # "failed" => OutcomeInv'
  <2>1. connection # "failed" => \A i \in Ahead' : Succeeded(ops'[i]) = {}
    BY <1>1, <1>8, <1>11 DEF OutcomeInv
  <2> QED BY <1>1, <1>2, <1>8, <1>12, <2>1 DEF OutcomeInv
<1>14. attached => QueueInv'
  <2>1. CASE attached /\ usable
    <3> DEFINE f == [op |-> op, what |-> "send"]
    <3>1. f.what = "send" /\ Frames' = Append(Frames, f)
      BY <1>6, <2>1
    <3> HIDE DEF f
    <3>2. QueueInv /\ usable /\ state' = state
          /\ \A i \in Ahead : Unheard(ops[i]) => Unheard(ops'[i])
      BY <1>1, <1>2, <1>11, <2>1
    <3> QED BY <1>1, <1>8, <3>1, <3>2, QueueSend
  <2>2. CASE attached /\ ~usable
    <3>1. Frames' = Frames /\ QueueInv /\ state' = state
          /\ \A i \in Ahead : Unheard(ops[i]) => Unheard(ops'[i])
      BY <1>1, <1>2, <1>6, <1>11, <2>2
    <3>2. usable' <=> usable
      BY <3>1 DEF usable
    <3> QED BY <1>8, <3>1, <3>2, QueueKeep
  <2> QED BY <2>1, <2>2
<1>15. \A i \in 1..Len(ops') : /\ Sound(ops'[i]) /\ (i # struck' => Single(ops'[i]))
                               /\ next'[i] # 0 => next'[i] > i
  BY <1>1, <1>2, <1>3, <1>4, <1>7
<1>16. /\ run'.what \in {"closed", "error"} => state' = "closed"
       /\ Fits(run)'
  BY <1>1, <1>2 DEF ChannelInv, Fits
<1>17. FailInv'
  <2>1. connection # "up" /\ struck # 0 =>
          \A i \in 1..Len(ops') : i > struck => Succeeded(ops'[i]) = {}
    BY <1>1, <1>3, <1>4 DEF FailInv
  <2> QED BY <1>1, <1>2, <2>1 DEF FailInv, Fits
<1> QED BY <1>1, <1>2, <1>9, <1>10, <1>12, <1>13, <1>14, <1>15, <1>16, <1>17 DEF ChannelInv

\* The connection lets go of the channel, and its frames are lost.
LEMMA DetachInv ==
  ASSUME ChannelInv, detach
  PROVE  ChannelInv'
<1>1. /\ attached' = FALSE /\ wire' = <<>>
      /\ UNCHANGED <<state, synchronous, queue, oldest, newest, ops, next, run, failVars, alive,
                     handles>>
  BY DEF detach
<1>2. <<>> \in Seq(Frame)
  OBVIOUS
<1>3. TypeOK'
  BY <1>1, <1>2 DEF ChannelInv, TypeOK, Reports, failVars
<1> QED BY <1>1, <1>3, StillInv

\* The ends of the list when a report returns.
LEMMA AdvanceTyped ==
  ASSUME TypeOK, Advance
  PROVE  /\ oldest' \in 0..Len(ops) /\ newest' \in 0..Len(ops)
         /\ run.op # 0 => oldest' = next[run.op]
<1>1. /\ Len(ops) \in Nat /\ run.op \in Nat /\ run.op <= Len(ops)
      /\ oldest \in 0..Len(ops) /\ newest \in 0..Len(ops)
      /\ \A i \in 1..Len(ops) : next[i] \in 0..Len(ops)
  BY ListTyped
<1> QED BY <1>1 DEF Advance

\* A step while the connection is up, which stays up.
LEMMA UpFail ==
  ASSUME ChannelInv, state # "closed", UNCHANGED failVars
  PROVE  /\ FailInv' /\ UNCHANGED <<under, connection, struck>>
         /\ connection' = "up" /\ struck' = 0 /\ under' = Idle
  BY OpenUp DEF FailInv, failVars

\* The broker takes a frame that has no answer.
LEMMA TakeInv ==
  ASSUME ChannelInv, \/ Take \/ reportReady
  PROVE  ChannelInv'
<1>1. /\ TypeOK /\ alive /\ attached /\ run = Idle /\ QueueInv
      /\ connection # "failed" => ListInv /\ OutcomeInv
      /\ \A i \in 1..Len(ops) : /\ Sound(ops[i]) /\ (i # struck => Single(ops[i]))
                                /\ next[i] # 0 => next[i] > i
  BY DEF ChannelInv, Take, reportReady, Answer
<1>2. /\ Answer("send") /\ state' = state /\ run' = run /\ synchronous' = synchronous
      \/ /\ Answer("open") /\ state' = (IF state = "connected" THEN "ready" ELSE state)
         /\ run' = [what |-> "ready", op |-> 0] /\ synchronous' = (synchronous /\ queue # <<>>)
  BY DEF Take, reportReady
<1>3. UNCHANGED <<attached, queue, oldest, newest, ops, next, failVars, alive, handles>>
  BY DEF Take, reportReady
<1>4. run.op = 0 /\ run'.op = 0 /\ run'.what \in {"idle", "ready"}
  BY <1>1, <1>2 DEF Idle
<1>5. /\ wire' \in Seq(Frame) /\ Len(Frames) > 0 /\ Frames[1].what \in {"send", "open"}
      /\ Len(Frames') = Len(Frames) - 1
      /\ \A p \in 1..Len(Frames') : Frames'[p] = Frames[p + 1]
  BY <1>1, <1>2, <1>3, AnswerFrames
<1>6. state # "closed"
  BY <1>1, <1>5 DEF QueueInv
<1>7. /\ FailInv' /\ UNCHANGED <<under, connection, struck>> /\ connection = "up"
      /\ ListInv /\ OutcomeInv
  BY <1>1, <1>3, <1>6, UpFail, OpenUp
<1>8. TypeOK'
  <2>1. run' \in Reports /\ under' \in Reports /\ struck' \in 0..Len(ops)
        /\ connection' \in {"up", "failing", "failed"}
    BY <1>7, <1>1, <1>2, ReportsTyped
  <2>2. state' \in {"connected", "ready", "closing", "closed"} /\ synchronous' \in BOOLEAN
    BY <1>1, <1>2 DEF TypeOK
  <2>3. oldest \in 0..Len(ops) /\ newest \in 0..Len(ops) /\ ops \in Seq(Result)
        /\ queue \in Seq(Frame)
    BY <1>1 DEF TypeOK
  <2> QED BY <1>1, <1>3, <1>5, <2>1, <2>2, <2>3, TypedAfter
<1>9. ListInv' /\ Ahead' = Ahead
  <2>1. Pushed' = Pushed
    BY <1>3, PushedSame
  <2>2. ListInv' /\ Ahead' = Ahead \ {run'.op}
    BY <1>7, <1>1, <1>3, <1>4, <2>1, BeginList
  <2> QED BY <1>1, <1>4, <2>2, AheadTyped
<1>10. (usable' <=> usable) /\ state' # "closed" /\ (state' = "closing" <=> state = "closing")
  BY <1>2, <1>6 DEF usable
<1>11. QueueInv'
  <2>2. Frames[1].what \notin {"call", "close"}
    BY <1>5
  <2>3. Ahead' = Ahead \ {run'.op} /\ \A i \in Ahead' : Unheard(ops[i]) => Unheard(ops'[i])
    BY <1>1, <1>3, <1>4, <1>9, AheadTyped
  <2> QED BY <1>7, <1>1, <1>4, <1>5, <1>6, <1>10, <2>2, <2>3, QueueAnswer
<1>12. OutcomeInv'
  BY <1>7, <1>3, <1>9, <1>10 DEF OutcomeInv
<1>13. /\ run'.what \in {"closed", "error"} => state' = "closed"
       /\ Fits(run)'
  BY <1>4 DEF Fits
<1> QED BY <1>7, <1>1, <1>3, <1>8, <1>9, <1>11, <1>12, <1>13 DEF ChannelInv

\* The broker answers an instruction, or the frame that closes the channel: the result at
\* the head of the list is its own, and has told nothing.
LEMMA AnswerInv ==
  ASSUME ChannelInv, \/ channelSuccess \/ reportClosed
  PROVE  ChannelInv'
<1>1. /\ TypeOK /\ alive /\ attached /\ run = Idle /\ QueueInv
      /\ connection # "failed" => ListInv /\ OutcomeInv
      /\ \A i \in 1..Len(ops) : /\ Sound(ops[i]) /\ (i # struck => Single(ops[i]))
                                /\ next[i] # 0 => next[i] > i
  BY DEF ChannelInv, channelSuccess, reportClosed, Answer
<1>2. \/ Answer("call") /\ Report("success") /\ state' = state
      \/ Answer("close") /\ Report("closed") /\ state' = "closed"
  BY DEF channelSuccess, reportClosed
<1>3. UNCHANGED <<attached, queue, oldest, newest, next, failVars, alive, handles>>
  BY DEF channelSuccess, reportClosed
<1>4. /\ wire' \in Seq(Frame) /\ Len(Frames) > 0 /\ Frames[1].what \in {"call", "close"}
      /\ (Frames[1].what = "close" <=> Report("closed") /\ state' = "closed")
      /\ (Frames[1].what = "call" => Report("success") /\ state' = state)
      /\ Len(Frames') = Len(Frames) - 1
      /\ \A p \in 1..Len(Frames') : Frames'[p] = Frames[p + 1]
  <2>0. queue' = queue
    BY <1>3
  <2>1. CASE Answer("call") /\ Report("success") /\ state' = state
    <3>1. /\ wire' \in Seq(Frame) /\ Len(Frames) > 0 /\ Frames[1].what = "call"
          /\ Len(Frames') = Len(Frames) - 1
          /\ \A p \in 1..Len(Frames') : Frames'[p] = Frames[p + 1]
      BY <1>1, <2>0, <2>1, AnswerFrames
    <3>2. state # "closed"
      BY <1>1, <3>1 DEF QueueInv
    <3> QED BY <2>1, <3>1, <3>2
  <2>2. CASE Answer("close") /\ Report("closed") /\ state' = "closed"
    <3>1. /\ wire' \in Seq(Frame) /\ Len(Frames) > 0 /\ Frames[1].what = "close"
          /\ Len(Frames') = Len(Frames) - 1
          /\ \A p \in 1..Len(Frames') : Frames'[p] = Frames[p + 1]
      BY <1>1, <2>0, <2>2, AnswerFrames
    <3> QED BY <2>2, <3>1
  <2> QED BY <1>2, <2>1, <2>2
<1>5. state # "closed"
  BY <1>1, <1>4 DEF QueueInv
<1>6. /\ FailInv' /\ UNCHANGED <<under, connection, struck>>
       /\ connection = "up" /\ struck = 0 /\ under = Idle
       /\ ListInv /\ OutcomeInv
  BY <1>1, <1>3, <1>5, UpFail, OpenUp
<1>7. /\ TypeOK /\ alive /\ attached /\ run = Idle /\ ListInv /\ OutcomeInv /\ QueueInv
      /\ \A i \in 1..Len(ops) : Sound(ops[i]) /\ Single(ops[i])
  <2>1. \A i \in 1..Len(ops) : i # struck
    BY <1>6
  <2>2. \A i \in 1..Len(ops) : Sound(ops[i]) /\ Single(ops[i])
    BY <1>1, <2>1
  <2> QED BY <1>1, <1>6, <2>2
<1>8. /\ run.op = 0 /\ run'.op = oldest
      /\ run'.what = IF Frames[1].what = "close" THEN "closed" ELSE "success"
      /\ synchronous' = (synchronous /\ (oldest = 0 \/ queue # <<>>))
      /\ run' \in [what : {"success", "closed"}, op : {oldest}]
  BY <1>7, <1>4 DEF Report, Idle
<1>9. oldest \in Ahead /\ Unheard(ops[oldest])
  <2>1. 1 \in Due /\ \A q \in Due : 1 <= q
    BY <1>7, <1>4, FramesTyped DEF Due
  <2>2. Frames[1].op = oldest
    BY <1>7, <1>8, <2>1, FirstDue DEF ListHead
  <2> QED BY <1>7, <2>1, <2>2 DEF QueueInv
<1>10. oldest \in 1..Len(ops) /\ oldest # 0 /\ ops[oldest].class # "none"
  BY <1>7, <1>9, AheadTyped DEF Ahead, Pushed
<1> DEFINE d == Answered(ops[oldest])
<1>11. ops' = [ops EXCEPT ![oldest] = d]
  BY <1>2, <1>10 DEF Report
<1>12. ops \in Seq(Result) /\ \A i \in 1..Len(ops) : ops[i] \in Result
  BY <1>7 DEF TypeOK
<1>13. d \in Result /\ d.class = ops[oldest].class /\ Sound(d) /\ Single(d) /\ ~Untold(d)
  BY <1>7, <1>9, <1>10, <1>12, AnsweredResult
<1> HIDE DEF d
<1>14. /\ ops' \in Seq(Result) /\ Len(ops') = Len(ops) /\ ops'[oldest] = d
       /\ \A k \in 1..Len(ops) : k # oldest => ops'[k] = ops[k]
  BY <1>10, <1>11, <1>12, <1>13, OneResult
<1>15. ListInv' /\ Ahead' = Ahead \ {oldest}
  <2>1. Pushed' = Pushed
    BY <1>10, <1>13, <1>14, PushedSame
  <2> QED BY <1>7, <1>3, <1>8, <2>1, BeginList
<1>16. TypeOK'
  <2>1. state' \in {"connected", "ready", "closing", "closed"} /\ synchronous' \in BOOLEAN
        /\ oldest \in 0..Len(ops) /\ newest \in 0..Len(ops) /\ queue \in Seq(Frame)
    BY <1>7, <1>2, <1>8 DEF TypeOK
  <2>2. run' \in Reports /\ under' \in Reports /\ struck' \in 0..Len(ops)
        /\ connection' \in {"up", "failing", "failed"}
    BY <1>7, <1>8, <1>6, <2>1, ReportsTyped DEF Reports
  <2> QED BY <1>7, <1>3, <1>4, <1>14, <2>1, <2>2, TypedAfter
<1>17. \A i \in Ahead' : i \in 1..Len(ops) /\ i \in Ahead /\ ops'[i] = ops[i]
  BY <1>7, <1>14, <1>15, AheadTyped
<1>18. QueueInv'
  <2>2. \/ (usable' <=> usable) /\ state' # "closed"
           /\ (state' = "closing" <=> state = "closing") /\ state # "closed"
        \/ Frames[1].what = "close" /\ state' = "closed"
    BY <1>4, <1>5 DEF usable
  <2>3. \A i \in Ahead' : Unheard(ops[i]) => Unheard(ops'[i])
    BY <1>17
  <2> QED BY <1>7, <1>4, <1>8, <1>15, <2>2, <2>3, QueueAnswer
<1>19. OutcomeInv'
  <2>1. \A i \in Ahead' : Succeeded(ops'[i]) = {}
    BY <1>7, <1>17 DEF OutcomeInv
  <2>2. \A i \in 1..Len(ops') : Untold(ops'[i]) => i \in Ahead'
    <3> SUFFICES ASSUME NEW i \in 1..Len(ops'), Untold(ops'[i]) PROVE i \in Ahead'
      OBVIOUS
    <3>1. i # oldest
      BY <1>13, <1>14
    <3>2. ops'[i] = ops[i] /\ i \in 1..Len(ops)
      BY <1>14, <3>1
    <3> QED BY <1>7, <1>15, <3>1, <3>2 DEF OutcomeInv
  <2>3. state' = "closed" => run'.what \in {"closed", "error"}
    BY <1>4, <1>5, <1>8
  <2> QED BY <2>1, <2>2, <2>3 DEF OutcomeInv
<1>20. \A i \in 1..Len(ops') : /\ Sound(ops'[i]) /\ Single(ops'[i])
                               /\ next'[i] # 0 => next'[i] > i
  BY <1>1, <1>7, <1>3, <1>13, <1>14
<1>21. /\ run'.what \in {"closed", "error"} => state' = "closed"
       /\ Fits(run)'
  BY <1>4, <1>8, <1>10 DEF Fits
<1>22. FailInv'
  BY <1>6
<1> QED BY <1>7, <1>3, <1>15, <1>16, <1>18, <1>19, <1>20, <1>21, <1>6, <1>22 DEF ChannelInv

\* The handler returns from onReady: frames that waited are sent.
LEMMA ReadyInv ==
  ASSUME ChannelInv, readyReturns
  PROVE  ChannelInv'
<1>1. /\ TypeOK /\ run.op = 0 /\ run.what = "ready" /\ run' = Idle /\ FailInv
      /\ UNCHANGED <<state, attached, oldest, newest, ops, next, under, connection, struck, alive,
                     handles>>
      /\ \A i \in 1..Len(ops) : /\ Sound(ops[i]) /\ (i # struck => Single(ops[i]))
                                /\ next[i] # 0 => next[i] > i
  BY DEF ChannelInv, readyReturns, failVars, Fits
<1>2. /\ queue' \in Seq(Frame) /\ wire' \in Seq(Frame) /\ synchronous' \in BOOLEAN
      /\ alive => Frames' = Frames
  <2>1. CASE alive
    BY <1>1, <2>1, SyncFrames DEF readyReturns
  <2>2. CASE ~alive
    BY <1>1, <2>2 DEF readyReturns, TypeOK
  <2> QED BY <2>1, <2>2
<1>3. run'.op = 0 /\ run'.what = "idle" /\ Fits(run)'
  BY <1>1 DEF Idle, Fits
<1>4. TypeOK'
  <2>1. run' \in Reports /\ under' \in Reports /\ struck' \in 0..Len(ops)
        /\ connection' \in {"up", "failing", "failed"}
    BY <1>1, ReportsTyped
  <2>2. /\ state \in {"connected", "ready", "closing", "closed"} /\ ops \in Seq(Result)
        /\ oldest \in 0..Len(ops) /\ newest \in 0..Len(ops)
    BY <1>1 DEF TypeOK
  <2> QED BY <1>1, <1>2, <2>1, <2>2, TypedAfter
<1>5. Ahead' = Ahead /\ (alive /\ connection # "failed" => ListInv')
  <2>1. Pushed' = Pushed
    BY <1>1, PushedSame
  <2>2. alive /\ connection # "failed" => ListInv'
    BY <1>1, <1>3, <2>1, BeginList DEF ChannelInv
  <2>3. Ahead' = Ahead
    BY <1>1, <1>3, <2>1 DEF Ahead
  <2> QED BY <2>2, <2>3
<1>6. alive /\ connection # "failed" => OutcomeInv'
  BY <1>1, <1>5 DEF ChannelInv, OutcomeInv
<1>7. alive /\ attached => QueueInv'
  <2>1. usable' <=> usable
    BY <1>1 DEF usable
  <2> QED BY <1>1, <1>2, <1>5, <2>1, QueueKeep DEF ChannelInv
<1>8. FailInv'
  BY <1>1, <1>3 DEF FailInv, Fits
<1> QED BY <1>1, <1>3, <1>4, <1>5, <1>6, <1>7, <1>8 DEF ChannelInv

\* The callback of a success returns: the list loses its head, and frames are sent.
LEMMA SuccessInv ==
  ASSUME ChannelInv, successReturns
  PROVE  ChannelInv'
<1>1. /\ TypeOK /\ run.what = "success" /\ run' = Idle /\ ops' = Collected(ops) /\ FailInv
      /\ UNCHANGED <<state, attached, next, under, connection, struck, alive, handles>>
      /\ \A i \in 1..Len(ops) : /\ Sound(ops[i]) /\ (i # struck => Single(ops[i]))
                                /\ next[i] # 0 => next[i] > i
  BY DEF ChannelInv, successReturns, failVars
<1>2. /\ ops' \in Seq(Result) /\ Len(ops') = Len(ops)
      /\ \A i \in 1..Len(ops) : Calm(ops[i], ops'[i])
  <2>1. ops \in Seq(Result)
    BY <1>1 DEF TypeOK
  <2> QED BY <1>1, <2>1, CollectedCalm
<1>3. \A i \in 1..Len(ops') : /\ Sound(ops'[i]) /\ (i # struck => Single(ops'[i]))
                              /\ next'[i] # 0 => next'[i] > i
  <2> SUFFICES ASSUME NEW i \in 1..Len(ops')
               PROVE  /\ Sound(ops'[i]) /\ (i # struck => Single(ops'[i]))
                      /\ next'[i] # 0 => next'[i] > i
    OBVIOUS
  <2>1. i \in 1..Len(ops) /\ Calm(ops[i], ops'[i]) /\ next'[i] = next[i]
    BY <1>1, <1>2
  <2>2. /\ Sound(ops[i]) /\ (i # struck => Single(ops[i]))
        /\ next[i] # 0 => next[i] > i
    BY <1>1, <2>1
  <2> QED BY <2>1, <2>2 DEF Calm
<1>4. Pushed' = Pushed
  BY <1>2, PushedSame DEF Calm
<1>5. run'.op = 0 /\ run'.what = "idle" /\ Fits(run)'
  BY <1>1 DEF Idle, Fits
<1>6. /\ queue' \in Seq(Frame) /\ wire' \in Seq(Frame) /\ synchronous' \in BOOLEAN
      /\ alive => Frames' = Frames
  <2>1. CASE alive
    BY <1>1, <2>1, SyncFrames DEF successReturns
  <2>2. CASE ~alive
    BY <1>1, <2>2 DEF successReturns, TypeOK
  <2> QED BY <2>1, <2>2
<1>7. alive /\ connection # "failed" => ListInv' /\ Ahead' = Ahead
  <2> SUFFICES ASSUME alive, connection # "failed" PROVE ListInv' /\ Ahead' = Ahead
    OBVIOUS
  <2>1. ListInv /\ Advance /\ run'.op \in {0, oldest'} /\ next' = next
    BY <1>1, <1>5 DEF ChannelInv, successReturns
  <2>2. ListInv' /\ Ahead' = Ahead \ {run'.op}
    BY <1>1, <1>4, <2>1, AdvanceList
  <2> QED BY <1>1, <1>5, <2>2, AheadTyped
<1>8. oldest' \in 0..Len(ops) /\ newest' \in 0..Len(ops)
  <2>1. CASE ~alive
    BY <1>1, <2>1 DEF TypeOK, successReturns
  <2>2. CASE alive
    BY <1>1, <2>2, AdvanceTyped DEF successReturns
  <2> QED BY <2>1, <2>2
<1>9. TypeOK'
  <2>1. run' \in Reports /\ under' \in Reports /\ struck' \in 0..Len(ops)
        /\ connection' \in {"up", "failing", "failed"}
    BY <1>1, ReportsTyped
  <2>2. state \in {"connected", "ready", "closing", "closed"}
    BY <1>1 DEF TypeOK
  <2> QED BY <1>1, <1>2, <1>6, <1>8, <2>1, <2>2, TypedAfter
<1>10. alive /\ connection # "failed" => OutcomeInv'
  <2> SUFFICES ASSUME alive, connection # "failed" PROVE OutcomeInv'
    OBVIOUS
  <2>1. OutcomeInv /\ Ahead \subseteq 1..Len(ops) /\ Ahead' = Ahead
    BY <1>1, <1>7, AheadTyped DEF ChannelInv
  <2>2. state' = "closed" => state = "closed" /\ run.what \notin {"closed", "error"}
    BY <1>1
  <2> QED BY <1>1, <1>2, <2>1, <2>2 DEF OutcomeInv, Calm
<1>11. alive /\ connection = "failed" => \A i \in 1..Len(ops') : ~Untold(ops'[i])
  BY <1>2 DEF ChannelInv, Calm
<1>12. alive /\ attached => QueueInv'
  <2> SUFFICES ASSUME alive, attached PROVE QueueInv'
    OBVIOUS
  <2>1. (usable' <=> usable) /\ state' = state /\ QueueInv
    BY <1>1 DEF usable, ChannelInv
  <2>2. CASE state = "closed"
    BY <1>6, <2>1, <2>2, QueueShut
  <2>3. CASE state # "closed"
    <3>1. \A i \in Ahead : Unheard(ops[i]) => Unheard(ops'[i])
      BY <1>1, <1>2, AheadTyped DEF Calm
    <3>2. Ahead' = Ahead
      BY <1>7, <2>3, OpenUp
    <3> QED BY <1>6, <2>1, <3>1, <3>2, QueueKeep
  <2> QED BY <2>2, <2>3
<1>13. FailInv'
  <2>1. \A i \in 1..Len(ops') : Succeeded(ops'[i]) = Succeeded(ops[i])
    BY <1>2 DEF Calm
  <2> QED BY <1>1, <1>2, <1>5, <2>1 DEF FailInv, Fits
<1> QED BY <1>1, <1>3, <1>5, <1>7, <1>9, <1>10, <1>11, <1>12, <1>13 DEF ChannelInv

\* When a report returns the head of the list is the next of those ahead.
LEMMA AdvanceEnds ==
  ASSUME TypeOK, ListInv, Advance
  PROVE  /\ oldest' # 0 => oldest' \in Ahead
         /\ oldest' = 0 => Ahead = {}
<1>1. oldest' = ListHead
  BY DEF Advance, ListHead
<1>2. (Ahead # {} => ListHead \in Ahead) /\ (Ahead = {} => ListHead = 0)
  BY HeadLeast
<1> QED BY <1>1, <1>2, AheadTyped

\* The callback of close() or of an error returns: the next result in the list is told of
\* the failure, until there is none; then the report that was interrupted goes on.
LEMMA ErrorInv ==
  ASSUME ChannelInv, \/ closedReturns \/ errorReturns
  PROVE  ChannelInv'
<1>1. /\ TypeOK /\ run.what \in {"closed", "error"} /\ run.op # 0 /\ state = "closed"
      /\ FailInv
      /\ UNCHANGED <<state, attached, wire, next, struck, alive, handles>>
      /\ ops \in Seq(Result) /\ Len(ops) \in Nat
      /\ \A i \in 1..Len(ops) : Sound(ops[i])
  BY ListTyped DEF ChannelInv, closedReturns, errorReturns, Fits, TypeOK
<1>2. \A i \in 1..Len(ops) : (i # struck => Single(ops[i])) /\ (next[i] # 0 => next[i] > i)
  BY DEF ChannelInv
<1>3. /\ \/ queue' = <<>> /\ synchronous' = FALSE
         \/ UNCHANGED <<queue, synchronous>>
  BY DEF closedReturns, errorReturns
<1>4. queue' \in Seq(Frame) /\ wire' \in Seq(Frame) /\ synchronous' \in BOOLEAN
  <2>1. <<>> \in Seq(Frame)
    OBVIOUS
  <2> QED BY <1>1, <1>3, <2>1 DEF TypeOK
<1>5. Back => /\ run' \in Reports /\ under' \in Reports /\ under' = Idle /\ Fits(run)'
              /\ connection' = (IF connection = "failing" THEN "failed" ELSE connection)
              /\ run' = under /\ (connection # "failing" => run' = Idle /\ run'.op = 0)
              /\ connection = "failing" => run'.op = struck
  <2>1. connection # "failing" => under = Idle
    BY <1>1 DEF FailInv
  <2>2. connection = "failing" => under.op = struck /\ Fits(under)
    BY <1>1 DEF FailInv
  <2> QED BY <1>1, <2>1, <2>2, ReportsTyped DEF Back, Idle, Fits
<1>6. ASSUME Quiet(ops, ops'), run' \in Reports, under' \in Reports, Fits(run)',
             connection' \in {"up", "failing", "failed"},
             oldest' \in 0..Len(ops), newest' \in 0..Len(ops)
      PROVE  /\ TypeOK'
             /\ \A i \in 1..Len(ops') : /\ Sound(ops'[i]) /\ (i # struck' => Single(ops'[i]))
                                        /\ next'[i] # 0 => next'[i] > i
             /\ struck # 0 /\ connection # "up" =>
                  \A i \in 1..Len(ops') : i > struck => Succeeded(ops'[i]) = {}
  <2>1. ops' \in Seq(Result) /\ Len(ops') = Len(ops) /\ struck' \in 0..Len(ops)
        /\ state' \in {"connected", "ready", "closing", "closed"}
    BY <1>1, <1>6, ReportsTyped DEF Quiet
  <2>2. TypeOK'
    BY <1>1, <1>4, <1>6, <2>1, TypedAfter
  <2>3. \A i \in 1..Len(ops') : i \in 1..Len(ops) /\ next'[i] = next[i] /\ struck' = struck
    BY <1>1, <2>1
  <2>4. \A i \in 1..Len(ops') : Sound(ops'[i]) /\ (i # struck' => Single(ops'[i]))
    BY <1>2, <1>6, <2>3 DEF Quiet
  <2>5. struck # 0 /\ connection # "up" =>
          \A i \in 1..Len(ops') : i > struck => Succeeded(ops'[i]) = {}
    BY <1>1, <1>6, <2>3 DEF Quiet, FailInv
  <2> QED BY <1>2, <2>2, <2>3, <2>4, <2>5
<1>7. ASSUME Back, struck # 0 /\ connection # "up" =>
                     \A i \in 1..Len(ops') : i > struck => Succeeded(ops'[i]) = {}
      PROVE  FailInv'
  <2>1. state' = "closed" /\ struck' = struck /\ under' = Idle
    BY <1>1, <1>5, <1>7
  <2>2. CASE connection = "up"
    BY <1>1, <1>5, <1>7, <2>1, <2>2 DEF FailInv
  <2>3. CASE connection = "failing"
    <3>1. connection' = "failed" /\ run'.op = struck
      BY <1>5, <1>7, <2>3
    <3>2. struck \in Nat
      <4>1. TypeOK /\ Len(ops) \in Nat
        BY <1>1
      <4>2. struck \in 0..Len(ops)
        BY <4>1, ReportsTyped
      <4> QED BY <4>1, <4>2
    <3>3. struck >= struck
      BY <3>2
    <3>4. /\ connection' # "up" /\ connection' # "failing" /\ state' = "closed"
          /\ run'.op # 0 => struck' # 0 /\ run'.op >= struck'
          /\ struck' # 0 => \A i \in 1..Len(ops') : i > struck' => Succeeded(ops'[i]) = {}
      BY <1>7, <2>1, <2>3, <3>1, <3>3
    <3> QED BY <2>1, <3>4 DEF FailInv
  <2>4. CASE connection = "failed"
    <3>1. connection' = "failed" /\ run'.op = 0
      BY <1>5, <1>7, <2>4
    <3> QED BY <1>7, <2>1, <2>4, <3>1 DEF FailInv
  <2>5. connection \in {"up", "failing", "failed"}
    BY <1>1, ReportsTyped
  <2> QED BY <2>2, <2>3, <2>4, <2>5
<1>8. CASE ~alive
  <2>1. Back /\ ops' = Collected(ops) /\ UNCHANGED <<oldest, newest>>
    BY <1>8 DEF closedReturns, errorReturns
  <2>2. Quiet(ops, ops') /\ oldest' \in 0..Len(ops) /\ newest' \in 0..Len(ops)
        /\ connection' \in {"up", "failing", "failed"}
    BY <1>1, <1>5, <2>1, CollectedQuiet, ReportsTyped DEF TypeOK
  <2>3. FailInv'
    BY <1>5, <1>6, <1>7, <2>1, <2>2
  <2> QED BY <1>1, <1>5, <1>6, <1>8, <2>1, <2>2, <2>3 DEF ChannelInv
<1>9. CASE alive
  <2>1. Advance /\ Tell(oldest')
    BY <1>9 DEF closedReturns, errorReturns
  <2>2. oldest' \in 0..Len(ops) /\ newest' \in 0..Len(ops) /\ oldest' = next[run.op]
    BY <1>1, <2>1, AdvanceTyped
  <2>3. /\ connection # "failed" => ListInv /\ OutcomeInv
        /\ connection = "failed" => \A i \in 1..Len(ops) : ~Untold(ops[i])
        /\ attached => QueueInv
    BY <1>9 DEF ChannelInv
  <2>4. connection # "failed" => /\ oldest' # 0 => oldest' \in Ahead
                                 /\ oldest' = 0 => Ahead = {}
    BY <1>1, <2>1, <2>3, AdvanceEnds
  <2>5. connection = "failed" /\ oldest' # 0 => struck # 0 /\ oldest' > struck
    <3>1. connection = "failed" => struck # 0 /\ run.op >= struck
      BY <1>1 DEF FailInv
    <3>2. run.op \in 1..Len(ops) /\ struck \in Nat /\ oldest' \in Nat
      BY <1>1, <2>2, ListTyped, ReportsTyped
    <3>3. oldest' # 0 => oldest' > run.op
      BY <1>2, <2>2, <3>2
    <3> QED BY <3>1, <3>2, <3>3
  <2>6. oldest' # 0 => Succeeded(ops[oldest']) = {}
    <3>1. CASE connection = "failed"
      <4>1. struck # 0 => \A i \in 1..Len(ops) : i > struck => Succeeded(ops[i]) = {}
        BY <1>1, <3>1 DEF FailInv
      <4>2. oldest' # 0 => oldest' \in 1..Len(ops)
        BY <1>1, <2>2
      <4> QED BY <2>5, <3>1, <4>1, <4>2
    <3>2. CASE connection # "failed"
      BY <2>3, <2>4, <3>2 DEF OutcomeInv
    <3> QED BY <3>1, <3>2
  <2>7. /\ Quiet(ops, ops') /\ \A i \in 1..Len(ops) : Untold(ops'[i]) => i # oldest'
        /\ oldest' = 0 => Back
        /\ oldest' # 0 => run' = [what |-> "error", op |-> oldest']
                          /\ UNCHANGED <<under, connection>>
    BY <1>1, <2>1, <2>2, <2>6, TellQuiet
  <2>8. /\ run' \in Reports /\ under' \in Reports /\ Fits(run)'
        /\ connection' \in {"up", "failing", "failed"}
        /\ oldest' # 0 => run'.op = oldest' /\ run'.what = "error" /\ connection' = connection
        /\ oldest' = 0 =>
             connection' = IF connection = "failing" THEN "failed" ELSE connection
    <3>1. CASE oldest' = 0
      BY <1>1, <1>5, <2>7, <3>1, ReportsTyped
    <3>2. CASE oldest' # 0
      BY <1>1, <2>2, <2>7, <3>2, ReportsTyped DEF Fits
    <3> QED BY <3>1, <3>2
  <2>9. /\ TypeOK'
        /\ \A i \in 1..Len(ops') : /\ Sound(ops'[i]) /\ (i # struck' => Single(ops'[i]))
                                   /\ next'[i] # 0 => next'[i] > i
        /\ struck # 0 /\ connection # "up" =>
             \A i \in 1..Len(ops') : i > struck => Succeeded(ops'[i]) = {}
    BY <1>6, <2>2, <2>7, <2>8
  <2>10. FailInv'
    <3>1. CASE oldest' = 0
      BY <1>7, <2>7, <2>9, <3>1
    <3>2. CASE oldest' # 0
      <4>1. /\ connection' = connection /\ struck' = struck /\ under' = under
            /\ run'.what = "error" /\ run'.op = oldest'
        BY <1>1, <2>7, <2>8, <3>2
      <4>2. connection = "failed" => struck # 0 /\ oldest' >= struck
        BY <2>2, <2>5, <3>2, ReportsTyped, <1>1
      <4> QED BY <1>1, <2>9, <4>1, <4>2 DEF FailInv, Fits
    <3> QED BY <3>1, <3>2
  <2>11. Pushed' = Pushed /\ Len(ops') = Len(ops)
    BY <2>7, PushedSame DEF Quiet
  <2>12. connection' # "failed" => run'.op = oldest' /\ connection # "failed"
    BY <1>5, <2>7, <2>8
  <2>13. connection' # "failed" => ListInv' /\ Ahead' = Ahead \ {oldest'}
    BY <1>1, <2>1, <2>3, <2>11, <2>12, AdvanceList
  <2>14. connection' # "failed" => OutcomeInv'
    <3> SUFFICES ASSUME connection' # "failed" PROVE OutcomeInv'
      OBVIOUS
    <3>1. Ahead \subseteq 1..Len(ops) /\ OutcomeInv /\ Ahead' = Ahead \ {oldest'}
      BY <1>1, <2>3, <2>12, <2>13, AheadTyped
    <3>2. \A i \in 1..Len(ops) : Untold(ops'[i]) => i \notin Ahead \ Ahead'
      BY <2>7, <3>1
    <3>3. run'.what \in {"closed", "error"} \/ Ahead' = {}
      BY <2>4, <2>8, <2>12, <3>1
    <3> QED BY <2>7, <3>1, <3>2, <3>3, QuietOutcome
  <2>15. connection' = "failed" => \A i \in 1..Len(ops') : ~Untold(ops'[i])
    <3>1. CASE connection = "failed"
      BY <2>3, <2>7, <2>11, <3>1 DEF Quiet
    <3>2. CASE connection # "failed" /\ connection' = "failed"
      <4>1. oldest' = 0 /\ Ahead = {}
        BY <2>4, <2>8, <3>2
      <4> QED BY <2>3, <2>7, <2>11, <3>2, <4>1 DEF Quiet, OutcomeInv
    <3> QED BY <3>1, <3>2
  <2>16. attached => QueueInv'
    <3> SUFFICES ASSUME attached PROVE QueueInv'
      OBVIOUS
    <3>1. Len(Frames) = 0
      BY <1>1, <2>3 DEF QueueInv
    <3>2. wire \in Seq(Frame) /\ queue \in Seq(Frame)
      BY <1>1 DEF TypeOK
    <3>3. wire = <<>> /\ queue = <<>>
      <4>1. Len(wire) + Len(queue) = 0
        BY <3>1, <3>2, ConcatProperties DEF Frames
      <4> QED BY <3>2, <4>1, EmptySeq
    <3>4. wire' = wire /\ queue' = queue
      BY <1>1, <1>3, <3>3
    <3>5. Len(Frames') = 0
      BY <3>1, <3>4 DEF Frames
    <3> QED BY <1>1, <3>5, QueueClosed
  <2> QED BY <1>1, <1>9, <2>8, <2>9, <2>10, <2>13, <2>14, <2>15, <2>16 DEF ChannelInv
<1> QED BY <1>8, <1>9

\* The broker closes the channel: the head of the list is told.
LEMMA ChannelErrorInv ==
  ASSUME ChannelInv, reportChannelError
  PROVE  ChannelInv'
<1>1. /\ TypeOK /\ run = Idle /\ alive /\ state # "closed" /\ FailInv
      /\ Closes /\ Tell(oldest)
      /\ UNCHANGED <<attached, oldest, newest, next, struck, alive, handles>>
      /\ ops \in Seq(Result) /\ Len(ops) \in Nat
      /\ \A i \in 1..Len(ops) : Sound(ops[i])
  BY ListTyped DEF ChannelInv, reportChannelError, TypeOK
<1>2. \A i \in 1..Len(ops) : (i # struck => Single(ops[i])) /\ (next[i] # 0 => next[i] > i)
  BY DEF ChannelInv
<1>3. ListInv /\ OutcomeInv /\ connection = "up" /\ struck = 0 /\ under = Idle
  BY <1>1, OpenUp
<1>4. run.op = 0 /\ oldest \in 0..Len(ops) /\ newest \in 0..Len(ops)
  BY <1>1 DEF Idle, TypeOK
<1>5. (oldest # 0 => oldest \in Ahead) /\ (oldest = 0 => Ahead = {})
  BY <1>3, <1>4 DEF Ahead, ListInv
<1>6. oldest # 0 => Succeeded(ops[oldest]) = {}
  BY <1>3, <1>5 DEF OutcomeInv
<1>7. /\ Quiet(ops, ops') /\ \A i \in 1..Len(ops) : Untold(ops'[i]) => i # oldest
      /\ oldest = 0 => Back
      /\ oldest # 0 => run' = [what |-> "error", op |-> oldest] /\ UNCHANGED <<under, connection>>
  BY <1>1, <1>4, <1>6, TellQuiet
<1>8. /\ under' = Idle /\ connection' = "up" /\ run' \in Reports /\ Fits(run)'
      /\ run'.op = oldest /\ (oldest # 0 => run'.what = "error")
  <2>1. CASE oldest = 0
    BY <1>1, <1>3, <1>7, <2>1, ReportsTyped DEF Back, Idle, Fits
  <2>2. CASE oldest # 0
    BY <1>1, <1>3, <1>4, <1>7, <2>2, ReportsTyped DEF Fits
  <2> QED BY <2>1, <2>2
<1>9. ops' \in Seq(Result) /\ Len(ops') = Len(ops) /\ \A i \in 1..Len(ops') : Sound(ops'[i])
  BY <1>7 DEF Quiet
<1>10. state' = "closed" /\ synchronous' = FALSE /\ queue' = <<>> /\ wire' = <<>>
  BY <1>1 DEF Closes
<1>11. TypeOK'
  <2>1. queue' \in Seq(Frame) /\ wire' \in Seq(Frame) /\ synchronous' \in BOOLEAN
    <3>1. <<>> \in Seq(Frame)
      OBVIOUS
    <3> QED BY <1>10, <3>1
  <2>2. state' \in {"connected", "ready", "closing", "closed"} /\ struck' \in 0..Len(ops)
        /\ connection' \in {"up", "failing", "failed"} /\ under' \in Reports
    BY <1>1, <1>8, <1>10, ReportsTyped
  <2> QED BY <1>1, <1>4, <1>8, <1>9, <2>1, <2>2, TypedAfter
<1>12. \A i \in 1..Len(ops') : (i # struck' => Single(ops'[i])) /\ (next'[i] # 0 => next'[i] > i)
  BY <1>1, <1>2, <1>7, <1>9 DEF Quiet
<1>13. ListInv' /\ Ahead' = Ahead \ {oldest}
  <2>1. Pushed' = Pushed
    BY <1>7, PushedSame DEF Quiet
  <2> QED BY <1>1, <1>3, <1>4, <1>8, <2>1, BeginList
<1>14. OutcomeInv'
  <2>1. Ahead \subseteq 1..Len(ops)
    BY <1>1, AheadTyped
  <2>2. \A i \in 1..Len(ops) : Untold(ops'[i]) => i \notin Ahead \ Ahead'
    BY <1>7, <1>13
  <2>3. run'.what \in {"closed", "error"} \/ Ahead' = {}
    BY <1>5, <1>8, <1>13
  <2> QED BY <1>3, <1>7, <1>13, <2>1, <2>2, <2>3, QuietOutcome
<1>15. QueueInv'
  <2>1. Len(Frames') = 0
    BY <1>10 DEF Frames
  <2> QED BY <1>10, <2>1, QueueClosed
<1>16. FailInv'
  BY <1>1, <1>3, <1>8 DEF FailInv
<1> QED BY <1>8, <1>9, <1>10, <1>11, <1>12, <1>13, <1>14, <1>15, <1>16 DEF ChannelInv

\* The connection fails, also from within a callback: the head of the list is told, which
\* may be the result whose callback it is, and that has perhaps succeeded.
LEMMA FailsInv ==
  ASSUME ChannelInv, fail
  PROVE  ChannelInv'
<1>1. /\ TypeOK /\ alive /\ attached /\ connection = "up" /\ FailInv /\ Fits(run)
      /\ Closes /\ struck' = run.op
      /\ UNCHANGED <<attached, oldest, newest, next, alive, handles>>
      /\ ops \in Seq(Result) /\ Len(ops) \in Nat
      /\ \A i \in 1..Len(ops) : Sound(ops[i])
  BY ListTyped DEF ChannelInv, fail, TypeOK
<1>2. /\ struck = 0 /\ under = Idle /\ ListInv /\ OutcomeInv
      /\ \A i \in 1..Len(ops) : Single(ops[i]) /\ (next[i] # 0 => next[i] > i)
  <2>1. struck = 0 /\ under = Idle
    BY <1>1 DEF FailInv
  <2>2. \A i \in 1..Len(ops) : i # struck
    BY <2>1
  <2> QED BY <1>1, <2>1, <2>2 DEF ChannelInv
<1>3. state' = "closed" /\ synchronous' = FALSE /\ queue' = <<>> /\ wire' = <<>>
  BY <1>1 DEF Closes
<1>4. queue' \in Seq(Frame) /\ wire' \in Seq(Frame) /\ synchronous' \in BOOLEAN
  <2>1. <<>> \in Seq(Frame)
    OBVIOUS
  <2> QED BY <1>3, <2>1
<1>5. QueueInv'
  <2>1. Len(Frames') = 0
    BY <1>3 DEF Frames
  <2> QED BY <1>3, <2>1, QueueClosed
<1>6. /\ run.op \in 0..Len(ops) /\ oldest \in 0..Len(ops) /\ newest \in 0..Len(ops)
      /\ run.op # 0 => run.op = oldest
  BY <1>1, <1>2, ListTyped DEF ListInv, TypeOK
<1>7. state' \in {"connected", "ready", "closing", "closed"}
  BY <1>3
<1>8. CASE oldest = 0
  <2>1. connection' = "failed" /\ UNCHANGED <<run, under, ops>> /\ run.op = 0
    BY <1>6, <1>8 DEF fail
  <2>2. TypeOK'
    BY <1>1, <1>4, <1>6, <1>7, <2>1, ReportsTyped, TypedAfter
  <2>3. Ahead = {}
    BY <1>8 DEF Ahead
  <2>4. \A i \in 1..Len(ops') : ~Untold(ops'[i])
    BY <1>2, <2>1, <2>3 DEF OutcomeInv
  <2>5. FailInv' /\ Fits(run)'
    BY <1>1, <1>2, <1>3, <2>1 DEF FailInv, Fits
  <2> QED BY <1>1, <1>2, <1>3, <1>5, <2>1, <2>2, <2>4, <2>5 DEF ChannelInv
<1>9. CASE oldest # 0
  <2> DEFINE p == [ops EXCEPT ![oldest] = reportError(@)]
  <2>1. /\ connection' = "failing" /\ under' = run /\ ops' = p
        /\ run' = [what |-> "error", op |-> oldest]
    BY <1>9 DEF fail
  <2>2. oldest \in 1..Len(ops)
    BY <1>1, <1>6, <1>9
  <2>3. run.op # oldest => run.op = 0 /\ oldest \in Ahead
    BY <1>2, <1>6, <1>9, <2>2, ListTyped DEF Ahead, ListInv
  <2>4. oldest = struck' \/ Succeeded(ops[oldest]) = {}
    BY <1>1, <1>2, <2>3 DEF OutcomeInv
  <2>5. Quiet(ops, p) /\ ~Untold(p[oldest])
    BY <1>1, <2>2, <2>4, ErrorQuiet
  <2> HIDE DEF p
  <2>6. /\ ops' \in Seq(Result) /\ Len(ops') = Len(ops)
        /\ \A i \in 1..Len(ops') : Sound(ops'[i]) /\ (i # struck' => Single(ops'[i]))
    BY <1>2, <2>1, <2>5 DEF Quiet
  <2>7. run' \in Reports /\ under' \in Reports /\ struck' \in 0..Len(ops)
        /\ connection' \in {"up", "failing", "failed"}
    BY <1>1, <1>6, <2>1, ReportsTyped
  <2>8. TypeOK'
    BY <1>1, <1>4, <1>6, <1>7, <2>6, <2>7, TypedAfter
  <2>9. Pushed' = Pushed
    BY <2>1, <2>5, PushedSame DEF Quiet
  <2>10. run'.op = oldest /\ run'.what = "error"
    BY <2>1
  <2>11. ListInv' /\ Ahead' = Ahead \ {oldest}
    <3>1. ListInv'
      BY <1>1, <1>2, <2>9, <2>10 DEF ListInv, Follows
    <3>2. Ahead' = Ahead \ {oldest}
      <4>1. run.op = 0 \/ run.op = oldest
        BY <1>6
      <4>2. 0 \notin Pushed
        BY <1>1, ListTyped
      <4> QED BY <1>1, <2>9, <2>10, <4>1, <4>2 DEF Ahead
    <3> QED BY <3>1, <3>2
  <2>12. OutcomeInv'
    <3>1. Ahead \subseteq 1..Len(ops)
      BY <1>1, AheadTyped
    <3>2. \A i \in 1..Len(ops) : Untold(ops'[i]) => i \notin Ahead \ Ahead'
      BY <2>1, <2>5, <2>11
    <3> QED BY <1>2, <2>1, <2>5, <2>10, <2>11, <3>1, <3>2, QuietOutcome
  <2>13. struck' # 0 => \A i \in 1..Len(ops') : i > struck' => Succeeded(ops'[i]) = {}
    <3> SUFFICES ASSUME struck' # 0, NEW i \in 1..Len(ops), i > struck'
                 PROVE  Succeeded(ops[i]) = {}
      BY <2>1, <2>5, <2>6 DEF Quiet
    <3>1. struck' = oldest /\ i > oldest
      BY <1>1, <1>6
    <3>2. CASE ops[i].class = "none"
      BY <1>1, <3>2 DEF Sound
    <3>3. CASE ops[i].class # "none"
      <4>1. i \in Ahead
        <5>1. i \in Pushed /\ i # oldest /\ i >= oldest
          BY <1>6, <3>1, <3>3 DEF Pushed
        <5>2. run.op = oldest
          BY <1>1, <1>6
        <5> QED BY <1>9, <5>1, <5>2 DEF Ahead
      <4> QED BY <1>2, <4>1 DEF OutcomeInv
    <3> QED BY <3>2, <3>3
  <2>14. FailInv' /\ Fits(run)'
    BY <1>1, <1>3, <1>9, <2>1, <2>10, <2>13 DEF FailInv, Fits
  <2>15. \A i \in 1..Len(ops') : next'[i] # 0 => next'[i] > i
    BY <1>1, <1>2, <2>6
  <2> QED BY <1>1, <1>3, <1>5, <2>1, <2>6, <2>8, <2>11, <2>12, <2>14, <2>15 DEF ChannelInv
<1> QED BY <1>8, <1>9

\* The object is destroyed, and the results that only it held.
LEMMA DestroyInv ==
  ASSUME ChannelInv, Destroy
  PROVE  ChannelInv'
<1>1. /\ TypeOK /\ alive' = FALSE /\ ops' = Collected(ops) /\ FailInv /\ Fits(run)
      /\ UNCHANGED <<implVars, next, run, failVars, handles>>
      /\ ops \in Seq(Result) /\ \A i \in 1..Len(ops) : Sound(ops[i])
  BY DEF ChannelInv, Destroy, TypeOK
<1>2. ops' \in Seq(Result) /\ Len(ops') = Len(ops) /\ \A i \in 1..Len(ops) : Calm(ops[i], ops'[i])
  BY <1>1, CollectedCalm
<1>3. TypeOK'
  BY <1>1, <1>2 DEF TypeOK, Reports, implVars, failVars
<1>4. \A i \in 1..Len(ops') : /\ Sound(ops'[i]) /\ (i # struck' => Single(ops'[i]))
                              /\ next'[i] # 0 => next'[i] > i
  BY <1>1, <1>2 DEF ChannelInv, Calm, failVars
<1>5. FailInv' /\ Fits(run)'
  <2>1. \A i \in 1..Len(ops') : Succeeded(ops'[i]) = Succeeded(ops[i])
    BY <1>2 DEF Calm
  <2> QED BY <1>1, <1>2, <2>1 DEF FailInv, Fits, implVars, failVars
<1> QED BY <1>1, <1>3, <1>4, <1>5 DEF ChannelInv, implVars

\* Initially the channel has sent the frame that opens it.
LEMMA InitInv ==
  ASSUME Init, MaxOps \in Nat
  PROVE  ChannelInv
<1> DEFINE f == [op |-> 0, what |-> "open"]
<1>1. f \in Frame /\ f.what = "open"
  BY DEF Frame
<1>2. wire = <<f>> /\ queue = <<>> /\ ops = <<>> /\ next = <<>> /\ oldest = 0 /\ newest = 0
      /\ run = Idle /\ under = Idle /\ state = "connected" /\ connection = "up" /\ struck = 0
  BY DEF Init
<1> HIDE DEF f
<1>3. ops \in Seq(Result) /\ Len(ops) = 0 /\ next \in [1..Len(ops) -> 0..Len(ops)]
  BY <1>2
<1>4. queue \in Seq(Frame) /\ wire \in Seq(Frame)
  BY <1>1, <1>2
<1>5. run \in Reports /\ under \in Reports /\ run.op = 0 /\ run.what = "idle"
  BY <1>2, <1>3 DEF Reports, Idle
<1>6. handles \in [Handle -> {"none", "holds", "gone", "null", "crashed"}]
  BY DEF Init
<1>7. TypeOK
  BY <1>2, <1>3, <1>4, <1>5, <1>6 DEF TypeOK, Init
<1>8. Pushed = {} /\ Ahead = {}
  BY <1>3 DEF Pushed, Ahead
<1>9. Len(Frames) = 1 /\ Frames[1] = f
  BY <1>1, <1>2, <1>4, ConcatProperties DEF Frames
<1>10. Due = {}
  BY <1>1, <1>9 DEF Due
<1>11. QueueInv
  BY <1>1, <1>2, <1>8, <1>9, <1>10 DEF QueueInv
<1>12. ListInv /\ OutcomeInv
  BY <1>2, <1>3, <1>5, <1>8 DEF ListInv, OutcomeInv
<1>13. FailInv /\ Fits(run)
  BY <1>2, <1>5 DEF FailInv, Fits
<1> QED BY <1>2, <1>3, <1>5, <1>7, <1>11, <1>12, <1>13 DEF ChannelInv

\* Every step keeps the invariant.
LEMMA NextInv ==
  ASSUME ChannelInv, MaxOps \in Nat, \A s \in Chains : Len(s) \in Nat, Next
  PROVE  ChannelInv'
<1>1. handles \in [Handle -> {"none", "holds", "gone", "null", "crashed"}]
  BY DEF ChannelInv, TypeOK
<1>2. CASE \E m \in Methods : \/ \E s \in Chains : Instruct(m, s)
                             \/ Acknowledge(m)
  BY <1>2, InstructInv, AcknowledgeInv
<1>3. CASE \E h, k \in Handle : Move(h, k)
  BY <1>1, <1>3, HandlesInv DEF Move
<1>4. CASE \E h \in Handle : DestroyChannel(h) \/ DestroyMoved(h)
  <2> PICK h \in Handle : DestroyChannel(h) \/ DestroyMoved(h)
    BY <1>4
  <2>1. CASE DestroyChannel(h)
    BY <1>1, <2>1, CloseInv DEF DestroyChannel
  <2>2. CASE DestroyMoved(h)
    BY <1>1, <2>2, HandlesInv DEF DestroyMoved
  <2> QED BY <2>1, <2>2
<1>5. CASE close
  BY <1>1, <1>5, CloseInv DEF close
<1>6. CASE detach \/ Destroy \/ reportChannelError \/ fail
  BY <1>6, DetachInv, DestroyInv, ChannelErrorInv, FailsInv
<1>7. CASE Returns
  BY <1>7, ReadyInv, SuccessInv, ErrorInv DEF Returns
<1>8. CASE Replies
  BY <1>8, TakeInv, AnswerInv DEF Replies
<1> QED BY <1>2, <1>3, <1>4, <1>5, <1>6, <1>7, <1>8 DEF Next

\* The invariant says what the broker's answers find.
LEMMA MeetsCallbacks ==
  ASSUME ChannelInv PROVE AnswersMeetCallbacks
<1> SUFFICES ASSUME alive, attached, state # "closed"
    PROVE  /\ \A p \in Due : (\A q \in Due : p <= q) => ListHead = Frames[p].op
           /\ \A p, q \in Due : p < q /\ (\A r \in Due : r <= p \/ q <= r) =>
                                  next[Frames[p].op] = Frames[q].op
           /\ Due = {} /\ state # "closing" => ListHead = 0
  BY DEF AnswersMeetCallbacks
<1>1. TypeOK /\ ListInv /\ QueueInv
  BY OpenUp DEF ChannelInv
<1>2. \A p \in Due : (\A q \in Due : p <= q) => ListHead = Frames[p].op
  BY <1>1, FirstDue
<1>3. ASSUME NEW p \in Due, NEW q \in Due, p < q, \A r \in Due : r <= p \/ q <= r
      PROVE  next[Frames[p].op] = Frames[q].op
  <2> DEFINE i == Frames[p].op
             j == Frames[q].op
             n == next[i]
  <2>1. i \in Ahead /\ j \in Ahead /\ i < j
    BY <1>1, <1>3 DEF QueueInv
  <2> HIDE DEF i, j, n
  <2>2. /\ Len(ops) \in Nat /\ oldest \in Nat /\ newest \in Nat /\ run.op \in Nat
        /\ Pushed \subseteq 1..Len(ops)
    BY <1>1, ListTyped
  <2>3. /\ i \in Pushed /\ j \in Pushed /\ oldest # 0 /\ i >= oldest /\ i # run.op
        /\ i \in Nat /\ j \in Nat
    BY <2>1, <2>2 DEF Ahead
  <2>4. i # newest
    BY <1>1, <2>1, <2>2, <2>3 DEF ListInv
  <2>5. Follows(i, n)
    BY <1>1, <2>3, <2>4 DEF ListInv, n
  <2>6. n \in Pushed /\ n > i /\ n <= j
    BY <2>1, <2>3, <2>5 DEF Follows
  <2>7. n \in Nat
    BY <2>2, <2>6
  <2>8. run.op # 0 => run.op = oldest
    BY <1>1 DEF ListInv
  <2>9. n \in Ahead
    BY <2>2, <2>3, <2>6, <2>7, <2>8 DEF Ahead
  <2>10. PICK r \in Due : Frames[r].op = n
    BY <1>1, <2>6, <2>9 DEF QueueInv, j
  <2>11. p \in Nat /\ q \in Nat /\ r \in Nat
    BY <1>1, FramesTyped DEF Due
  <2>12. ~(r <= p)
    <3>1. r < p => n < i
      BY <1>1, <2>10 DEF QueueInv, i
    <3>2. r = p => n = i
      BY <2>10 DEF i
    <3> QED BY <2>3, <2>6, <2>7, <2>11, <3>1, <3>2
  <2>13. q <= r
    BY <1>3, <2>12
  <2>14. q < r => j < n
    BY <1>1, <2>10 DEF QueueInv, j
  <2>15. q = r => j = n
    BY <2>10 DEF j
  <2>16. n = j
    BY <2>3, <2>6, <2>7, <2>11, <2>13, <2>14, <2>15
  <2> QED BY <2>16 DEF n, i, j
<1>4. ASSUME Due = {}, state # "closing" PROVE ListHead = 0
  <2>1. usable
    BY <1>1, <1>4 DEF usable, TypeOK
  <2>2. Ahead = {}
    BY <1>1, <1>4, <2>1 DEF QueueInv
  <2> QED BY <1>1, <2>2, HeadLeast
<1> QED BY <1>2, <1>3, <1>4

\* ... and what results have told.
LEMMA TellsOutcomes ==
  ASSUME ChannelInv PROVE OneOutcome /\ EveryoneTold /\ FailureTold
<1>1. OneOutcome /\ FailureTold
  BY DEF ChannelInv, Sound, Single, Succeeded, Failed, OneOutcome, FailureTold
<1>2. EveryoneTold
  <2> SUFFICES ASSUME alive, state = "closed", run = Idle, NEW i \in 1..Len(ops),
                      Listening(i), ~Mute(i),
                      ToldAs(ops[i], {"success", "special", "error"}) = {}
               PROVE  FALSE
    BY DEF EveryoneTold
  <2>1. ~Untold(ops[i])
    BY DEF ChannelInv, OutcomeInv, Idle
  <2>2. Succeeded(ops[i]) = {} /\ Failed(ops[i]) = {}
    BY DEF ToldAs, Succeeded, Failed
  <2> QED BY <2>1, <2>2 DEF Untold, Listening, Mute
<1> QED BY <1>1, <1>2

-----------------------------------------------------------------------------
(* The theorems.                                                           *)

\* A step of a channel that no longer exists leaves what was its state as it is
\* (channelimpl.h:600, 623, 662).
LEMMA NextUntouched ==
  ASSUME Next PROVE Untouched
<1> SUFFICES ASSUME ~alive PROVE UNCHANGED implVars
  BY DEF Untouched
<1>1. ~CloseImpl /\ \A what : ~Answer(what)
  BY DEF CloseImpl, Answer
<1>2. \A m, s : ~Instruct(m, s) /\ ~Acknowledge(m)
  BY DEF Instruct, Acknowledge
<1>3. /\ ~close /\ ~detach /\ ~Destroy
      /\ ~reportChannelError /\ ~fail /\ \A h : ~DestroyChannel(h)
  BY <1>1 DEF close, detach, Destroy, reportChannelError, fail, DestroyChannel
<1>4. ~Replies
  BY <1>1 DEF Replies, Take, reportReady, channelSuccess, reportClosed
<1>5. ASSUME NEW h, NEW k, Move(h, k) \/ DestroyMoved(h)
      PROVE UNCHANGED implVars
  BY <1>5 DEF Move, DestroyMoved
<1>6. CASE Returns
  BY <1>6 DEF Returns, readyReturns, successReturns, closedReturns, errorReturns, implVars
<1> QED BY <1>2, <1>3, <1>4, <1>5, <1>6 DEF Next

\* Each answer of the broker finds the callbacks of its own instruction, an instruction has
\* one outcome, unless its own callback fails the connection, and everyone who listens is
\* told of it before the channel is closed, whatever the callbacks do
\* (channelimpl.h:625-672).
THEOREM ChannelSafe ==
  ASSUME MaxOps \in Nat, \A s \in Chains : Len(s) \in Nat
  PROVE  Spec => [](/\ TypeOK /\ AnswersMeetCallbacks
                    /\ OneOutcome /\ EveryoneTold /\ FailureTold)
<1>1. Init => ChannelInv
  BY InitInv
<1>2. ChannelInv /\ [Next]_vars => ChannelInv'
  <2> SUFFICES ASSUME ChannelInv, UNCHANGED vars PROVE ChannelInv'
    BY NextInv
  <2>1. handles' \in [Handle -> {"none", "holds", "gone", "null", "crashed"}]
    BY DEF ChannelInv, TypeOK, vars
  <2> QED BY <2>1, HandlesInv DEF vars
<1>3. ChannelInv => /\ TypeOK /\ AnswersMeetCallbacks
                    /\ OneOutcome /\ EveryoneTold /\ FailureTold
  BY MeetsCallbacks, TellsOutcomes DEF ChannelInv
<1> QED BY <1>1, <1>2, <1>3, PTL DEF Spec

\* A channel that a callback has destroyed is not touched (channelimpl.h:600, 623, 662).
THEOREM ChannelUntouched == Spec => [][Untouched]_vars
<1>1. [Next]_vars => [Untouched]_vars
  BY NextUntouched
<1> QED BY <1>1, PTL DEF Spec
=============================================================================
