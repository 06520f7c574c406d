--------------------------- MODULE Formats_proofs ---------------------------
(***************************************************************************)
(* What is written is read: the invariants of Formats, for every set of    *)
(* values, names, payloads, texts, options and lines, and for prefixes of  *)
(* every width.  The loops of the code are recursive functions in the      *)
(* model; each is replaced once by its steps (the lemmas that end in       *)
(* Exists and Pick), and a loop invariant is then shown along the steps by *)
(* Upward.  The inductive invariant of the whole is Parted, at the end.    *)
(***************************************************************************)
EXTENDS Formats, SequenceTheorems, WellFoundedInduction, TLAPS

-----------------------------------------------------------------------------
(* Numbers and sequences.                                                  *)

\* A set of numbers that is not empty has a least one.
LEMMA LeastNumber ==
  ASSUME NEW T \in SUBSET Nat, T # {}
  PROVE  \E x \in T : \A y \in T : x <= y
<1> DEFINE R == OpToRel(<, Nat)
<1>1. \E x \in T : \A y \in T : ~(<<y, x>> \in R)
  BY NatLessThanWellFounded, WFMin
<1>2. \A x, y \in Nat : y < x => <<y, x>> \in R
  BY DEF OpToRel
<1> HIDE DEF R
<1>3. PICK x \in T : \A y \in T : <<y, x>> \notin R
  BY <1>1
<1>4. ASSUME NEW y \in T PROVE x <= y
  <2>1. x \in Nat /\ y \in Nat /\ <<y, x>> \notin R
    BY <1>3
  <2>2. ~(y < x)
    BY <1>2, <2>1
  <2> QED BY <2>1, <2>2
<1> QED BY <1>4

\* A set of numbers up to n that has 0, and with a number its successor, has them all.
LEMMA Upward ==
  ASSUME NEW n \in Nat, NEW T, 0 \in T, \A i \in 1..n : i - 1 \in T => i \in T
  PROVE  \A i \in 0..n : i \in T
<1> DEFINE B == {i \in 0..n : i \notin T}
<1> SUFFICES ASSUME B # {} PROVE FALSE
  OBVIOUS
<1>1. PICK i \in B : \A y \in B : i <= y
  <2>1. B \in SUBSET Nat
    OBVIOUS
  <2> HIDE DEF B
  <2> QED BY <2>1, LeastNumber
<1>2. i \in 1..n /\ i - 1 \in 0..n
  BY <1>1
<1>3. i - 1 \in T
  BY <1>1, <1>2
<1> QED BY <1>1, <1>2, <1>3

\* Two sequences in a row: their length and their elements.
LEMMA CatType ==
  ASSUME NEW S, NEW a \in Seq(S), NEW b \in Seq(S)
  PROVE  /\ a \o b \in Seq(S) /\ Len(a \o b) = Len(a) + Len(b) /\ Len(a) \in Nat /\ Len(b) \in Nat
         /\ \A i \in 1..Len(a) : (a \o b)[i] = a[i]
         /\ \A i \in 1..Len(b) : (a \o b)[Len(a) + i] = b[i]
<1>1. Len(a) \in Nat /\ Len(b) \in Nat
  OBVIOUS
<1>2. /\ a \o b \in Seq(S) /\ Len(a \o b) = Len(a) + Len(b)
      /\ \A i \in 1 .. Len(a) + Len(b) : (a \o b)[i] = IF i <= Len(a) THEN a[i] ELSE b[i - Len(a)]
  BY ConcatProperties
<1>3. \A i \in 1..Len(a) : (a \o b)[i] = a[i]
  BY <1>1, <1>2
<1>4. ASSUME NEW i \in 1..Len(b) PROVE (a \o b)[Len(a) + i] = b[i]
  <2>1. Len(a) + i \in 1..(Len(a) + Len(b)) /\ ~(Len(a) + i <= Len(a)) /\ (Len(a) + i) - Len(a) = i
    BY <1>1
  <2> QED BY <1>2, <2>1
<1> QED BY <1>1, <1>2, <1>3, <1>4

\* Sequences in a row need no brackets.
LEMMA CatAssoc ==
  ASSUME NEW S
  PROVE  \A x, a, b \in Seq(S) : (x \o a) \o b = x \o (a \o b)
  BY ConcatAssociative, SMTT(60)

\* A part of a sequence: its length and its elements.
LEMMA SubType ==
  ASSUME NEW S, NEW a \in Seq(S), NEW m \in Nat \ {0}, NEW n \in 0..Len(a)
  PROVE  /\ SubSeq(a, m, n) \in Seq(S)
         /\ Len(SubSeq(a, m, n)) = IF m <= n THEN n - m + 1 ELSE 0
         /\ \A i \in 1..(n - m + 1) : SubSeq(a, m, n)[i] = a[m + i - 1]
<1>1. \A i \in m..n : a[i] \in S
  OBVIOUS
<1>2. m \in Int /\ n \in Int
  OBVIOUS
<1> QED BY <1>1, <1>2, SubSeqProperties

\* What is cut from the front of two sequences, and what is left.
LEMMA CutFront ==
  ASSUME NEW S, NEW a \in Seq(S), NEW b \in Seq(S)
  PROVE  SubSeq(a \o b, 1, Len(a)) = a /\ SubSeq(a \o b, Len(a) + 1, Len(a \o b)) = b
<1> DEFINE c == a \o b
           x == SubSeq(c, 1, Len(a))
           y == SubSeq(c, Len(a) + 1, Len(c))
<1>1. /\ c \in Seq(S) /\ Len(c) = Len(a) + Len(b) /\ Len(a) \in Nat /\ Len(b) \in Nat
      /\ \A i \in 1..Len(a) : c[i] = a[i]
      /\ \A i \in 1..Len(b) : c[Len(a) + i] = b[i]
  BY CatType
<1> HIDE DEF c
<1>2. /\ x \in Seq(S) /\ Len(x) = IF 1 <= Len(a) THEN Len(a) - 1 + 1 ELSE 0
      /\ \A i \in 1..(Len(a) - 1 + 1) : x[i] = c[1 + i - 1]
  <2>1. 1 \in Nat \ {0} /\ Len(a) \in 0..Len(c)
    BY <1>1
  <2> QED BY <1>1, <2>1, SubType
<1>3. /\ y \in Seq(S) /\ Len(y) = IF Len(a) + 1 <= Len(c) THEN Len(c) - (Len(a) + 1) + 1 ELSE 0
      /\ \A i \in 1..(Len(c) - (Len(a) + 1) + 1) : y[i] = c[Len(a) + 1 + i - 1]
  <2>1. Len(a) + 1 \in Nat \ {0} /\ Len(c) \in 0..Len(c)
    BY <1>1
  <2> QED BY <1>1, <2>1, SubType
<1> HIDE DEF x, y
<1>4. Len(x) = Len(a) /\ \A i \in 1..Len(a) : x[i] = a[i]
  BY <1>1, <1>2
<1>5. Len(y) = Len(b)
  BY <1>1, <1>3
<1>6. ASSUME NEW i \in 1..Len(b) PROVE y[i] = b[i]
  <2>1. Len(a) + 1 + i - 1 = Len(a) + i /\ i \in 1..(Len(c) - (Len(a) + 1) + 1)
    BY <1>1
  <2> QED BY <1>1, <1>3, <2>1
<1>7. x = a
  BY <1>2, <1>4, SeqEqual
<1>8. y = b
  BY <1>3, <1>5, <1>6, SeqEqual
<1> QED BY <1>7, <1>8 DEF x, y, c

\* Two ways to cut the same octets: a is longer than w, so it begins with w.
LEMMA CutLonger ==
  ASSUME NEW S, NEW a \in Seq(S), NEW b \in Seq(S), NEW w \in Seq(S), NEW r \in Seq(S),
         a \o b = w \o r, Len(w) <= Len(a)
  PROVE  /\ SubSeq(a, 1, Len(w)) = w
         /\ SubSeq(a, Len(w) + 1, Len(a)) \o b = r
         /\ SubSeq(a, Len(w) + 1, Len(a)) \in Seq(S)
<1> DEFINE x == SubSeq(a, 1, Len(w))
           y == SubSeq(a, Len(w) + 1, Len(a))
<1>1. Len(a) \in Nat /\ Len(w) \in Nat
  OBVIOUS
<1>2. x \in Seq(S) /\ Len(x) = Len(w)
  <2>1. 1 \in Nat \ {0} /\ Len(w) \in 0..Len(a)
    BY <1>1
  <2>2. x \in Seq(S) /\ Len(x) = IF 1 <= Len(w) THEN Len(w) - 1 + 1 ELSE 0
    BY <2>1, SubType
  <2> HIDE DEF x
  <2> QED BY <1>1, <2>2
<1>3. y \in Seq(S)
  <2>1. Len(w) + 1 \in Nat \ {0} /\ Len(a) \in 0..Len(a)
    BY <1>1
  <2> QED BY <2>1, SubType
<1>4. x \o y = a
  <2>1. 1 \in 1..(Len(a) + 1) /\ Len(w) \in (1 - 1)..Len(a) /\ Len(a) \in Len(w)..Len(a)
    BY <1>1
  <2>2. x \o y = SubSeq(a, 1, Len(a))
    BY <2>1, ConcatAdjacentSubSeq
  <2>3. SubSeq(a, 1, Len(a)) = a
    BY SubSeqFull
  <2> QED BY <2>2, <2>3
<1> HIDE DEF x, y
<1>5. x \o (y \o b) = w \o r
  <2>1. (x \o y) \o b = x \o (y \o b)
    <3>1. x \in Seq(S) /\ y \in Seq(S) /\ b \in Seq(S)
      BY <1>2, <1>3
    <3> QED BY ONLY <3>1, CatAssoc, SMTT(60)
  <2> QED BY <1>4, <2>1
<1>6. y \o b \in Seq(S)
  BY <1>3, CatType
<1>7. SubSeq(x \o (y \o b), 1, Len(x)) = x /\ SubSeq(x \o (y \o b), Len(x) + 1, Len(x \o (y \o b))) = y \o b
  BY <1>2, <1>6, CutFront
<1>8. SubSeq(w \o r, 1, Len(w)) = w /\ SubSeq(w \o r, Len(w) + 1, Len(w \o r)) = r
  BY CutFront
<1>9. x = w /\ y \o b = r
  BY <1>2, <1>5, <1>7, <1>8
<1> QED BY <1>3, <1>9 DEF x, y

\* c is a, then b.
Joined(c, a, b) == c = a \o b

\* What three sequences in a row make, told in either order.
LEMMA JoinedStep ==
  ASSUME NEW S, NEW x, NEW a, NEW b, NEW c, NEW d, NEW e, x \in Seq(S), a \in Seq(S), b \in Seq(S),
         Joined(c, x, a), Joined(d, a, b), Joined(e, c, b)
  PROVE  Joined(e, x, d) /\ d \in Seq(S)
<1>1. c = x \o a /\ d = a \o b /\ e = c \o b
  BY DEF Joined
<1>2. e = x \o d
  BY <1>1, ConcatAssociative
<1>3. d \in Seq(S)
  BY <1>1
<1> QED BY <1>2, <1>3 DEF Joined

\* CutLonger for sequences that are named by what they join to.
LEMMA JoinedCut ==
  ASSUME NEW S, NEW a, NEW b, NEW w, NEW r, NEW e, a \in Seq(S), b \in Seq(S), w \in Seq(S),
         r \in Seq(S), Joined(e, a, b), Joined(e, w, r), Len(w) <= Len(a)
  PROVE  /\ SubSeq(a, 1, Len(w)) = w
         /\ Joined(r, SubSeq(a, Len(w) + 1, Len(a)), b)
         /\ SubSeq(a, Len(w) + 1, Len(a)) \in Seq(S)
<1>1. a \o b = w \o r
  BY DEF Joined
<1>2. /\ SubSeq(a, 1, Len(w)) = w
      /\ SubSeq(a, Len(w) + 1, Len(a)) \o b = r
      /\ SubSeq(a, Len(w) + 1, Len(a)) \in Seq(S)
  BY <1>1, CutLonger
<1> QED BY <1>2, Zenon DEF Joined

-----------------------------------------------------------------------------
(* Octets one after the other.                                             *)

\* g has what is put together of the first i sequences of s, for i up to n.
IsAll(g, s, n) == g = [i \in 0..n |-> IF i = 0 THEN <<>> ELSE g[i - 1] \o s[i]]

\* The recursive function behind All exists for every length.
LEMMA AllExists ==
  ASSUME NEW s PROVE \A n \in Nat : \E g : IsAll(g, s, n)
<1> DEFINE T == {n \in Nat : \E g : IsAll(g, s, n)}
<1>1. 0 \in T
  <2> DEFINE g == [i \in 0..0 |-> <<>>]
  <2>1. g = [i \in 0..0 |-> IF i = 0 THEN <<>> ELSE g[i - 1] \o s[i]]
    OBVIOUS
  <2> QED BY <2>1 DEF IsAll
<1>2. ASSUME NEW n \in Nat \ {0}, n - 1 \in T PROVE n \in T
  <2>1. PICK g : g = [i \in 0..(n - 1) |-> IF i = 0 THEN <<>> ELSE g[i - 1] \o s[i]]
    BY <1>2 DEF IsAll
  <2> DEFINE h == [i \in 0..n |-> IF i = n THEN g[n - 1] \o s[n] ELSE g[i]]
  <2>2. ASSUME NEW i \in 0..n PROVE h[i] = IF i = 0 THEN <<>> ELSE h[i - 1] \o s[i]
    <3>1. CASE i = n
      BY <3>1
    <3>2. CASE i # n
      BY <3>2, <2>1
    <3> QED BY <3>1, <3>2
  <2>3. h = [i \in 0..n |-> IF i = 0 THEN <<>> ELSE h[i - 1] \o s[i]]
    BY <2>2
  <2> QED BY <2>3 DEF IsAll
<1>3. ASSUME NEW n \in Nat PROVE n \in T
  <2>1. \A i \in 1..n : i - 1 \in T => i \in T
    BY <1>2
  <2> HIDE DEF T
  <2>2. \A i \in 0..n : i \in T
    BY <1>1, <2>1, Upward
  <2> QED BY <2>2
<1> QED BY <1>3

\* All puts one sequence after the other: its steps, without the recursive function.
LEMMA AllPick ==
  ASSUME NEW s, Len(s) \in Nat
  PROVE  \E g : /\ Fields!All(s) = g[Len(s)] /\ g[0] = <<>>
                /\ \A i \in 1..Len(s) : g[i] = g[i - 1] \o s[i]
<1>1. PICK g : IsAll(g, s, Len(s)) /\ Fields!All(s) = g[Len(s)]
  <2>1. \E g : IsAll(g, s, Len(s))
    BY AllExists
  <2> QED BY <2>1 DEF IsAll, Fields!All
<1>2. \A i \in 0..Len(s) : g[i] = IF i = 0 THEN <<>> ELSE g[i - 1] \o s[i]
  BY <1>1 DEF IsAll
<1>3. g[0] = <<>>
  BY <1>2
<1>4. ASSUME NEW i \in 1..Len(s) PROVE g[i] = g[i - 1] \o s[i]
  <2>1. i \in 0..Len(s) /\ i # 0
    OBVIOUS
  <2> QED BY <1>2, <2>1, Zenon
<1> QED BY <1>1, <1>3, <1>4, Zenon

\* Nothing in a row is nothing.
LEMMA AllEmpty == ASSUME NEW s, Len(s) = 0 PROVE Fields!All(s) = <<>>
<1>1. Len(s) \in Nat
  OBVIOUS
<1> QED BY <1>1, AllPick, Zenon

\* All of a sequence of sequences is a sequence.
LEMMA AllType ==
  ASSUME NEW S, NEW s \in Seq(Seq(S))
  PROVE  Fields!All(s) \in Seq(S)
<1>0. Len(s) \in Nat /\ \A i \in 1..Len(s) : s[i] \in Seq(S)
  OBVIOUS
<1>1. PICK g : /\ Fields!All(s) = g[Len(s)] /\ g[0] = <<>>
               /\ \A i \in 1..Len(s) : g[i] = g[i - 1] \o s[i]
  BY <1>0, AllPick
<1> DEFINE T == {i \in Nat : g[i] \in Seq(S)}
<1>2. 0 \in T
  <2>1. <<>> \in Seq(S)
    OBVIOUS
  <2> QED BY <1>1, <2>1
<1>3. \A i \in 1..Len(s) : i - 1 \in T => i \in T
  <2> SUFFICES ASSUME NEW i \in 1..Len(s), i - 1 \in T PROVE i \in T
    OBVIOUS
  <2>1. g[i - 1] \in Seq(S) /\ s[i] \in Seq(S) /\ g[i] = g[i - 1] \o s[i]
    BY <1>0, <1>1
  <2>2. g[i] \in Seq(S)
    BY ONLY <2>1, CatType
  <2> QED BY <2>2, <1>0
<1>4. Len(s) \in T
  <2> HIDE DEF T
  <2>1. \A i \in 0..Len(s) : i \in T
    BY ONLY <1>0, <1>2, <1>3, Upward
  <2> QED BY <1>0, <2>1
<1> QED BY <1>1, <1>4

\* What is put together of a first sequence and others.
LEMMA AllCons ==
  ASSUME NEW S, NEW x \in Seq(S), NEW s \in Seq(Seq(S)), NEW t \in Seq(Seq(S)),
         Len(t) = Len(s) + 1, t[1] = x, \A i \in 1..Len(s) : t[i + 1] = s[i]
  PROVE  Fields!All(t) = x \o Fields!All(s)
<1>0. Len(s) \in Nat /\ Len(t) \in Nat /\ \A i \in 1..Len(s) : s[i] \in Seq(S)
  OBVIOUS
<1>1. PICK g : /\ Fields!All(s) = g[Len(s)] /\ g[0] = <<>>
               /\ \A i \in 1..Len(s) : g[i] = g[i - 1] \o s[i]
  BY <1>0, AllPick
<1>2. PICK h : /\ Fields!All(t) = h[Len(t)] /\ h[0] = <<>>
               /\ \A i \in 1..Len(t) : h[i] = h[i - 1] \o t[i]
  BY <1>0, AllPick
<1> DEFINE T == {i \in Nat : g[i] \in Seq(S) /\ h[i + 1] = x \o g[i]}
<1>3. 0 \in T
  <2>1. <<>> \in Seq(S) /\ x \o <<>> = x /\ <<>> \o x = x
    OBVIOUS
  <2>2. h[1] = h[0] \o t[1] /\ 0 + 1 = 1
    <3>1. 1 \in 1..Len(t) /\ 1 - 1 = 0
      BY <1>0
    <3>2. h[1] = h[1 - 1] \o t[1]
      BY <1>2, <3>1, Zenon
    <3> QED BY <3>1, <3>2
  <2> QED BY <1>1, <1>2, <2>1, <2>2
<1>4. \A i \in 1..Len(s) : i - 1 \in T => i \in T
  <2> SUFFICES ASSUME NEW i \in 1..Len(s), i - 1 \in T PROVE i \in T
    OBVIOUS
  <2>1. g[i - 1] \in Seq(S) /\ s[i] \in Seq(S) /\ g[i] = g[i - 1] \o s[i] /\ h[(i - 1) + 1] = x \o g[i - 1]
    BY <1>0, <1>1
  <2>2. (i - 1) + 1 = i /\ (i + 1) - 1 = i /\ i + 1 \in 1..Len(t)
    BY <1>0
  <2>3. h[i + 1] = h[i] \o s[i] /\ h[i] = x \o g[i - 1]
    BY <2>1, <2>2, <1>2
  <2>4. Joined(h[i], x, g[i - 1]) /\ Joined(g[i], g[i - 1], s[i]) /\ Joined(h[i + 1], h[i], s[i])
    BY <2>1, <2>3, Zenon DEF Joined
  <2>5. x \in Seq(S) /\ g[i - 1] \in Seq(S) /\ s[i] \in Seq(S)
    BY <2>1
  <2>6. Joined(h[i + 1], x, g[i]) /\ g[i] \in Seq(S)
    BY ONLY <2>4, <2>5, JoinedStep
  <2>7. i \in Nat
    BY <1>0
  <2> QED BY <2>6, <2>7, Zenon DEF Joined
<1>5. Len(s) \in T
  <2> HIDE DEF T
  <2>1. \A i \in 0..Len(s) : i \in T
    BY ONLY <1>0, <1>3, <1>4, Upward
  <2> QED BY <1>0, <2>1
<1> QED BY <1>1, <1>2, <1>5

\* What is put together of sequences and a last one.
LEMMA AllSnoc ==
  ASSUME NEW S, NEW s \in Seq(Seq(S)), NEW x \in Seq(S)
  PROVE  Fields!All(Append(s, x)) = Fields!All(s) \o x
<1> DEFINE t == Append(s, x)
<1>0. /\ Len(s) \in Nat /\ t \in Seq(Seq(S)) /\ Len(t) = Len(s) + 1
      /\ t[Len(s) + 1] = x /\ \A i \in 1..Len(s) : t[i] = s[i]
  BY AppendProperties
<1> HIDE DEF t
<1>1. PICK g : /\ Fields!All(s) = g[Len(s)] /\ g[0] = <<>>
               /\ \A i \in 1..Len(s) : g[i] = g[i - 1] \o s[i]
  BY <1>0, AllPick
<1>2. PICK h : /\ Fields!All(t) = h[Len(t)] /\ h[0] = <<>>
               /\ \A i \in 1..Len(t) : h[i] = h[i - 1] \o t[i]
  <2>1. Len(t) \in Nat
    BY <1>0
  <2> QED BY <2>1, AllPick, Zenon
<1> DEFINE T == {i \in Nat : g[i] = h[i]}
<1>3. 0 \in T
  BY <1>1, <1>2
<1>4. \A i \in 1..Len(s) : i - 1 \in T => i \in T
  <2> SUFFICES ASSUME NEW i \in 1..Len(s), i - 1 \in T PROVE i \in T
    OBVIOUS
  <2>1. g[i - 1] = h[i - 1] /\ i \in 1..Len(t) /\ t[i] = s[i] /\ i \in Nat
    BY <1>0
  <2>2. g[i] = g[i - 1] \o s[i]
    BY <1>1, Zenon
  <2>3. h[i] = h[i - 1] \o t[i]
    BY <1>2, <2>1, Zenon
  <2> QED BY <2>1, <2>2, <2>3, Zenon
<1>5. Len(s) \in T
  <2> HIDE DEF T
  <2>1. \A i \in 0..Len(s) : i \in T
    BY ONLY <1>0, <1>3, <1>4, Upward
  <2> QED BY <1>0, <2>1
<1>6. h[Len(t)] = h[Len(s)] \o x
  <2>1. Len(t) \in 1..Len(t) /\ Len(t) - 1 = Len(s)
    BY <1>0
  <2> QED BY <1>0, <1>2, <2>1
<1> QED BY <1>1, <1>2, <1>5, <1>6 DEF t

-----------------------------------------------------------------------------
(* Frames that are sent.                                                   *)
\* A CopiedBuffer, full to its capacity.
Buffer == [block : Int, capacity : Nat, octets : Seq(Nat)]

\* out is no object, one that was moved from, or the owner of the newest block; the queue
\* owns the others, in the order in which they were allocated.
Owner ==
  /\ out \in Buffer /\ out.block \in {-1, 0, made} /\ Len(out.octets) = out.capacity
  /\ out.block = -1 => out = Frame!Nobody
  /\ out.block <= 0 => out.octets = <<>> /\ out.capacity = 0

\* The buffers that wait to be sent have blocks of their own, older than the one that is
\* being built, and are full.
Owners ==
  /\ queue \in Seq(Buffer)
  /\ \A i \in 1..Len(queue) : /\ queue[i].block \in 1..made
                              /\ out.block > 0 => queue[i].block < made
                              /\ Len(queue[i].octets) = queue[i].capacity
  /\ \A i, j \in 1..Len(queue) : i < j => queue[i].block < queue[j].block

\* The blocks that are allocated are the ones somebody holds.
Owned == blocks = {queue[i].block : i \in 1..Len(queue)} \cup ({out.block} \cap (1..made))

\* How many blocks there were, and none was freed twice.
Counts == made \in 0..MaxFrames /\ ready \in BOOLEAN /\ double \in BOOLEAN /\ ~double

\* What holds of the frames that are sent.
Sending == Counts /\ Owner /\ Owners /\ Owned

\* The header and the payload of a frame, and its size in its first octet.
LEMMA OctetsType ==
  ASSUME NEW n \in Nat
  PROVE  /\ Frame!Octets(n) \in Seq(Nat) /\ Len(Frame!Octets(n)) = Header + n
         /\ Frame!Octets(n)[1] = n
<1> DEFINE z == [i \in 1..(Header - 1 + n) |-> 0]
<1>1. Header - 1 + n \in Nat
  BY FrameAssumption
<1>2. z \in Seq(Nat) /\ Len(z) = Header - 1 + n
  BY <1>1
<1> HIDE DEF z
<1>3. <<n>> \in Seq(Nat) /\ Len(<<n>>) = 1 /\ <<n>>[1] = n
  OBVIOUS
<1>4. Frame!Octets(n) = <<n>> \o z
  BY DEF Frame!Octets, z
<1> QED BY <1>2, <1>3, <1>4, FrameAssumption

\* A CopiedBuffer, with its fields.
Buf(block, capacity, octets) == [block |-> block, capacity |-> capacity, octets |-> octets]

\* The three fields of a buffer.
LEMMA BufFields ==
  ASSUME NEW b, NEW n, NEW o
  PROVE  /\ Buf(b, n, o).block = b /\ Buf(b, n, o).capacity = n /\ Buf(b, n, o).octets = o
         /\ b \in Int /\ n \in Nat /\ o \in Seq(Nat) => Buf(b, n, o) \in Buffer
  BY DEF Buf, Buffer

\* append() adds octets to what the buffer holds and changes nothing else.
LEMMA BufAppend ==
  ASSUME NEW b, NEW n, NEW o, NEW d
  PROVE  Frame!append(Buf(b, n, o), d) = Buf(b, n, o \o d)
<1>1. ASSUME NEW x PROVE [Buf(b, n, o) EXCEPT !.octets = x] = Buf(b, n, x)
  BY DEF Buf
<1> DEFINE x == o \o d
<1> HIDE DEF x
<1>2. [Buf(b, n, o) EXCEPT !.octets = x] = Buf(b, n, x)
  BY <1>1
<1>3. Buf(b, n, o).octets = o
  BY BufFields
<1>4. Frame!append(Buf(b, n, o), d) = [Buf(b, n, o) EXCEPT !.octets = x]
  BY <1>3, Zenon DEF Frame!append, x
<1> QED BY <1>2, <1>4 DEF x

\* A CopiedBuffer holds as many octets as the size of the frame asked for.
LEMMA CopiedType ==
  ASSUME NEW size, NEW o \in Seq(Nat), NEW sep \in BOOLEAN, NEW b \in Nat,
         size = Len(o) + (IF sep THEN 1 ELSE 0)
  PROVE  LET c == Frame!CopiedBuffer([totalSize |-> size, octets |-> o, separator |-> sep], b)
         IN  c \in Buffer /\ c.block = b /\ Len(c.octets) = c.capacity
<1> DEFINE f == [totalSize |-> size, octets |-> o, separator |-> sep]
<1>0. f.totalSize = size /\ f.octets = o /\ f.separator = sep
  OBVIOUS
<1> HIDE DEF f
<1>1. Frame!CopiedBuffer(f, b) = LET x == Frame!append(Buf(b, size, <<>>), o)
                                 IN  IF sep THEN Frame!append(x, <<Frame!End>>) ELSE x
  BY <1>0 DEF Frame!CopiedBuffer, Buf
<1>2. Len(o) \in Nat /\ size \in Nat /\ Frame!End \in Nat /\ <<>> \o o = o
  BY DEF Frame!End
<1>3. Frame!append(Buf(b, size, <<>>), o) = Buf(b, size, o)
  <2> DEFINE e == <<>>
  <2>1. e \o o = o
    BY <1>2
  <2> HIDE DEF e
  <2>2. Frame!append(Buf(b, size, e), o) = Buf(b, size, e \o o)
    BY BufAppend
  <2>3. Frame!append(Buf(b, size, e), o) = Buf(b, size, o)
    BY <2>1, <2>2
  <2> QED BY <2>3 DEF e
<1>4. ASSUME NEW y \in Seq(Nat), Len(y) = size, Frame!CopiedBuffer(f, b) = Buf(b, size, y)
      PROVE  LET c == Frame!CopiedBuffer(f, b)
             IN  c \in Buffer /\ c.block = b /\ Len(c.octets) = c.capacity
  BY <1>2, <1>4, BufFields
<1>5. CASE sep
  <2>1. Frame!CopiedBuffer(f, b) = Buf(b, size, o \o <<Frame!End>>)
    BY <1>1, <1>3, <1>5, BufAppend
  <2>2. o \o <<Frame!End>> \in Seq(Nat) /\ Len(o \o <<Frame!End>>) = size
    BY <1>2, <1>5
  <2> QED BY <1>4, <2>1, <2>2 DEF f
<1>6. CASE ~sep
  <2>1. Frame!CopiedBuffer(f, b) = Buf(b, size, o)
    BY <1>1, <1>3, <1>6
  <2>2. Len(o) = size
    BY <1>6, <1>2
  <2> QED BY <1>4, <2>1, <2>2 DEF f
<1> QED BY <1>5, <1>6

\* The buffer that nobody holds is empty.
LEMMA NobodyType ==
  /\ Frame!Nobody \in Buffer /\ Frame!Nobody.block = -1 /\ Frame!Nobody.octets = <<>>
  /\ Frame!Nobody.capacity = 0 /\ Len(Frame!Nobody.octets) = Frame!Nobody.capacity
  BY DEF Frame!Nobody, Buffer

\* At the beginning no frame has been built.
LEMMA SendingInit ==
  ASSUME Frame!Init PROVE Sending
<1>1. queue \in Seq(Buffer) /\ Len(queue) = 0
  BY DEF Frame!Init
<1>2. out = Frame!Nobody /\ made = 0 /\ blocks = {}
  BY DEF Frame!Init
<1>3. Counts
  <2>1. made \in 0..MaxFrames
    BY FrameAssumption DEF Frame!Init
  <2>2. ready \in BOOLEAN /\ double \in BOOLEAN /\ ~double
    BY Zenon DEF Frame!Init
  <2> QED BY <2>1, <2>2 DEF Counts
<1>4. Owner
  BY <1>2, NobodyType DEF Owner
<1>5. Owners
  BY <1>1 DEF Owners
<1>6. Owned
  BY <1>1, <1>2 DEF Owned
<1> QED BY <1>3, <1>4, <1>5, <1>6 DEF Sending

\* Building a frame allocates a block and fills it, and nothing else is freed.
LEMMA SendingBuild ==
  ASSUME Sending, NEW size, NEW o \in Seq(Nat), NEW sep \in BOOLEAN,
         size = Len(o) + (IF sep THEN 1 ELSE 0),
         Frame!Build([totalSize |-> size, octets |-> o, separator |-> sep])
  PROVE  Sending'
<1> DEFINE f == [totalSize |-> size, octets |-> o, separator |-> sep]
<1>0. made + 1 \in Nat /\ made \in Nat
  BY DEF Sending, Counts
<1>1. LET c == Frame!CopiedBuffer(f, made + 1)
      IN  c \in Buffer /\ c.block = made + 1 /\ Len(c.octets) = c.capacity
  BY CopiedType, <1>0
<1>2. Frame!Build(f)
  OBVIOUS
<1> HIDE DEF f
<1>3. /\ out' \in Buffer /\ out'.block = made + 1 /\ Len(out'.octets) = out'.capacity
      /\ made' = made + 1 /\ made < MaxFrames /\ queue' = queue /\ blocks' = blocks \cup {made + 1}
      /\ out.block = -1 /\ ready' = ready /\ double' = double
  BY <1>1, <1>2 DEF Frame!Build, Frame!Nobody
<1>4. Counts'
  BY <1>3, FrameAssumption DEF Sending, Counts
<1>5. Owner'
  <2>1. out'.block = made' /\ ~(out'.block <= 0) /\ out'.block # -1
    BY <1>0, <1>3
  <2> QED BY <2>1, <1>3 DEF Owner
<1>6. Owners'
  BY <1>0, <1>3 DEF Sending, Counts, Owners
<1>7. Owned'
  BY <1>0, <1>3 DEF Sending, Counts, Owned
<1> QED BY <1>4, <1>5, <1>6, <1>7 DEF Sending

\* Every step of the frames keeps the owners of the blocks.
LEMMA SendingNext ==
  ASSUME Sending, Frame!Next PROVE Sending'
<1>1. CASE made = 0 /\ Frame!Build(Frame!ProtocolHeader)
  <2>1. /\ Frame!Octets(0) \in Seq(Nat)
        /\ Header = Len(Frame!Octets(0)) + (IF FALSE THEN 1 ELSE 0)
    BY OctetsType, FrameAssumption
  <2> QED BY <1>1, <2>1, SendingBuild DEF Frame!ProtocolHeader
<1>2. ASSUME NEW n \in Payloads, made > 0, Frame!Build(Frame!FrameOf(n)) PROVE Sending'
  <2>1. /\ Frame!Octets(n) \in Seq(Nat)
        /\ Header + n + 1 = Len(Frame!Octets(n)) + (IF TRUE THEN 1 ELSE 0)
    BY OctetsType, FrameAssumption
  <2> QED BY <1>2, <2>1, SendingBuild DEF Frame!FrameOf
<1>3. ASSUME UNCHANGED <<out, queue, blocks, double, made, ready>> PROVE Sending'
  BY <1>3 DEF Sending, Counts, Owner, Owners, Owned
<1>4. ASSUME NEW n \in Payloads, Frame!Serve(n) PROVE Sending'
  BY <1>3, <1>4 DEF Frame!Serve
<1>5. ASSUME NEW n \in 1..Len(coming), Frame!Receive(n) PROVE Sending'
  BY <1>3, <1>5 DEF Frame!Receive
<1>6. CASE Frame!Parse
  BY <1>3, <1>6 DEF Frame!Parse
<1> USE DEF Sending
<1>7. CASE Frame!SendNow
  <2>1. out.block = made /\ made > 0 /\ out.block \in blocks /\ made \in Nat
    BY <1>7 DEF Frame!SendNow, Owner, Owned, Counts
  <2>2. /\ out' = Frame!Nobody /\ blocks' = blocks \ {made} /\ queue' = queue
        /\ made' = made /\ ready' = ready
    BY <1>7, <2>1 DEF Frame!SendNow, Frame!Free
  <2>3. Counts'
    BY <1>7, <2>1 DEF Counts, Frame!SendNow, Frame!Free
  <2>4. Owner'
    BY <2>2, NobodyType DEF Owner
  <2>5. Owners'
    BY <2>1, <2>2, NobodyType DEF Owners
  <2>6. Owned'
    BY <2>1, <2>2, NobodyType DEF Owned, Owners
  <2> QED BY <2>3, <2>4, <2>5, <2>6
<1>8. CASE Frame!Enqueue
  <2>1. out.block = made /\ made > 0 /\ made \in Nat
    BY <1>8 DEF Frame!Enqueue, Owner, Counts
  <2>2. out' \in Buffer /\ out'.block = 0 /\ out'.octets = <<>> /\ out'.capacity = 0
    <3> DEFINE e == <<>>
    <3>1. out' = Buf(0, 0, e)
      BY <1>8 DEF Frame!Enqueue, Frame!MovedFrom, Buf
    <3>2. e \in Seq(Nat)
      OBVIOUS
    <3> HIDE DEF e
    <3>3. out' \in Buffer /\ out'.block = 0 /\ out'.octets = e /\ out'.capacity = 0
      BY <3>1, <3>2, BufFields
    <3> QED BY <3>3 DEF e
  <2>3. /\ queue' \in Seq(Buffer) /\ Len(queue') = Len(queue) + 1 /\ queue'[Len(queue) + 1] = out
        /\ \A i \in 1..Len(queue) : queue'[i] = queue[i]
        /\ Len(queue) \in Nat
    BY <1>8 DEF Frame!Enqueue, Owner, Owners
  <2>4. UNCHANGED <<blocks, double, made, ready>>
    BY <1>8 DEF Frame!Enqueue
  <2>5. Counts'
    BY <2>4 DEF Counts
  <2>6. Owner'
    <3>1. Len(<<>>) = 0
      OBVIOUS
    <3> QED BY <2>2, <3>1 DEF Owner
  <2>7. Owners'
    <3>1. ASSUME NEW i \in 1..Len(queue')
          PROVE  /\ queue'[i].block \in 1..made' /\ Len(queue'[i].octets) = queue'[i].capacity
                 /\ ~(out'.block > 0)
      BY <2>1, <2>2, <2>3, <2>4 DEF Owner, Owners
    <3>2. ASSUME NEW i \in 1..Len(queue'), NEW j \in 1..Len(queue'), i < j
          PROVE  queue'[i].block < queue'[j].block
      <4>1. CASE j = Len(queue) + 1
        BY <2>1, <2>3, <3>2, <4>1 DEF Owners
      <4>2. CASE j # Len(queue) + 1
        <5>1. i \in 1..Len(queue) /\ j \in 1..Len(queue)
          BY <2>3, <3>2, <4>2
        <5> QED BY <5>1, <2>3, <3>2 DEF Owners
      <4> QED BY <4>1, <4>2
    <3> QED BY <2>3, <3>1, <3>2 DEF Owners
  <2>8. Owned'
    <3>1. {queue'[i].block : i \in 1..Len(queue')}
          = {queue[i].block : i \in 1..Len(queue)} \cup {made}
      <4>1. \A i \in 1..Len(queue') : i \in 1..Len(queue) \/ i = Len(queue) + 1
        BY <2>3
      <4>2. Len(queue) + 1 \in 1..Len(queue') /\ \A i \in 1..Len(queue) : i \in 1..Len(queue')
        BY <2>3
      <4> QED BY <2>1, <2>3, <4>1, <4>2
    <3>2. {out.block} \cap (1..made) = {made} /\ {out'.block} \cap (1..made') = {}
      BY <2>1, <2>2, <2>4
    <3> QED BY <3>1, <3>2, <2>4 DEF Owned
  <2> QED BY <2>5, <2>6, <2>7, <2>8
<1>9. CASE Frame!Leave
  <2>1. out.block = 0
    <3>1. Len(queue) \in 1..Len(queue)
      BY <1>9 DEF Frame!Leave, Owners
    <3> QED BY <1>9, <3>1 DEF Frame!Leave, Owner, Owners, Counts
  <2>2. out' = Frame!Nobody /\ blocks' = blocks \ {0}
        /\ queue' = queue /\ made' = made /\ ready' = ready
    BY <1>9, <2>1 DEF Frame!Leave, Frame!Free
  <2>3. Counts'
    BY <1>9, <2>1 DEF Counts, Frame!Leave, Frame!Free
  <2>4. Owner'
    BY <2>2, NobodyType DEF Owner
  <2>5. Owners'
    BY <2>2, NobodyType DEF Owners
  <2>6. Owned'
    BY <2>1, <2>2, NobodyType DEF Owned, Owners
  <2> QED BY <2>3, <2>4, <2>5, <2>6
<1>10. CASE Frame!Flush
  <2>1. CASE queue = <<>>
    BY <2>1, <1>10 DEF Frame!Flush, Counts, Owner, Owners, Owned
  <2>2. CASE queue # <<>>
    <3>1. queue' = Tail(queue) /\ queue \in Seq(Buffer)
      BY <1>10, <2>2 DEF Frame!Flush, Owners
    <3>2. /\ queue' \in Seq(Buffer) /\ Len(queue') = Len(queue) - 1 /\ Len(queue) \in Nat \ {0}
          /\ \A i \in 1..Len(queue') : queue'[i] = queue[i + 1]
          /\ Head(queue) = queue[1]
      BY <3>1, <2>2, HeadTailProperties
    <3>3. 1 \in 1..Len(queue)
      BY <3>2
    <3>4. queue[1].block \in blocks /\ out.block = -1 /\ queue[1].block > 0 /\ made \in Nat
      BY <1>10, <3>3 DEF Frame!Flush, Frame!Nobody, Owned, Owners, Counts
    <3>5. blocks' = blocks \ {queue[1].block} /\ UNCHANGED <<out, made, ready>>
      BY <1>10, <2>2, <3>2 DEF Frame!Flush, Frame!Free
    <3>6. Counts'
      BY <1>10, <2>2, <3>2, <3>4 DEF Frame!Flush, Frame!Free, Counts
    <3>7. Owner'
      BY <3>5 DEF Owner
    <3>8. Owners'
      <4>1. \A i \in 1..Len(queue') : i + 1 \in 1..Len(queue)
        BY <3>2
      <4>2. ASSUME NEW i \in 1..Len(queue')
            PROVE  /\ queue'[i].block \in 1..made' /\ Len(queue'[i].octets) = queue'[i].capacity
                   /\ out'.block > 0 => queue'[i].block < made'
        BY <4>1, <3>2, <3>5 DEF Owners
      <4>3. ASSUME NEW i \in 1..Len(queue'), NEW j \in 1..Len(queue'), i < j
            PROVE  queue'[i].block < queue'[j].block
        <5>1. i + 1 < j + 1 /\ i + 1 \in 1..Len(queue) /\ j + 1 \in 1..Len(queue)
          BY <4>1, <4>3, <3>2
        <5> QED BY <5>1, <3>2 DEF Owners
      <4> QED BY <4>2, <4>3, <3>2 DEF Owners
    <3>9. Owned'
      <4>1. blocks = {queue[i].block : i \in 1..Len(queue)}
        BY <3>4 DEF Owned
      <4>2. \A i \in 1..Len(queue) :
              i = 1 \/ (/\ i - 1 \in 1..Len(queue') /\ queue[i] = queue'[i - 1]
                        /\ queue[i].block # queue[1].block)
        BY <3>2, <3>3 DEF Owners
      <4>3. \A i \in 1..Len(queue') : /\ i + 1 \in 1..Len(queue)
                                      /\ queue'[i].block # queue[1].block
        BY <3>2, <3>3 DEF Owners
      <4>4. blocks' = {queue'[i].block : i \in 1..Len(queue')}
        <5>1. ASSUME NEW b \in blocks' PROVE \E i \in 1..Len(queue') : b = queue'[i].block
          <6>1. PICK i \in 1..Len(queue) : b = queue[i].block /\ b # queue[1].block
            BY ONLY <5>1, <4>1, <3>5
          <6> QED BY ONLY <6>1, <4>2
        <5>2. ASSUME NEW i \in 1..Len(queue') PROVE queue'[i].block \in blocks'
          <6>1. i + 1 \in 1..Len(queue) /\ queue'[i] = queue[i + 1] /\ queue'[i].block # queue[1].block
            BY ONLY <5>2, <4>3, <3>2
          <6>2. queue[i + 1].block \in blocks
            BY ONLY <6>1, <4>1
          <6>3. queue'[i].block = queue[i + 1].block
            BY ONLY <6>1
          <6> QED BY ONLY <6>1, <6>2, <6>3, <3>5, Zenon
        <5> QED BY ONLY <5>1, <5>2, Zenon
      <4> QED BY <4>4, <3>4, <3>5 DEF Owned
    <3> QED BY <3>6, <3>7, <3>8, <3>9
  <2> QED BY <2>1, <2>2
<1> QED BY <1>1, <1>2, <1>4, <1>5, <1>6, <1>7, <1>8, <1>9, <1>10 DEF Frame!Next

\* Blocks with one owner, all of them filled, are what the run asks for.
LEMMA SendingOwns ==
  ASSUME Sending PROVE Frame!BlocksFilled /\ Frame!OneOwner /\ Frame!TypeOK
<1> USE DEF Sending
<1>1. Frame!BlocksFilled
  BY DEF Owner, Owners, Frame!BlocksFilled, Frame!Buffers
<1>2. Frame!OneOwner
  <2>1. \A n \in blocks : \E b \in Frame!Buffers : b.block = n
    BY DEF Owned, Frame!Buffers
  <2>2. \A b \in Frame!Buffers : b.block > 0 => b.block \in blocks
    BY DEF Owned, Owner, Owners, Counts, Frame!Buffers
  <2>3. \A i \in 1..Len(queue) : out.block # queue[i].block
    BY DEF Owner, Owners, Counts
  <2> QED BY <2>1, <2>2, <2>3 DEF Frame!OneOwner, Counts
<1>3. Frame!TypeOK
  <2>1. blocks \subseteq 1..MaxFrames
    BY FrameAssumption DEF Owned, Owners, Counts
  <2>2. \A b \in Frame!Buffers : b.block <= 0 => b.octets = <<>> /\ b.capacity = 0
    BY DEF Owner, Owners, Counts, Frame!Buffers
  <2> QED BY <2>1, <2>2 DEF Frame!TypeOK, Counts
<1> QED BY <1>1, <1>2, <1>3

-----------------------------------------------------------------------------
(* Frames that come.                                                       *)

\* The octets of a frame with this payload, the ones that are not yet parsed, and the
\* frames of p after the first k.
Whole(n) == Frame!Octets(n) \o <<Frame!End>>

\* What was received and not parsed, and what is still to come.
Unparsed == buffer \o coming

\* The frames of the plan from the k-th on.
Pending(p, k) == [i \in 1..(Len(p) - k) |-> Whole(p[k + i])]

\* What was parsed are the first frames of the plan, and what is not parsed yet are the
\* octets of all the others.
Coming ==
  /\ plan \in Seq(Payloads) /\ coming \in Seq(Nat) /\ buffer \in Seq(Nat)
  /\ parsed \in Seq(Seq(Nat)) /\ Len(parsed) <= Len(plan)
  /\ \A i \in 1..Len(parsed) : parsed[i] = Whole(plan[i])
  /\ Unparsed = Fields!All(Pending(plan, Len(parsed)))

\* A number less than the modulus is its own rest.
LEMMA SmallMod ==
  ASSUME NEW n \in Nat, NEW m \in Nat, n < m PROVE n % m = n
  OBVIOUS

\* A whole frame: header, payload and end, and its size in its first octet.
LEMMA WholeType ==
  ASSUME NEW n \in Payloads
  PROVE  /\ Whole(n) \in Seq(Nat) /\ Len(Whole(n)) = Header + n + 1 /\ Whole(n)[1] = n
         /\ n \in Nat /\ Header + n + 1 \in Nat /\ Header \in Nat \ {0}
<1>1. n \in Nat /\ Header \in Nat \ {0}
  BY FrameAssumption
<1>2. Frame!Octets(n) \in Seq(Nat) /\ Len(Frame!Octets(n)) = Header + n /\ Frame!Octets(n)[1] = n
  BY <1>1, OctetsType
<1> QED BY <1>1, <1>2 DEF Whole, Frame!End

\* The frames that are still to be parsed are sequences of octets.
LEMMA PendingType ==
  ASSUME NEW p \in Seq(Payloads), NEW k \in 0..Len(p)
  PROVE  /\ Pending(p, k) \in Seq(Seq(Nat)) /\ Len(Pending(p, k)) = Len(p) - k
         /\ \A i \in 1..(Len(p) - k) : Pending(p, k)[i] = Whole(p[k + i])
<1>1. Len(p) - k \in Nat
  OBVIOUS
<1>2. ASSUME NEW i \in 1..(Len(p) - k) PROVE Whole(p[k + i]) \in Seq(Nat)
  <2>1. p[k + i] \in Payloads
    OBVIOUS
  <2> QED BY <2>1, WholeType
<1> QED BY <1>1, <1>2 DEF Pending

\* A frame that the server adds is the last of those to be parsed.
LEMMA PendingServe ==
  ASSUME NEW p \in Seq(Payloads), NEW k \in 0..Len(p), NEW n \in Payloads
  PROVE  /\ Append(p, n) \in Seq(Payloads) /\ k \in 0..Len(Append(p, n))
         /\ \A i \in 1..k : Append(p, n)[i] = p[i]
         /\ Fields!All(Pending(Append(p, n), k)) = Fields!All(Pending(p, k)) \o Whole(n)
<1> DEFINE q == Append(p, n)
           a == Pending(p, k)
           b == Pending(q, k)
           c == Append(a, Whole(n))
           L == Len(p)
<1>1. L \in Nat /\ q \in Seq(Payloads) /\ Len(q) = L + 1 /\ q[L + 1] = n /\ \A i \in 1..L : q[i] = p[i]
  OBVIOUS
<1> HIDE DEF q
<1>2. k \in 0..Len(q) /\ \A i \in 1..k : q[i] = p[i]
  BY <1>1
<1>3. a \in Seq(Seq(Nat)) /\ Len(a) = L - k /\ \A i \in 1..(L - k) : a[i] = Whole(p[k + i])
  BY PendingType
<1>4. b \in Seq(Seq(Nat)) /\ Len(b) = Len(q) - k /\ \A i \in 1..(Len(q) - k) : b[i] = Whole(q[k + i])
  BY <1>1, <1>2, PendingType
<1>5. Whole(n) \in Seq(Nat)
  BY WholeType
<1> HIDE DEF a, b
<1>6. c \in Seq(Seq(Nat)) /\ Len(c) = Len(a) + 1 /\ c[Len(a) + 1] = Whole(n)
      /\ \A i \in 1..Len(a) : c[i] = a[i]
  BY <1>3, <1>5, AppendProperties
<1> HIDE DEF c
<1>7. ASSUME NEW i \in 1..Len(b) PROVE b[i] = c[i]
  <2>1. CASE i = L + 1 - k
    <3>1. k + i = L + 1 /\ i = Len(a) + 1 /\ i \in 1..(Len(q) - k)
      BY <2>1, <1>1, <1>3, <1>4
    <3> QED BY <3>1, <1>1, <1>4, <1>6
  <2>2. CASE i # L + 1 - k
    <3>1. k + i \in 1..L /\ i \in 1..Len(a) /\ i \in 1..(Len(q) - k) /\ i \in 1..(L - k)
      BY <2>2, <1>1, <1>3, <1>4
    <3>2. q[k + i] = p[k + i]
      BY <3>1, <1>1
    <3>3. b[i] = Whole(q[k + i]) /\ a[i] = Whole(p[k + i]) /\ c[i] = a[i]
      BY <3>1, <1>3, <1>4, <1>6
    <3> QED BY <3>2, <3>3
  <2> QED BY <2>1, <2>2
<1>8. Len(b) = Len(c)
  BY <1>1, <1>3, <1>4, <1>6
<1>9. b = c
  BY <1>4, <1>6, <1>7, <1>8, SeqEqual
<1>10. Fields!All(c) = Fields!All(a) \o Whole(n)
  BY <1>3, <1>5, AllSnoc DEF c
<1> QED BY <1>1, <1>2, <1>9, <1>10 DEF q, a, b

\* The octets not parsed yet begin with the next frame.
LEMMA PendingParse ==
  ASSUME NEW p \in Seq(Payloads), NEW k \in 0..Len(p), k < Len(p)
  PROVE  /\ Fields!All(Pending(p, k)) = Whole(p[k + 1]) \o Fields!All(Pending(p, k + 1))
         /\ Fields!All(Pending(p, k + 1)) \in Seq(Nat) /\ p[k + 1] \in Payloads
<1> DEFINE a == Pending(p, k)
           b == Pending(p, k + 1)
           L == Len(p)
<1>1. L \in Nat /\ k + 1 \in 0..L /\ p[k + 1] \in Payloads
  OBVIOUS
<1>2. a \in Seq(Seq(Nat)) /\ Len(a) = L - k /\ \A i \in 1..(L - k) : a[i] = Whole(p[k + i])
  BY PendingType
<1>3. b \in Seq(Seq(Nat)) /\ Len(b) = L - (k + 1) /\ \A i \in 1..(L - (k + 1)) : b[i] = Whole(p[(k + 1) + i])
  BY <1>1, PendingType
<1> HIDE DEF a, b, L
<1>4. Whole(p[k + 1]) \in Seq(Nat)
  BY <1>1, WholeType
<1>5. Len(a) = Len(b) + 1 /\ a[1] = Whole(p[k + 1])
  BY <1>1, <1>2, <1>3
<1>6. ASSUME NEW i \in 1..Len(b) PROVE a[i + 1] = b[i]
  <2>1. i + 1 \in 1..(L - k) /\ i \in 1..(L - (k + 1)) /\ k + (i + 1) = (k + 1) + i
    BY <1>1, <1>2, <1>3
  <2>2. a[i + 1] = Whole(p[k + (i + 1)]) /\ b[i] = Whole(p[(k + 1) + i])
    BY <1>2, <1>3, <2>1
  <2> QED BY <2>1, <2>2
<1>7. Fields!All(a) = Whole(p[k + 1]) \o Fields!All(b)
  BY <1>2, <1>3, <1>4, <1>5, <1>6, AllCons
<1>8. Fields!All(b) \in Seq(Nat)
  BY <1>3, AllType
<1> QED BY <1>1, <1>7, <1>8 DEF a, b

\* At the beginning nothing was sent and nothing was parsed.
LEMMA ComingInit ==
  ASSUME Frame!Init PROVE Coming
<1>1. /\ plan \in Seq(Payloads) /\ coming \in Seq(Nat) /\ buffer \in Seq(Nat) /\ parsed \in Seq(Seq(Nat))
      /\ Len(plan) = 0 /\ Len(parsed) = 0 /\ buffer = <<>> /\ coming = <<>>
  BY DEF Frame!Init
<1>2. Unparsed = <<>>
  BY <1>1 DEF Unparsed
<1>3. Fields!All(Pending(plan, Len(parsed))) = <<>>
  <2>1. Len(parsed) \in 0..Len(plan)
    BY <1>1
  <2>2. Len(Pending(plan, Len(parsed))) = 0
    <3>1. Len(Pending(plan, Len(parsed))) = Len(plan) - Len(parsed)
      BY <1>1, <2>1, PendingType
    <3> QED BY <1>1, <3>1
  <2> QED BY <2>2, AllEmpty
<1> QED BY <1>1, <1>2, <1>3 DEF Coming

\* One frame is cut from the front of the octets b, with c still to come.
LEMMA ParseCut ==
  ASSUME NEW b \in Seq(Nat), NEW c \in Seq(Nat), NEW p \in Seq(Payloads), NEW k \in 0..Len(p),
         b \o c = Fields!All(Pending(p, k)), Len(b) >= Header,
         Len(b) >= Frame!totalSize(Frame!byte(b, 0))
  PROVE  LET n == Frame!totalSize(Frame!byte(b, 0))
             r == Frame!data(b, n, Len(b) - n)
         IN  /\ k < Len(p) /\ Frame!data(b, 0, n) = Whole(p[k + 1])
             /\ r \in Seq(Nat) /\ r \o c = Fields!All(Pending(p, k + 1))
<1>1. Header \in Nat \ {0} /\ Len(b) \in Nat /\ Len(b) >= 1
  BY FrameAssumption
<1>2. k < Len(p)
  <2> SUFFICES ASSUME ~(k < Len(p)) PROVE FALSE
    OBVIOUS
  <2>1. Len(Pending(p, k)) = 0
    BY PendingType
  <2>2. b \o c = <<>>
    BY <2>1, AllEmpty
  <2>3. Len(b \o c) = Len(b) + Len(c) /\ Len(c) \in Nat
    BY CatType
  <2>4. Len(b \o c) = 0
    BY <2>2
  <2> QED BY ONLY <1>1, <2>3, <2>4
<1> DEFINE w == Whole(p[k + 1])
           a == Fields!All(Pending(p, k + 1))
           n == Header + p[k + 1] + 1
<1>3. b \o c = w \o a /\ a \in Seq(Nat) /\ p[k + 1] \in Payloads
  BY <1>2, PendingParse
<1>4. /\ w \in Seq(Nat) /\ Len(w) = n /\ w[1] = p[k + 1] /\ n \in Nat /\ p[k + 1] \in Nat
      /\ n < MaxWord /\ MaxWord \in Nat /\ n >= 1
  <2>1. w \in Seq(Nat) /\ Len(w) = n /\ w[1] = p[k + 1] /\ n \in Nat /\ p[k + 1] \in Nat
    BY <1>3, WholeType
  <2>2. p[k + 1] + Header + 1 < MaxWord /\ MaxWord \in Nat
    BY <1>3, FrameAssumption
  <2>3. n < MaxWord /\ n >= 1
    <3> DEFINE q == p[k + 1]
    <3> HIDE DEF q
    <3>1. n = Header + q + 1 /\ q \in Nat /\ Header \in Nat /\ q + Header + 1 < MaxWord /\ MaxWord \in Nat
      BY <1>1, <2>1, <2>2 DEF q
    <3> HIDE DEF n
    <3> QED BY ONLY <3>1
  <2> QED BY <2>1, <2>2, <2>3
<1> HIDE DEF w, a
<1>5. b[1] = w[1]
  <2>1. 1 \in 1..Len(b) /\ 1 \in 1..Len(w)
    BY <1>1, <1>4
  <2>2. (b \o c)[1] = b[1]
    <3>1. \A i \in 1..Len(b) : (b \o c)[i] = b[i]
      BY CatType, SMTT(60)
    <3> QED BY ONLY <2>1, <3>1, Zenon
  <2>3. (w \o a)[1] = w[1]
    <3>1. w \in Seq(Nat) /\ a \in Seq(Nat)
      BY ONLY <1>3, <1>4
    <3>2. \A i \in 1..Len(w) : (w \o a)[i] = w[i]
      BY ONLY <3>1, CatType, SMTT(60)
    <3> QED BY ONLY <2>1, <3>2, Zenon
  <2> QED BY <1>3, <2>2, <2>3
<1>6. Frame!totalSize(Frame!byte(b, 0)) = n
  <2>1. Frame!byte(b, 0) = p[k + 1]
    BY <1>4, <1>5 DEF Frame!byte
  <2>2. p[k + 1] + Header + 1 = n
    <3>1. p[k + 1] \in Nat /\ Header \in Nat
      BY <1>1, <1>4
    <3> DEFINE q == p[k + 1]
    <3> HIDE DEF q
    <3>2. q \in Nat /\ n = Header + q + 1
      BY ONLY <3>1 DEF q
    <3> HIDE DEF n
    <3>3. q + Header + 1 = n
      BY ONLY <3>1, <3>2
    <3> QED BY ONLY <3>3 DEF q
  <2> HIDE DEF n
  <2>3. n % MaxWord = n
    BY <1>4, SmallMod
  <2> QED BY <2>1, <2>2, <2>3 DEF Frame!totalSize
<1> HIDE DEF n
<1>7. /\ Frame!data(b, 0, n) = SubSeq(b, 1, Len(w))
      /\ Frame!data(b, n, Len(b) - n) = SubSeq(b, Len(w) + 1, Len(b))
  <2>1. 0 + 1 = 1 /\ 0 + n = n /\ n + (Len(b) - n) = Len(b)
    BY <1>1, <1>4
  <2> QED BY <2>1, <1>4 DEF Frame!data
<1>8. Len(w) <= Len(b)
  BY <1>4, <1>6
<1>9. /\ SubSeq(b, 1, Len(w)) = w /\ SubSeq(b, Len(w) + 1, Len(b)) \o c = a
      /\ SubSeq(b, Len(w) + 1, Len(b)) \in Seq(Nat)
  <2>1. b \in Seq(Nat) /\ c \in Seq(Nat) /\ w \in Seq(Nat) /\ a \in Seq(Nat) /\ b \o c = w \o a
    BY <1>3, <1>4
  <2>2. Joined(b \o c, b, c) /\ Joined(b \o c, w, a)
    BY <2>1, Zenon DEF Joined
  <2>3. /\ SubSeq(b, 1, Len(w)) = w
        /\ Joined(a, SubSeq(b, Len(w) + 1, Len(b)), c)
        /\ SubSeq(b, Len(w) + 1, Len(b)) \in Seq(Nat)
    BY ONLY <1>8, <2>1, <2>2, JoinedCut
  <2> QED BY <2>3, Zenon DEF Joined
<1> QED BY <1>2, <1>6, <1>7, <1>9 DEF w, a

\* A frame written at the end of what comes.
LEMMA ServeCat ==
  ASSUME NEW b \in Seq(Nat), NEW c \in Seq(Nat), NEW n \in Payloads
  PROVE  /\ (c \o Frame!Octets(n)) \o <<Frame!End>> = c \o Whole(n)
         /\ c \o Whole(n) \in Seq(Nat)
         /\ b \o (c \o Whole(n)) = (b \o c) \o Whole(n)
<1>1. Frame!Octets(n) \in Seq(Nat) /\ <<Frame!End>> \in Seq(Nat)
  <2>1. n \in Nat /\ Frame!End \in Nat
    BY FrameAssumption DEF Frame!End
  <2> QED BY <2>1, OctetsType
<1>2. Whole(n) \in Seq(Nat)
  BY WholeType
<1>3. (c \o Frame!Octets(n)) \o <<Frame!End>> = c \o Whole(n)
  BY <1>1, ConcatAssociative DEF Whole
<1>4. b \o (c \o Whole(n)) = (b \o c) \o Whole(n)
  <2> DEFINE w == Whole(n)
  <2>1. Joined(b \o c, b, c) /\ Joined(c \o w, c, w) /\ Joined((b \o c) \o w, b \o c, w)
    BY Zenon DEF Joined
  <2>2. b \in Seq(Nat) /\ c \in Seq(Nat) /\ w \in Seq(Nat)
    BY <1>2
  <2> HIDE DEF w
  <2>3. Joined((b \o c) \o w, b, c \o w)
    BY ONLY <2>1, <2>2, JoinedStep
  <2> QED BY <2>3, Zenon DEF Joined, w
<1> QED BY <1>2, <1>3, <1>4, CatType

\* Octets that move from what comes to the buffer stay in their order.
LEMMA ReceiveCat ==
  ASSUME NEW b \in Seq(Nat), NEW c \in Seq(Nat), NEW n \in 1..Len(c)
  PROVE  LET x == SubSeq(c, 1, n)
             y == SubSeq(c, n + 1, Len(c))
         IN  b \o x \in Seq(Nat) /\ y \in Seq(Nat) /\ (b \o x) \o y = b \o c
<1> DEFINE x == SubSeq(c, 1, n)
           y == SubSeq(c, n + 1, Len(c))
<1>1. x \in Seq(Nat)
  <2>1. 1 \in Nat \ {0} /\ n \in 0..Len(c)
    OBVIOUS
  <2> QED BY <2>1, SubType
<1>2. y \in Seq(Nat)
  <2>1. n + 1 \in Nat \ {0} /\ Len(c) \in 0..Len(c)
    OBVIOUS
  <2> QED BY <2>1, SubType
<1>3. x \o y = c
  <2>1. 1 \in 1..(Len(c) + 1) /\ n \in (1 - 1)..Len(c) /\ Len(c) \in n..Len(c)
    OBVIOUS
  <2>2. x \o y = SubSeq(c, 1, Len(c))
    BY <2>1, ConcatAdjacentSubSeq
  <2>3. SubSeq(c, 1, Len(c)) = c
    BY SubSeqFull
  <2> QED BY <2>2, <2>3
<1> HIDE DEF x, y
<1>4. (b \o x) \o y = b \o c
  <2>1. Joined(b \o x, b, x) /\ Joined(c, x, y) /\ Joined((b \o x) \o y, b \o x, y)
    BY <1>3, Zenon DEF Joined
  <2>2. b \in Seq(Nat)
    OBVIOUS
  <2>3. Joined((b \o x) \o y, b, c)
    BY ONLY <1>1, <1>2, <2>1, <2>2, JoinedStep
  <2> QED BY <2>3, Zenon DEF Joined
<1> QED BY <1>1, <1>2, <1>4, CatType DEF x, y

\* Every step keeps the octets in their order: what is parsed is the next frame, whole.
LEMMA ComingNext ==
  ASSUME Coming, Frame!Next PROVE Coming'
<1>0. /\ plan \in Seq(Payloads) /\ coming \in Seq(Nat) /\ buffer \in Seq(Nat)
      /\ parsed \in Seq(Seq(Nat)) /\ Len(parsed) \in 0..Len(plan) /\ Len(parsed) \in Nat /\ Len(plan) \in Nat
      /\ \A i \in 1..Len(parsed) : parsed[i] = Whole(plan[i])
      /\ buffer \o coming = Fields!All(Pending(plan, Len(parsed)))
  BY DEF Coming, Unparsed
<1>1. ASSUME UNCHANGED <<plan, coming, buffer, parsed>> PROVE Coming'
  BY <1>1 DEF Coming, Unparsed
<1>2. ASSUME NEW f, Frame!Build(f) PROVE Coming'
  BY <1>1, <1>2 DEF Frame!Build
<1>3. CASE Frame!SendNow \/ Frame!Enqueue \/ Frame!Leave \/ Frame!Flush
  BY <1>1, <1>3 DEF Frame!SendNow, Frame!Enqueue, Frame!Leave, Frame!Flush
<1>4. ASSUME NEW n \in Payloads, Frame!Serve(n) PROVE Coming'
  <2>1. /\ plan' = Append(plan, n) /\ buffer' = buffer /\ parsed' = parsed
        /\ coming' = (coming \o Frame!Octets(n)) \o <<Frame!End>>
    BY <1>4 DEF Frame!Serve
  <2>2. /\ (coming \o Frame!Octets(n)) \o <<Frame!End>> = coming \o Whole(n)
        /\ coming \o Whole(n) \in Seq(Nat)
        /\ buffer \o (coming \o Whole(n)) = (buffer \o coming) \o Whole(n)
    <3>1. buffer \in Seq(Nat) /\ coming \in Seq(Nat) /\ n \in Payloads
      BY <1>0
    <3> QED BY ONLY <3>1, ServeCat
  <2>3. coming' \in Seq(Nat) /\ Unparsed' = (buffer \o coming) \o Whole(n)
    BY <2>1, <2>2, Zenon DEF Unparsed
  <2>4. /\ Append(plan, n) \in Seq(Payloads) /\ Len(parsed) \in 0..Len(Append(plan, n))
        /\ \A i \in 1..Len(parsed) : Append(plan, n)[i] = plan[i]
        /\ Fields!All(Pending(Append(plan, n), Len(parsed)))
             = Fields!All(Pending(plan, Len(parsed))) \o Whole(n)
    BY <1>0, PendingServe
  <2>5. Unparsed' = Fields!All(Pending(plan', Len(parsed')))
    BY <1>0, <2>1, <2>3, <2>4, Zenon
  <2>6. plan' \in Seq(Payloads) /\ Len(parsed') <= Len(plan')
    BY <2>1, <2>4
  <2>7. \A i \in 1..Len(parsed') : parsed'[i] = Whole(plan'[i])
    BY <1>0, <2>1, <2>4
  <2> QED BY <1>0, <2>1, <2>3, <2>5, <2>6, <2>7 DEF Coming
<1>5. ASSUME NEW n \in 1..Len(coming), Frame!Receive(n) PROVE Coming'
  <2>1. /\ buffer' = buffer \o SubSeq(coming, 1, n) /\ coming' = SubSeq(coming, n + 1, Len(coming))
        /\ plan' = plan /\ parsed' = parsed
    BY <1>5 DEF Frame!Receive
  <2>2. buffer' \in Seq(Nat) /\ coming' \in Seq(Nat) /\ buffer' \o coming' = buffer \o coming
    BY <1>0, <2>1, ReceiveCat
  <2>3. Unparsed' = Fields!All(Pending(plan', Len(parsed')))
    BY <1>0, <2>1, <2>2, Zenon DEF Unparsed
  <2> QED BY <1>0, <2>1, <2>2, <2>3 DEF Coming
<1>6. CASE Frame!Parse
  <2> DEFINE n == Frame!totalSize(Frame!byte(buffer, 0))
             r == Frame!data(buffer, n, Len(buffer) - n)
             k == Len(parsed)
  <2>1. /\ Len(buffer) >= Header /\ Len(buffer) >= n
        /\ parsed' = Append(parsed, Frame!data(buffer, 0, n)) /\ buffer' = r
        /\ plan' = plan /\ coming' = coming
    BY <1>6 DEF Frame!Parse
  <2>2. /\ k < Len(plan) /\ Frame!data(buffer, 0, n) = Whole(plan[k + 1])
        /\ r \in Seq(Nat) /\ r \o coming = Fields!All(Pending(plan, k + 1))
    BY <1>0, <2>1, ParseCut
  <2>3. plan[k + 1] \in Payloads
    BY <1>0, <2>2
  <2>4. Whole(plan[k + 1]) \in Seq(Nat)
    BY <2>3, WholeType
  <2>5. /\ parsed' \in Seq(Seq(Nat)) /\ Len(parsed') = k + 1 /\ parsed'[k + 1] = Whole(plan[k + 1])
        /\ \A i \in 1..k : parsed'[i] = parsed[i]
    <3>1. parsed' = Append(parsed, Whole(plan[k + 1]))
      BY <2>1, <2>2
    <3> QED BY <1>0, <3>1, <2>4, AppendProperties
  <2>6. \A i \in 1..Len(parsed') : parsed'[i] = Whole(plan'[i])
    BY <1>0, <2>1, <2>5
  <2>7. Unparsed' = Fields!All(Pending(plan', Len(parsed')))
    <3> HIDE DEF r
    <3> QED BY <2>1, <2>2, <2>5, Zenon DEF Unparsed
  <2>8. Len(parsed') <= Len(plan') /\ buffer' \in Seq(Nat)
    BY <1>0, <2>1, <2>2, <2>5
  <2> QED BY <1>0, <2>1, <2>5, <2>6, <2>7, <2>8 DEF Coming
<1> QED BY <1>2, <1>3, <1>4, <1>5, <1>6 DEF Frame!Next

\* What was parsed are the frames of the plan, none cut and none joined.
LEMMA ComingWhole ==
  ASSUME Coming PROVE Frame!FramesWhole
  BY DEF Coming, Frame!FramesWhole, Whole

-----------------------------------------------------------------------------
(* The configuration.                                                      *)

\* The places in g of the last option c: one or none.
LastAt(g, c) == {i \in 1..Len(g) : g[i].opt = c /\ \A j \in (i + 1)..Len(g) : g[j].opt # c}

\* The one element of a set with one element.
Only(S) == CHOOSE i \in S : TRUE

\* What the last option c says as a string and as a number, and d without one.
Str(g, c, d) == IF LastAt(g, c) = {} THEN d ELSE g[Only(LastAt(g, c))].str
Num(g, c, d) == IF LastAt(g, c) = {} THEN d ELSE g[Only(LastAt(g, c))].num

\* Only finds the element.
LEMMA OnlyIs == (\A x : Only({x}) = x) /\ (\A S : S # {} => Only(S) \in S)
  BY DEF Only

\* The settings, one by one.
Cfg(v, c, l, p, r, q, s, o) ==
  [verbosity |-> v, cfgFile |-> c, logFile |-> l, port |-> p, rmqStr |-> r, rmqQueueName |-> q,
   useSyslog |-> s, useConsole |-> o]

\* What the options g say.
Says(g) == Cfg(Num(g, "v", 0), Str(g, "c", "config.cfg"), Str(g, "l", ""),
               Settings!asPort(Num(g, "p", 5 % (MaxPort + 1))), Str(g, "r", "amqp://localhost/"),
               Str(g, "q", "proxyCtl"), LastAt(g, "s") # {}, LastAt(g, "o") # {})

\* The configuration is what the options say.
Chosen == given \in Seq(Options) /\ cfg = Says(given)

\* The eight fields of a configuration.
LEMMA CfgFields ==
  ASSUME NEW v, NEW c, NEW l, NEW p, NEW r, NEW q, NEW s, NEW o
  PROVE  LET x == Cfg(v, c, l, p, r, q, s, o)
         IN  /\ x.verbosity = v /\ x.cfgFile = c /\ x.logFile = l /\ x.port = p
             /\ x.rmqStr = r /\ x.rmqQueueName = q /\ x.useSyslog = s /\ x.useConsole = o
  BY DEF Cfg

\* set() changes the field of its option and no other.
LEMMA CfgSet ==
  ASSUME NEW v, NEW c, NEW l, NEW p, NEW r, NEW q, NEW s, NEW o, NEW y
  PROVE  Settings!set(Cfg(v, c, l, p, r, q, s, o), y)
         = Cfg(IF y.opt = "v" THEN y.num ELSE v, IF y.opt = "c" THEN y.str ELSE c,
               IF y.opt = "l" THEN y.str ELSE l, IF y.opt = "p" THEN Settings!asPort(y.num) ELSE p,
               IF y.opt = "r" THEN y.str ELSE r, IF y.opt = "q" THEN y.str ELSE q,
               IF y.opt = "s" THEN TRUE ELSE s, IF y.opt = "o" THEN TRUE ELSE o)
<1> DEFINE x == Cfg(v, c, l, p, r, q, s, o)
<1>1. CASE y.opt = "v"
  BY <1>1 DEF Settings!set, Cfg
<1>2. CASE y.opt = "c"
  BY <1>2 DEF Settings!set, Cfg
<1>3. CASE y.opt = "l"
  BY <1>3 DEF Settings!set, Cfg
<1>4. CASE y.opt = "p"
  BY <1>4 DEF Settings!set, Cfg
<1>5. CASE y.opt = "r"
  BY <1>5 DEF Settings!set, Cfg
<1>6. CASE y.opt = "q"
  BY <1>6 DEF Settings!set, Cfg
<1>7. CASE y.opt = "s"
  BY <1>7 DEF Settings!set, Cfg
<1>8. CASE y.opt = "o"
  BY <1>8 DEF Settings!set, Cfg
<1>9. CASE y.opt \notin {"v", "c", "l", "p", "r", "q", "s", "o"}
  BY <1>9 DEF Settings!set, Cfg
<1> QED BY <1>1, <1>2, <1>3, <1>4, <1>5, <1>6, <1>7, <1>8, <1>9

\* An option that is read last is the last one of its letter.
LEMMA LastAppend ==
  ASSUME NEW g \in Seq(Options), NEW o \in Options, NEW c
  PROVE  /\ o.opt = c => LastAt(Append(g, o), c) = {Len(g) + 1}
         /\ o.opt # c => LastAt(Append(g, o), c) = LastAt(g, c)
<1> DEFINE h == Append(g, o)
           n == Len(g)
<1>1. n \in Nat /\ Len(h) = n + 1 /\ h[n + 1] = o /\ \A i \in 1..n : h[i] = g[i]
  OBVIOUS
<1> HIDE DEF h, n
<1>2. ASSUME o.opt = c PROVE LastAt(h, c) = {n + 1}
  <2>1. ASSUME NEW i \in LastAt(h, c) PROVE i = n + 1
    <3>1. i \in 1..(n + 1) /\ \A j \in (i + 1)..(n + 1) : h[j].opt # c
      BY <1>1 DEF LastAt
    <3>2. ~(n + 1 \in (i + 1)..(n + 1))
      BY <1>1, <1>2, <3>1
    <3> QED BY <1>1, <3>1, <3>2
  <2>2. n + 1 \in LastAt(h, c)
    BY <1>1, <1>2 DEF LastAt
  <2> QED BY <2>1, <2>2
<1>3. ASSUME o.opt # c PROVE LastAt(h, c) = LastAt(g, c)
  <2>1. ASSUME NEW i \in LastAt(h, c) PROVE i \in LastAt(g, c)
    <3>1. i \in 1..(n + 1) /\ h[i].opt = c /\ \A j \in (i + 1)..(n + 1) : h[j].opt # c
      BY <1>1 DEF LastAt
    <3>2. i \in 1..n
      BY <1>1, <1>3, <3>1
    <3>3. \A j \in (i + 1)..n : g[j].opt # c
      BY <1>1, <3>1, <3>2
    <3> QED BY <1>1, <3>1, <3>2, <3>3 DEF LastAt, n
  <2>2. ASSUME NEW i \in LastAt(g, c) PROVE i \in LastAt(h, c)
    <3>1. i \in 1..n /\ g[i].opt = c /\ \A j \in (i + 1)..n : g[j].opt # c
      BY DEF LastAt, n
    <3>2. ASSUME NEW j \in (i + 1)..(n + 1) PROVE h[j].opt # c
      <4>1. CASE j = n + 1
        BY <4>1, <1>1, <1>3
      <4>2. CASE j # n + 1
        <5>1. j \in (i + 1)..n /\ j \in 1..n
          BY <1>1, <3>1, <4>2
        <5> QED BY <1>1, <3>1, <5>1
      <4> QED BY <4>1, <4>2
    <3> QED BY <1>1, <3>1, <3>2 DEF LastAt
  <2> QED BY <2>1, <2>2
<1> QED BY <1>2, <1>3 DEF h, n

\* What an option says when it is read last.
LEMMA ValueAppend ==
  ASSUME NEW g \in Seq(Options), NEW o \in Options, NEW c, NEW d
  PROVE  /\ Str(Append(g, o), c, d) = IF o.opt = c THEN o.str ELSE Str(g, c, d)
         /\ Num(Append(g, o), c, d) = IF o.opt = c THEN o.num ELSE Num(g, c, d)
         /\ LastAt(Append(g, o), c) # {} <=> o.opt = c \/ LastAt(g, c) # {}
<1> DEFINE h == Append(g, o)
           n == Len(g)
<1>1. n \in Nat /\ h[n + 1] = o /\ \A i \in 1..n : h[i] = g[i]
  OBVIOUS
<1> HIDE DEF h, n
<1>2. /\ o.opt = c => LastAt(h, c) = {n + 1}
      /\ o.opt # c => LastAt(h, c) = LastAt(g, c)
  BY LastAppend DEF h, n
<1>3. LastAt(h, c) # {} <=> o.opt = c \/ LastAt(g, c) # {}
  BY <1>2
<1>4. /\ Str(h, c, d) = IF o.opt = c THEN o.str ELSE Str(g, c, d)
      /\ Num(h, c, d) = IF o.opt = c THEN o.num ELSE Num(g, c, d)
  <2>1. CASE o.opt = c
    <3>1. LastAt(h, c) # {} /\ h[Only(LastAt(h, c))] = o
      BY <1>1, <1>2, <2>1, OnlyIs
    <3> QED BY <2>1, <3>1 DEF Str, Num
  <2>2. CASE o.opt # c /\ LastAt(g, c) = {}
    BY <1>2, <2>2 DEF Str, Num
  <2>3. CASE o.opt # c /\ LastAt(g, c) # {}
    <3> DEFINE k == Only(LastAt(g, c))
    <3>1. k \in LastAt(g, c)
      BY <2>3, OnlyIs
    <3>2. k \in 1..n
      BY <3>1 DEF LastAt, n
    <3>3. h[k] = g[k] /\ LastAt(h, c) = LastAt(g, c)
      BY <1>1, <1>2, <2>3, <3>2
    <3> QED BY <2>3, <3>3 DEF Str, Num
  <2> QED BY <2>1, <2>2, <2>3
<1> QED BY <1>3, <1>4 DEF h

\* Reading an option and setting its field is what all the options say together.
LEMMA SaysAppend ==
  ASSUME NEW g \in Seq(Options), NEW o \in Options
  PROVE  /\ Settings!set(Says(g), o) = Says(Append(g, o))
         /\ o.opt \in {"h", "?"} => Says(Append(g, o)) = Says(g)
<1> DEFINE h == Append(g, o)
           d == 5 % (MaxPort + 1)
<1>1. \A c, e : /\ Str(h, c, e) = IF o.opt = c THEN o.str ELSE Str(g, c, e)
                /\ Num(h, c, e) = IF o.opt = c THEN o.num ELSE Num(g, c, e)
                /\ LastAt(h, c) # {} <=> o.opt = c \/ LastAt(g, c) # {}
  BY ValueAppend
<1> HIDE DEF h, d
<1>2. ASSUME NEW c PROVE (LastAt(h, c) # {}) = (IF o.opt = c THEN TRUE ELSE LastAt(g, c) # {})
  BY <1>1, Zenon
<1>3. Settings!asPort(Num(h, "p", d))
      = IF o.opt = "p" THEN Settings!asPort(o.num) ELSE Settings!asPort(Num(g, "p", d))
  BY <1>1
<1>4. Settings!set(Says(g), o) = Says(h)
  <2>1. Settings!set(Says(g), o)
        = Cfg(IF o.opt = "v" THEN o.num ELSE Num(g, "v", 0),
              IF o.opt = "c" THEN o.str ELSE Str(g, "c", "config.cfg"),
              IF o.opt = "l" THEN o.str ELSE Str(g, "l", ""),
              IF o.opt = "p" THEN Settings!asPort(o.num) ELSE Settings!asPort(Num(g, "p", d)),
              IF o.opt = "r" THEN o.str ELSE Str(g, "r", "amqp://localhost/"),
              IF o.opt = "q" THEN o.str ELSE Str(g, "q", "proxyCtl"),
              IF o.opt = "s" THEN TRUE ELSE LastAt(g, "s") # {},
              IF o.opt = "o" THEN TRUE ELSE LastAt(g, "o") # {})
    <3> DEFINE v == Num(g, "v", 0)
               c == Str(g, "c", "config.cfg")
               l == Str(g, "l", "")
               p == Settings!asPort(Num(g, "p", d))
               r == Str(g, "r", "amqp://localhost/")
               q == Str(g, "q", "proxyCtl")
               s == LastAt(g, "s") # {}
               b == LastAt(g, "o") # {}
    <3>1. Says(g) = Cfg(v, c, l, p, r, q, s, b)
      BY Zenon DEF Says, d
    <3> HIDE DEF v, c, l, p, r, q, s, b
    <3>2. Settings!set(Cfg(v, c, l, p, r, q, s, b), o)
          = Cfg(IF o.opt = "v" THEN o.num ELSE v, IF o.opt = "c" THEN o.str ELSE c,
                IF o.opt = "l" THEN o.str ELSE l, IF o.opt = "p" THEN Settings!asPort(o.num) ELSE p,
                IF o.opt = "r" THEN o.str ELSE r, IF o.opt = "q" THEN o.str ELSE q,
                IF o.opt = "s" THEN TRUE ELSE s, IF o.opt = "o" THEN TRUE ELSE b)
      BY ONLY CfgSet
    <3> QED BY <3>1, <3>2, Zenon DEF v, c, l, p, r, q, s, b
  <2>2. Says(h) = Cfg(Num(h, "v", 0), Str(h, "c", "config.cfg"), Str(h, "l", ""),
                      Settings!asPort(Num(h, "p", d)), Str(h, "r", "amqp://localhost/"),
                      Str(h, "q", "proxyCtl"), LastAt(h, "s") # {}, LastAt(h, "o") # {})
    BY Zenon DEF Says, d
  <2>3. /\ Num(h, "v", 0) = (IF o.opt = "v" THEN o.num ELSE Num(g, "v", 0))
        /\ Str(h, "c", "config.cfg") = (IF o.opt = "c" THEN o.str ELSE Str(g, "c", "config.cfg"))
        /\ Str(h, "l", "") = (IF o.opt = "l" THEN o.str ELSE Str(g, "l", ""))
        /\ Str(h, "r", "amqp://localhost/")
             = (IF o.opt = "r" THEN o.str ELSE Str(g, "r", "amqp://localhost/"))
        /\ Str(h, "q", "proxyCtl") = (IF o.opt = "q" THEN o.str ELSE Str(g, "q", "proxyCtl"))
    BY <1>1
  <2>4. /\ (LastAt(h, "s") # {}) = (IF o.opt = "s" THEN TRUE ELSE LastAt(g, "s") # {})
        /\ (LastAt(h, "o") # {}) = (IF o.opt = "o" THEN TRUE ELSE LastAt(g, "o") # {})
    BY <1>2, Zenon
  <2> QED BY <1>3, <2>1, <2>2, <2>3, <2>4, Zenon
<1>5. ASSUME o.opt \in {"h", "?"} PROVE Says(h) = Says(g)
  BY <1>1, <1>5 DEF Says
<1> QED BY <1>4, <1>5 DEF h

\* Without an option the configuration has its defaults.
LEMMA ChosenInit == ASSUME Settings!Init PROVE Chosen
<1>1. given \in Seq(Options) /\ Len(given) = 0 /\ cfg = Settings!Defaults
  BY DEF Settings!Init
<1>2. \A c : LastAt(given, c) = {}
  BY <1>1 DEF LastAt
<1>3. \A c, d : Str(given, c, d) = d /\ Num(given, c, d) = d
  BY <1>2 DEF Str, Num
<1>4. Settings!asPort(5 % (MaxPort + 1)) = 5 % (MaxPort + 1)
  <2>1. MaxPort + 1 \in Nat \ {0}
    BY ConfigAssumption
  <2>2. 5 % (MaxPort + 1) \in 0..MaxPort
    BY ConfigAssumption
  <2> QED BY ConfigAssumption, <2>1, <2>2 DEF Settings!asPort
<1>5. Says(given) = Settings!Defaults
  BY <1>2, <1>3, <1>4 DEF Says, Cfg, Settings!Defaults
<1> QED BY <1>1, <1>5 DEF Chosen

\* Every step keeps the configuration what the options say.
LEMMA ChosenNext == ASSUME Chosen, Settings!Next PROVE Chosen'
<1>1. ASSUME UNCHANGED <<given, cfg>> PROVE Chosen'
  BY <1>1 DEF Chosen
<1>2. ASSUME NEW o \in Options, Settings!parseCmdLine(o) PROVE Chosen'
  <2>1. given \in Seq(Options) /\ cfg = Says(given) /\ given' = Append(given, o)
    BY <1>2 DEF Chosen, Settings!parseCmdLine
  <2>2. cfg' = IF o.opt \in {"h", "?"} THEN cfg ELSE Settings!set(cfg, o)
    BY <1>2 DEF Settings!parseCmdLine
  <2>3. cfg' = Says(given')
    BY <2>1, <2>2, SaysAppend
  <2>4. given' \in Seq(Options)
    BY <2>1
  <2> QED BY <2>3, <2>4 DEF Chosen
<1>3. CASE Settings!Open \/ Settings!EndOfFile
  BY <1>1, <1>3 DEF Settings!Open, Settings!EndOfFile
<1>4. ASSUME NEW l \in Lines, Settings!read(l) PROVE Chosen'
  BY <1>1, <1>4 DEF Settings!read
<1> QED BY <1>2, <1>3, <1>4 DEF Settings!Next

\* What the options say together is what the last of each letter says.
LEMMA ChosenLast ==
  ASSUME Chosen PROVE Settings!LastOptionWins /\ cfg.port \in Settings!Ports /\ cfg.verbosity \in Int
<1>1. /\ cfg.verbosity = Num(given, "v", 0) /\ cfg.cfgFile = Str(given, "c", "config.cfg")
      /\ cfg.logFile = Str(given, "l", "") /\ cfg.port = Settings!asPort(Num(given, "p", 5 % (MaxPort + 1)))
      /\ cfg.rmqStr = Str(given, "r", "amqp://localhost/")
      /\ cfg.rmqQueueName = Str(given, "q", "proxyCtl")
      /\ cfg.useSyslog = (LastAt(given, "s") # {}) /\ cfg.useConsole = (LastAt(given, "o") # {})
  <2> DEFINE v == Num(given, "v", 0)
             c == Str(given, "c", "config.cfg")
             l == Str(given, "l", "")
             p == Settings!asPort(Num(given, "p", 5 % (MaxPort + 1)))
             r == Str(given, "r", "amqp://localhost/")
             q == Str(given, "q", "proxyCtl")
             s == LastAt(given, "s") # {}
             b == LastAt(given, "o") # {}
  <2>1. cfg = Cfg(v, c, l, p, r, q, s, b)
    BY Zenon DEF Chosen, Says
  <2> HIDE DEF v, c, l, p, r, q, s, b
  <2>2. /\ cfg.verbosity = v /\ cfg.cfgFile = c /\ cfg.logFile = l /\ cfg.port = p
        /\ cfg.rmqStr = r /\ cfg.rmqQueueName = q /\ cfg.useSyslog = s /\ cfg.useConsole = b
    BY ONLY <2>1, CfgFields
  <2> QED BY <2>2, Zenon DEF v, c, l, p, r, q, s, b
<1>2. Settings!LastOptionWins
  <2>1. /\ Settings!Defaults.verbosity = 0 /\ Settings!Defaults.cfgFile = "config.cfg"
        /\ Settings!Defaults.logFile = "" /\ Settings!Defaults.port = 5 % (MaxPort + 1)
        /\ Settings!Defaults.rmqStr = "amqp://localhost/" /\ Settings!Defaults.rmqQueueName = "proxyCtl"
    BY DEF Settings!Defaults
  <2>2. /\ cfg.cfgFile = Str(given, "c", Settings!Defaults.cfgFile)
        /\ cfg.logFile = Str(given, "l", Settings!Defaults.logFile)
        /\ cfg.rmqStr = Str(given, "r", Settings!Defaults.rmqStr)
        /\ cfg.rmqQueueName = Str(given, "q", Settings!Defaults.rmqQueueName)
        /\ cfg.verbosity = Num(given, "v", Settings!Defaults.verbosity)
        /\ cfg.port = Settings!asPort(Num(given, "p", Settings!Defaults.port))
        /\ cfg.useSyslog = (LastAt(given, "s") # {}) /\ cfg.useConsole = (LastAt(given, "o") # {})
    BY <1>1, <2>1, Zenon
  <2> QED BY <2>2, Zenon DEF Settings!LastOptionWins, Str, Num, LastAt, Only
<1>3. ASSUME NEW c, NEW d \in Int PROVE Num(given, c, d) \in Int
  <2>1. CASE LastAt(given, c) = {}
    BY <2>1 DEF Num
  <2>2. CASE LastAt(given, c) # {}
    <3> DEFINE k == Only(LastAt(given, c))
    <3>1. k \in LastAt(given, c)
      BY <2>2, OnlyIs
    <3>2. k \in 1..Len(given) /\ given \in Seq(Options)
      BY <3>1 DEF LastAt, Chosen
    <3>3. given[k] \in Options
      BY <3>2
    <3> QED BY <2>2, <3>3, ConfigAssumption DEF Num
  <2> QED BY <2>1, <2>2
<1>4. 5 % (MaxPort + 1) \in Int /\ \A n \in Int : Settings!asPort(n) \in Settings!Ports
  BY ConfigAssumption DEF Settings!asPort, Settings!Ports
<1>5. Num(given, "v", 0) \in Int /\ Num(given, "p", 5 % (MaxPort + 1)) \in Int
  BY <1>3, <1>4
<1>6. cfg.port \in Settings!Ports /\ cfg.verbosity \in Int
  BY <1>1, <1>4, <1>5, Zenon
<1> QED BY <1>2, <1>6

\* The line l stores a host for id, and the places of such lines among s.
Stores(l, id) == l.shape = "full" /\ ~Settings!Refused(l) /\ l.id = id

\* The lines that store a host for id.
StoredIn(s, id) == {i \in 1..Len(s) : Stores(s[i], id)}

\* What is found under an id in h is what the last line in s for it said.
FoundIn(h, s, id) ==
  /\ StoredIn(s, id) = {} <=> id \notin DOMAIN h
  /\ id \in DOMAIN h =>
       LET l == s[Settings!Last(StoredIn(s, id))]
       IN  /\ h[id][1] = l.host /\ h[id][2] \in Settings!Ports
           /\ l.port.form = "number" => h[id][2] = l.port.value

\* The table of hosts is what the lines that were read say.
Found == /\ seen \in Seq(Lines) /\ phase \in {"options", "file", "done", "failed"}
         /\ \A id : FoundIn(hosts, seen, id)

\* A line that stores id is the last one that does; another changes nothing for id.
LEMMA StoredAppend ==
  ASSUME NEW s \in Seq(Lines), NEW l \in Lines, NEW id
  PROVE  /\ Stores(l, id) => /\ StoredIn(Append(s, l), id) # {}
                             /\ Append(s, l)[Settings!Last(StoredIn(Append(s, l), id))] = l
         /\ ~Stores(l, id) =>
              /\ StoredIn(Append(s, l), id) = StoredIn(s, id)
              /\ StoredIn(s, id) # {} =>
                   Append(s, l)[Settings!Last(StoredIn(s, id))] = s[Settings!Last(StoredIn(s, id))]
<1> DEFINE t == Append(s, l)
           n == Len(s)
<1>1. n \in Nat /\ Len(t) = n + 1 /\ t[n + 1] = l /\ \A i \in 1..n : t[i] = s[i]
  OBVIOUS
<1> HIDE DEF t
<1>2. ASSUME Stores(l, id) PROVE StoredIn(t, id) # {} /\ t[Settings!Last(StoredIn(t, id))] = l
  <2>1. n + 1 \in StoredIn(t, id)
    BY <1>1, <1>2 DEF StoredIn
  <2>2. \A j \in StoredIn(t, id) : j <= n + 1
    BY <1>1 DEF StoredIn
  <2>3. \A i \in StoredIn(t, id) : i \in Nat /\ ((\A j \in StoredIn(t, id) : j <= i) => i = n + 1)
    BY <1>1, <2>1, <2>2 DEF StoredIn
  <2>4. Settings!Last(StoredIn(t, id)) = n + 1
    BY <2>1, <2>2, <2>3 DEF Settings!Last
  <2> QED BY <1>1, <2>1, <2>4
<1>3. ASSUME ~Stores(l, id) PROVE StoredIn(t, id) = StoredIn(s, id)
  BY <1>1, <1>3 DEF StoredIn
<1>4. ASSUME StoredIn(s, id) # {} PROVE t[Settings!Last(StoredIn(s, id))] = s[Settings!Last(StoredIn(s, id))]
  <2> DEFINE k == Settings!Last(StoredIn(s, id))
  <2>1. k \in StoredIn(s, id)
    <3>1. \E i \in StoredIn(s, id) : \A j \in StoredIn(s, id) : j <= i
      <4> DEFINE T == {n - i : i \in StoredIn(s, id)}
      <4>1. T \in SUBSET Nat /\ T # {} /\ \A i \in StoredIn(s, id) : i \in Nat /\ i <= n
        BY <1>1, <1>4 DEF StoredIn
      <4>2. PICK x \in T : \A y \in T : x <= y
        <5> HIDE DEF T
        <5> QED BY <4>1, LeastNumber
      <4>3. PICK i \in StoredIn(s, id) : x = n - i
        BY <4>2
      <4>4. ASSUME NEW j \in StoredIn(s, id) PROVE j <= i
        <5>1. n - j \in T
          OBVIOUS
        <5>2. n - i <= n - j
          BY <4>2, <4>3, <5>1
        <5> QED BY <1>1, <4>1, <5>2
      <4> QED BY <4>4
    <3> QED BY <3>1 DEF Settings!Last
  <2>2. k \in 1..n
    BY <2>1 DEF StoredIn
  <2> QED BY <1>1, <2>2
<1> QED BY <1>2, <1>3, <1>4 DEF t

\* A line that stores nothing for id leaves what was found for it.
LEMMA FoundAppend ==
  ASSUME NEW s \in Seq(Lines), NEW l \in Lines, NEW id, NEW h, FoundIn(h, s, id), ~Stores(l, id)
  PROVE  FoundIn(h, Append(s, l), id)
<1> DEFINE t == Append(s, l)
           S == StoredIn(s, id)
<1>1. StoredIn(t, id) = S /\ (S # {} => t[Settings!Last(S)] = s[Settings!Last(S)])
  BY StoredAppend
<1> HIDE DEF t, S
<1>2. CASE S = {}
  BY <1>1, <1>2 DEF FoundIn, S, t
<1>3. CASE S # {}
  <2>1. t[Settings!Last(StoredIn(t, id))] = s[Settings!Last(StoredIn(s, id))]
    BY <1>1, <1>3 DEF S
  <2>2. StoredIn(t, id) = StoredIn(s, id)
    BY <1>1 DEF S
  <2>3. FoundIn(h, t, id)
    BY <2>1, <2>2 DEF FoundIn
  <2> QED BY <2>3 DEF t
<1> QED BY <1>2, <1>3

\* Storing a line keeps what was found for every other id.
LEMMA FoundStore ==
  ASSUME NEW s \in Seq(Lines), NEW l \in Lines, NEW h, NEW p \in Settings!readPort(l.port),
         l.shape = "full", ~Settings!Refused(l), \A id : FoundIn(h, s, id), NEW id
  PROVE  FoundIn([i \in DOMAIN h \cup {l.id} |-> IF i = l.id THEN <<l.host, p>> ELSE h[i]], Append(s, l), id)
<1> DEFINE t == Append(s, l)
           g == [i \in DOMAIN h \cup {l.id} |-> IF i = l.id THEN <<l.host, p>> ELSE h[i]]
<1>1. CASE id = l.id
  <2>1. Stores(l, id)
    BY <1>1 DEF Stores
  <2>2. StoredIn(t, id) # {} /\ t[Settings!Last(StoredIn(t, id))] = l
    BY <2>1, StoredAppend, ZenonT(60)
  <2>3. id \in DOMAIN g /\ g[id] = <<l.host, p>>
    BY <1>1
  <2>4. p \in Settings!Ports /\ (l.port.form = "number" => p = l.port.value)
    BY ConfigAssumption DEF Settings!readPort, Settings!Ports
  <2> HIDE DEF g, t
  <2>5. FoundIn(g, t, id)
    BY <2>2, <2>3, <2>4 DEF FoundIn
  <2> QED BY <2>5 DEF g, t
<1>2. CASE id # l.id
  <2>1. ~Stores(l, id)
    BY <1>2 DEF Stores
  <2>2. FoundIn(h, t, id)
    BY <2>1, FoundAppend
  <2>3. (id \in DOMAIN g <=> id \in DOMAIN h) /\ (id \in DOMAIN h => g[id] = h[id])
    BY <1>2
  <2> HIDE DEF g, t
  <2>4. FoundIn(g, t, id)
    BY <2>2, <2>3 DEF FoundIn
  <2> QED BY <2>4 DEF g, t
<1> QED BY <1>1, <1>2

\* Before the first line there is no host.
LEMMA FoundInit == ASSUME Settings!Init PROVE Found
<1>1. seen \in Seq(Lines) /\ Len(seen) = 0 /\ DOMAIN hosts = {} /\ phase = "options"
  BY DEF Settings!Init
<1>2. \A id : StoredIn(seen, id) = {}
  BY <1>1 DEF StoredIn
<1> QED BY <1>1, <1>2 DEF Found, FoundIn

\* Every step keeps the table what the lines say.
LEMMA FoundNext == ASSUME Found, Settings!Next PROVE Found'
<1>0. seen \in Seq(Lines) /\ phase \in {"options", "file", "done", "failed"}
      /\ \A id : FoundIn(hosts, seen, id)
  BY DEF Found
<1>1. ASSUME seen' = seen, hosts' = hosts, phase' \in {"options", "file", "done", "failed"} PROVE Found'
  BY <1>0, <1>1 DEF Found
<1>2. ASSUME NEW o \in Options, Settings!parseCmdLine(o) PROVE Found'
  BY <1>0, <1>1, <1>2 DEF Settings!parseCmdLine
<1>3. CASE Settings!Open \/ Settings!EndOfFile
  BY <1>1, <1>3 DEF Settings!Open, Settings!EndOfFile
<1>4. ASSUME NEW l \in Lines, Settings!read(l) PROVE Found'
  <2>1. seen' = Append(seen, l) /\ phase' \in {"options", "file", "done", "failed"} /\ seen' \in Seq(Lines)
    BY <1>0, <1>4 DEF Settings!read
  <2>2. CASE hosts' = hosts /\ \A id : ~Stores(l, id)
    <3>1. \A id : FoundIn(hosts, seen', id)
      BY <1>0, <2>1, <2>2, FoundAppend
    <3> QED BY <2>1, <2>2, <3>1 DEF Found
  <2>3. CASE l.shape = "full" /\ ~Settings!Refused(l)
             /\ \E p \in Settings!readPort(l.port) : Settings!Store(l.id, <<l.host, p>>)
    <3>1. PICK p \in Settings!readPort(l.port) :
            hosts' = [i \in DOMAIN hosts \cup {l.id} |-> IF i = l.id THEN <<l.host, p>> ELSE hosts[i]]
      BY <2>3 DEF Settings!Store
    <3>2. \A id : FoundIn([i \in DOMAIN hosts \cup {l.id} |-> IF i = l.id THEN <<l.host, p>> ELSE hosts[i]],
                          Append(seen, l), id)
      BY <1>0, <2>3, FoundStore
    <3>3. \A id : FoundIn(hosts', seen', id)
      BY <2>1, <3>1, <3>2, Zenon
    <3> QED BY <2>1, <3>3 DEF Found
  <2>4. l.shape \in {"full", "empty", "noid", "nohost"}
    BY ConfigAssumption
  <2> QED BY <1>4, <2>2, <2>3, <2>4 DEF Settings!read, Stores, Settings!Refused
<1> QED BY <1>2, <1>3, <1>4 DEF Settings!Next

\* What the lines say together is what the last of each id says.
LEMMA FoundLast ==
  ASSUME Found
  PROVE  Settings!LastLineWins
         /\ \A i \in DOMAIN hosts : hosts[i][2] \in Settings!Ports
<1>1. \A id : Settings!Stored(id) = StoredIn(seen, id)
  BY DEF Settings!Stored, StoredIn, Stores
<1>2. \A i \in DOMAIN hosts : hosts[i][2] \in Settings!Ports
  BY DEF Found, FoundIn
<1>3. ASSUME NEW id, Settings!Stored(id) = {} PROVE Settings!getHostById(id)[1] = NoHost
  BY <1>1, <1>3 DEF Found, FoundIn, Settings!getHostById
<1>4. ASSUME NEW id, Settings!Stored(id) # {}
      PROVE  LET l == seen[Settings!Last(Settings!Stored(id))]
             IN  /\ Settings!getHostById(id)[1] = l.host
                 /\ l.port.form = "number" => Settings!getHostById(id)[2] = l.port.value
  BY <1>1, <1>4 DEF Found, FoundIn, Settings!getHostById
<1> QED BY <1>2, <1>3, <1>4 DEF Settings!LastLineWins

\* A number that the options say, or do not, is an integer.
LEMMA NumType ==
  ASSUME NEW g, NEW c, NEW d, g \in Seq(Options), d \in Int PROVE Num(g, c, d) \in Int
<1>1. CASE LastAt(g, c) = {}
  BY <1>1, Zenon DEF Num
<1>2. CASE LastAt(g, c) # {}
  <2> DEFINE i == Only(LastAt(g, c))
  <2>1. i \in LastAt(g, c)
    BY <1>2, OnlyIs, Zenon
  <2> HIDE DEF i
  <2>2. i \in 1..Len(g)
    BY <2>1 DEF LastAt
  <2>3. g[i] \in Options
    BY <2>2
  <2>4. g[i].num \in Int
    BY <2>3, ConfigAssumption, Zenon
  <2> QED BY <1>2, <2>4, Zenon DEF Num, i
<1> QED BY <1>1, <1>2

\* The conversion to a port gives 16 bits.
LEMMA PortType == ASSUME NEW n, n \in Int PROVE Settings!asPort(n) \in Settings!Ports
<1>1. MaxPort \in Nat
  BY ConfigAssumption
<1> DEFINE m == MaxPort + 1
<1>2. m \in Nat /\ m > 0
  BY <1>1
<1> HIDE DEF m
<1>3. n % m \in 0..(m - 1)
  BY <1>2
<1> QED BY <1>1, <1>3 DEF m, Settings!asPort, Settings!Ports

\* The settings have their types.
LEMMA SettingsType == ASSUME Chosen, Found PROVE Settings!TypeOK
<1>1. given \in Seq(Options) /\ cfg = Says(given)
  BY DEF Chosen
<1>2. MaxPort \in Nat
  BY ConfigAssumption
<1> DEFINE d == 5 % (MaxPort + 1)
           v == Num(given, "v", 0)
           p == Settings!asPort(Num(given, "p", d))
<1>3. d \in Int /\ 0 \in Int
  <2> DEFINE m == MaxPort + 1
  <2>1. m \in Nat /\ m > 0
    BY <1>2
  <2> HIDE DEF m
  <2>2. 5 % m \in Int
    BY <2>1
  <2> QED BY <2>2 DEF m
<1> HIDE DEF d
<1>4. v \in Int /\ Num(given, "p", d) \in Int
  BY <1>1, <1>3, NumType, Zenon
<1>5. p \in Settings!Ports
  BY <1>4, PortType, Zenon
<1> HIDE DEF v, p
<1>6. cfg = Cfg(v, Str(given, "c", "config.cfg"), Str(given, "l", ""), p,
      Str(given, "r", "amqp://localhost/"),
                Str(given, "q", "proxyCtl"), LastAt(given, "s") # {}, LastAt(given, "o") # {})
  BY <1>1, Zenon DEF Says, d, v, p
<1>7. cfg.verbosity = v /\ cfg.port = p
  BY <1>6 DEF Cfg
<1>8. phase \in {"options", "file", "done", "failed"}
      /\ \A i \in DOMAIN hosts : hosts[i][2] \in Settings!Ports
  BY FoundLast, Zenon DEF Found
<1> QED BY <1>4, <1>5, <1>7, <1>8, Zenon DEF Settings!TypeOK

-----------------------------------------------------------------------------
(* Addresses.                                                              *)

\* c does not occur in s.
NotIn(c, s) == \A i \in 1..Len(s) : s[i] # c

\* s is a, the character c, and b.
Split(s, a, c, b) == s = (a \o <<c>>) \o b

\* memchr finds nothing where c does not occur.
LEMMA FindNone ==
  ASSUME NEW s, NEW c, NotIn(c, s) PROVE Texts!memchr(s, c) = 0
  BY DEF NotIn, Texts!memchr

\* memchr finds the first c.
LEMMA FindFirst ==
  ASSUME NEW s, NEW c, NEW k \in 1..Len(s), s[k] = c, \A i \in 1..(k - 1) : s[i] # c, Len(s) \in Nat
  PROVE  Texts!memchr(s, c) = k
<1> DEFINE at == {i \in 1..Len(s) : s[i] = c}
<1>1. k \in at /\ \A j \in at : k <= j
  OBVIOUS
<1>2. \A i \in at : (\A j \in at : i <= j) => i = k
  BY <1>1
<1>3. at # {}
  BY <1>1
<1>4. (CHOOSE i \in at : \A j \in at : i <= j) = k
  <2> HIDE DEF at
  <2> QED BY <1>1, <1>2
<1> QED BY <1>3, <1>4 DEF Texts!memchr

\* What memchr finds in a sequence.
LEMMA MemchrIs ==
  ASSUME NEW S, NEW s \in Seq(S), NEW c
  PROVE  LET k == Texts!memchr(s, c)
         IN  /\ k \in 0..Len(s) /\ (k = 0 => NotIn(c, s))
             /\ k # 0 => s[k] = c /\ \A i \in 1..(k - 1) : s[i] # c
<1> DEFINE at == {i \in 1..Len(s) : s[i] = c}
<1>0. Len(s) \in Nat
  OBVIOUS
<1>1. CASE at = {}
  BY <1>0, <1>1 DEF Texts!memchr, NotIn
<1>2. CASE at # {}
  <2>1. PICK k \in at : \A j \in at : k <= j
    <3>1. at \in SUBSET Nat
      OBVIOUS
    <3> HIDE DEF at
    <3> QED BY <1>2, <3>1, LeastNumber
  <2>2. k \in 1..Len(s) /\ s[k] = c
    BY <2>1
  <2>3. \A i \in 1..(k - 1) : s[i] # c
    BY <1>0, <2>1, <2>2
  <2>4. Texts!memchr(s, c) = k
    BY <1>0, <2>2, <2>3, FindFirst
  <2> QED BY <1>0, <2>2, <2>3, <2>4
<1> QED BY <1>1, <1>2

\* What is before and after a place: their lengths and elements.
LEMMA CutType ==
  ASSUME NEW S, NEW s \in Seq(S), NEW k \in 1..Len(s)
  PROVE  /\ Texts!Before(s, k) \in Seq(S) /\ Len(Texts!Before(s, k)) = k - 1
         /\ \A i \in 1..(k - 1) : Texts!Before(s, k)[i] = s[i]
         /\ Texts!After(s, k) \in Seq(S) /\ Len(Texts!After(s, k)) = Len(s) - k
         /\ \A i \in 1..(Len(s) - k) : Texts!After(s, k)[i] = s[k + i]
<1>1. Len(s) \in Nat /\ 1 \in Nat \ {0} /\ k - 1 \in 0..Len(s) /\ k + 1 \in Nat \ {0} /\ Len(s) \in 0..Len(s)
  OBVIOUS
<1> DEFINE x == SubSeq(s, 1, k - 1)
           y == SubSeq(s, k + 1, Len(s))
<1>2. /\ x \in Seq(S) /\ Len(x) = IF 1 <= k - 1 THEN (k - 1) - 1 + 1 ELSE 0
      /\ \A i \in 1..((k - 1) - 1 + 1) : x[i] = s[1 + i - 1]
  BY <1>1, SubType
<1>3. /\ y \in Seq(S) /\ Len(y) = IF k + 1 <= Len(s) THEN Len(s) - (k + 1) + 1 ELSE 0
      /\ \A i \in 1..(Len(s) - (k + 1) + 1) : y[i] = s[k + 1 + i - 1]
  BY <1>1, SubType
<1> HIDE DEF x, y
<1>4. Len(x) = k - 1 /\ \A i \in 1..(k - 1) : x[i] = s[i]
  BY <1>1, <1>2
<1>5. Len(y) = Len(s) - k
  BY <1>1, <1>3
<1>6. ASSUME NEW i \in 1..(Len(s) - k) PROVE y[i] = s[k + i]
  <2>1. i \in 1..(Len(s) - (k + 1) + 1) /\ k + 1 + i - 1 = k + i
    BY <1>1
  <2> QED BY <1>3, <2>1
<1> QED BY <1>2, <1>3, <1>4, <1>5, <1>6 DEF x, y, Texts!Before, Texts!After

\* The first c of a text with c behind a.
LEMMA SplitFirst ==
  ASSUME NEW S, NEW s, NEW a, NEW b, NEW c, a \in Seq(S), b \in Seq(S), c \in S, Split(s, a, c, b)
  PROVE  /\ s \in Seq(S) /\ Len(s) = Len(a) + 1 + Len(b)
         /\ Texts!Before(s, Len(a) + 1) = a /\ Texts!After(s, Len(a) + 1) = b
         /\ NotIn(c, a) => Texts!memchr(s, c) = Len(a) + 1
         /\ \A d : NotIn(d, a) /\ d # c /\ NotIn(d, b) => NotIn(d, s)
<1> DEFINE k == Len(a) + 1
<1>1. /\ s \in Seq(S) /\ Len(s) = Len(a) + 1 + Len(b) /\ Len(a) \in Nat /\ Len(b) \in Nat
      /\ \A i \in 1..Len(a) : s[i] = a[i]
      /\ s[Len(a) + 1] = c /\ \A i \in 1..Len(b) : s[Len(a) + 1 + i] = b[i]
  <2> DEFINE m == a \o <<c>>
  <2>1. <<c>> \in Seq(S) /\ Len(<<c>>) = 1 /\ <<c>>[1] = c
    OBVIOUS
  <2>2. /\ m \in Seq(S) /\ Len(m) = Len(a) + 1 /\ Len(a) \in Nat
        /\ \A i \in 1..Len(a) : m[i] = a[i]
        /\ \A i \in 1..1 : m[Len(a) + i] = <<c>>[i]
    BY <2>1, CatType
  <2>3. m[Len(a) + 1] = c
    BY <2>1, <2>2
  <2>4. s = m \o b
    BY DEF Split
  <2> HIDE DEF m
  <2>5. /\ s \in Seq(S) /\ Len(s) = Len(m) + Len(b) /\ Len(b) \in Nat
        /\ \A i \in 1..Len(m) : s[i] = m[i]
        /\ \A i \in 1..Len(b) : s[Len(m) + i] = b[i]
    <3>1. m \in Seq(S) /\ b \in Seq(S)
      BY <2>2
    <3>2. /\ m \o b \in Seq(S) /\ Len(m \o b) = Len(m) + Len(b) /\ Len(b) \in Nat
          /\ \A i \in 1..Len(m) : (m \o b)[i] = m[i]
          /\ \A i \in 1..Len(b) : (m \o b)[Len(m) + i] = b[i]
      BY ONLY <3>1, CatType
    <3> QED BY <2>4, <3>2
  <2>6. Len(s) = Len(a) + 1 + Len(b) /\ \A i \in 1..Len(a) : s[i] = a[i]
    <3>1. \A i \in 1..Len(a) : i \in 1..Len(m)
      BY <2>2
    <3> QED BY <2>2, <2>5, <3>1
  <2>7. s[Len(a) + 1] = c
    <3>1. Len(a) + 1 \in 1..Len(m)
      BY <2>2
    <3> QED BY <2>3, <2>5, <3>1
  <2>8. \A i \in 1..Len(b) : s[Len(a) + 1 + i] = b[i]
    BY <2>2, <2>5
  <2> QED BY <2>2, <2>5, <2>6, <2>7, <2>8
<1>2. k \in 1..Len(s)
  BY <1>1
<1>3. /\ Texts!Before(s, k) \in Seq(S) /\ Len(Texts!Before(s, k)) = k - 1
      /\ \A i \in 1..(k - 1) : Texts!Before(s, k)[i] = s[i]
      /\ Texts!After(s, k) \in Seq(S) /\ Len(Texts!After(s, k)) = Len(s) - k
      /\ \A i \in 1..(Len(s) - k) : Texts!After(s, k)[i] = s[k + i]
  BY <1>1, <1>2, CutType
<1>4. Texts!Before(s, k) = a
  <2>1. Len(Texts!Before(s, k)) = Len(a) /\ \A i \in 1..Len(a) : Texts!Before(s, k)[i] = a[i]
    BY <1>1, <1>3
  <2> QED BY <1>3, <2>1, SeqEqual
<1>5. Texts!After(s, k) = b
  <2>1. Len(Texts!After(s, k)) = Len(b) /\ \A i \in 1..Len(b) : Texts!After(s, k)[i] = b[i]
    BY <1>1, <1>3
  <2> QED BY <1>3, <2>1, SeqEqual
<1>6. ASSUME NotIn(c, a) PROVE Texts!memchr(s, c) = k
  <2>1. s[k] = c /\ \A i \in 1..(k - 1) : s[i] # c
    BY <1>1, <1>6 DEF NotIn
  <2>2. Len(s) \in Nat
    BY <1>1
  <2> HIDE DEF k
  <2> QED BY ONLY <1>2, <2>1, <2>2, FindFirst
<1>7. ASSUME NEW d, NotIn(d, a), d # c, NotIn(d, b) PROVE NotIn(d, s)
  <2>1. ASSUME NEW i \in 1..Len(s) PROVE s[i] # d
    <3>1. CASE i \in 1..Len(a)
      BY <1>1, <1>7, <3>1 DEF NotIn
    <3>2. CASE i = Len(a) + 1
      BY <1>1, <1>7, <3>2
    <3>3. CASE i > Len(a) + 1
      <4>1. i - (Len(a) + 1) \in 1..Len(b) /\ Len(a) + 1 + (i - (Len(a) + 1)) = i
        BY <1>1, <3>3
      <4>2. s[i] = b[i - (Len(a) + 1)]
        BY <1>1, <4>1
      <4> QED BY <1>7, <4>1, <4>2 DEF NotIn
    <3> QED BY <1>1, <3>1, <3>2, <3>3
  <2> QED BY <2>1 DEF NotIn
<1> QED BY <1>1, <1>4, <1>5, <1>6, <1>7

\* An address of its parts.
Addr(sec, u, w, v, h, p) ==
  [secure |-> sec, login |-> [user |-> u, password |-> w], vhost |-> v, hostname |-> h, port |-> p]

\* The parts that the parser can give: no separator in a part that ends at one.
Parts(S, u, w, v, h, p) ==
  /\ u \in Seq(S) /\ w \in Seq(S) /\ v \in Seq(S) /\ h \in Seq(S) /\ p \in {0, 5671, 5672}
  /\ NotIn("@", u) /\ NotIn(":", u) /\ NotIn("@", w) /\ NotIn("/", h) /\ NotIn(":", h) /\ Len(v) > 0

\* What is before and after a place has no c that the whole has not.
LEMMA PartOf ==
  ASSUME NEW S, NEW s, NEW k, NEW c, s \in Seq(S), k \in 1..Len(s)
  PROVE  /\ NotIn(c, s) => NotIn(c, Texts!Before(s, k)) /\ NotIn(c, Texts!After(s, k))
         /\ k = Texts!memchr(s, c) => NotIn(c, Texts!Before(s, k))
         /\ Texts!Before(s, k) \in Seq(S) /\ Texts!After(s, k) \in Seq(S)
         /\ Len(Texts!After(s, k)) = Len(s) - k
<1> DEFINE x == Texts!Before(s, k)
           y == Texts!After(s, k)
<1>1. /\ x \in Seq(S) /\ Len(x) = k - 1 /\ \A i \in 1..(k - 1) : x[i] = s[i]
      /\ y \in Seq(S) /\ Len(y) = Len(s) - k /\ \A i \in 1..(Len(s) - k) : y[i] = s[k + i]
  <2>1. x \in Seq(S) /\ Len(x) = k - 1
    BY CutType
  <2>2. \A i \in 1..(k - 1) : x[i] = s[i]
    BY CutType
  <2>3. y \in Seq(S) /\ Len(y) = Len(s) - k
    BY CutType
  <2>4. \A i \in 1..(Len(s) - k) : y[i] = s[k + i]
    BY CutType
  <2> QED BY <2>1, <2>2, <2>3, <2>4
<1> HIDE DEF x, y
<1>2. Len(s) \in Nat
  OBVIOUS
<1>3. ASSUME NotIn(c, s) PROVE NotIn(c, x) /\ NotIn(c, y)
  <2>1. \A i \in 1..(k - 1) : i \in 1..Len(s)
    BY <1>2
  <2>2. \A i \in 1..(Len(s) - k) : k + i \in 1..Len(s)
    BY <1>2
  <2> QED BY <1>1, <1>3, <2>1, <2>2 DEF NotIn
<1>4. ASSUME k = Texts!memchr(s, c) PROVE NotIn(c, x)
  <2>1. \A i \in 1..(k - 1) : s[i] # c
    BY <1>4, MemchrIs
  <2> QED BY <1>1, <2>1 DEF NotIn
<1> QED BY <1>1, <1>3, <1>4 DEF x, y

\* memchr finds c, or there is none.
LEMMA MemchrAt ==
  ASSUME NEW S, NEW s, NEW c, s \in Seq(S)
  PROVE  /\ Texts!memchr(s, c) = 0 => NotIn(c, s)
         /\ Texts!memchr(s, c) # 0 => Texts!memchr(s, c) \in 1..Len(s)
  BY MemchrIs

\* A login splits into a user and a password; neither has the @, and the user no colon.
LEMMA LoginGives ==
  ASSUME NEW S, NEW s, s \in Seq(S), NotIn("@", s)
  PROVE  \E u, w : /\ Texts!loginOf(s) = [user |-> u, password |-> w]
                   /\ u \in Seq(S) /\ w \in Seq(S) /\ NotIn("@", u) /\ NotIn(":", u) /\ NotIn("@", w)
<1> DEFINE k == Texts!memchr(s, ":")
<1>0. (k = 0 => NotIn(":", s)) /\ (k # 0 => k \in 1..Len(s))
  BY MemchrAt
<1>1. CASE k = 0
  <2>1. <<>> \in Seq(S) /\ NotIn("@", <<>>)
    BY DEF NotIn
  <2>2. Texts!loginOf(s) = [user |-> s, password |-> <<>>]
    BY <1>1 DEF Texts!loginOf
  <2> QED BY <1>0, <1>1, <2>1, <2>2
<1>2. CASE k # 0
  <2> DEFINE x == Texts!Before(s, k)
             y == Texts!After(s, k)
  <2>1. Texts!loginOf(s) = [user |-> x, password |-> y]
    BY <1>2 DEF Texts!loginOf
  <2>2. x \in Seq(S) /\ y \in Seq(S) /\ NotIn("@", x) /\ NotIn("@", y)
    BY <1>0, <1>2, PartOf
  <2>3. NotIn(":", x)
    BY <1>0, <1>2, PartOf
  <2> HIDE DEF x, y
  <2> QED BY <2>1, <2>2, <2>3
<1> QED BY <1>1, <1>2

\* The parser, in two steps: what is before and what is behind the '@'.
hostOf(data) == LET slash == Texts!memchr(data, "/")
                IN  IF slash = 0 THEN data ELSE Texts!Before(data, slash)
\* The parts that parse() finds: virtual host, name and port of the host, login, and what
\* follows the login.
vhostOf(data) == LET slash == Texts!memchr(data, "/")
                 IN  IF slash = 0 \/ slash = Len(data) THEN <<"/">> ELSE Texts!After(data, slash)
nameOf(host) == LET colon == Texts!memchr(host, ":")
                IN  IF colon = 0 THEN host ELSE Texts!Before(host, colon)
portOf(sec, host) == LET colon == Texts!memchr(host, ":")
                     IN  IF colon = 0 THEN Texts!defaultport(sec)
                         ELSE IF colon = Len(host) THEN 0 ELSE Texts!asPort(host[colon + 1])
loginAt(s) == LET at == Texts!memchr(s, "@")
              IN  IF at = 0 THEN Texts!Guest ELSE Texts!loginOf(Texts!Before(s, at))
dataOf(s) == Texts!After(s, Texts!memchr(s, "@"))

\* parse(), in these parts.
LEMMA ParseIs ==
  ASSUME NEW sec, NEW s
  PROVE  Texts!parse(sec, s)
         = [secure |-> sec, login |-> loginAt(s), vhost |-> vhostOf(dataOf(s)),
            hostname |-> nameOf(hostOf(dataOf(s))), port |-> portOf(sec, hostOf(dataOf(s)))]
  BY DEF Texts!parse, loginAt, vhostOf, nameOf, hostOf, portOf, dataOf

\* The ports that the model knows, read and printed.
LEMMA PortIs ==
  /\ \A t : Texts!asPort(t) \in {0, 5671, 5672}
  /\ \A sec : Texts!defaultport(sec) \in {5671, 5672}
  /\ Texts!asPort("0") = 0 /\ Texts!asPort("5671") = 5671 /\ Texts!asPort("5672") = 5672
  /\ Texts!to_string(0) = "0" /\ Texts!to_string(5671) = "5671" /\ Texts!to_string(5672) = "5672"
<1>1. 0 % 65536 = 0 /\ 5671 % 65536 = 5671 /\ 5672 % 65536 = 5672 /\ 71208 % 65536 = 5672
  OBVIOUS
<1>2. ASSUME NEW t PROVE Texts!asPort(t) \in {0, 5671, 5672}
  BY <1>1 DEF Texts!asPort
<1>3. Texts!asPort("0") = 0 /\ Texts!asPort("5671") = 5671 /\ Texts!asPort("5672") = 5672
  BY <1>1 DEF Texts!asPort
<1>4. Texts!to_string(0) = "0" /\ Texts!to_string(5671) = "5671" /\ Texts!to_string(5672) = "5672"
  BY DEF Texts!to_string
<1> QED BY <1>2, <1>3, <1>4 DEF Texts!defaultport

\* What follows the login is a part of the text.
LEMMA DataType ==
  ASSUME NEW S, NEW s, s \in Seq(S) PROVE dataOf(s) \in Seq(S)
<1>1. CASE Texts!memchr(s, "@") = 0
  <2>1. Texts!After(s, 0) = s
    BY SubSeqFull DEF Texts!After
  <2> QED BY <1>1, <2>1 DEF dataOf
<1>2. CASE Texts!memchr(s, "@") # 0
  BY <1>2, MemchrAt, PartOf DEF dataOf
<1> QED BY <1>1, <1>2

\* The name of the host has neither a slash nor a colon, and there always is a virtual host.
LEMMA HostGives ==
  ASSUME NEW S, NEW d, d \in Seq(S), "/" \in S, NEW sec
  PROVE  /\ vhostOf(d) \in Seq(S) /\ Len(vhostOf(d)) > 0
         /\ nameOf(hostOf(d)) \in Seq(S) /\ NotIn("/", nameOf(hostOf(d))) /\ NotIn(":", nameOf(hostOf(d)))
         /\ portOf(sec, hostOf(d)) \in {0, 5671, 5672}
<1> DEFINE k == Texts!memchr(d, "/")
           h == hostOf(d)
           j == Texts!memchr(h, ":")
<1>1. (k = 0 => NotIn("/", d)) /\ (k # 0 => k \in 1..Len(d))
  BY MemchrAt
<1>2. h \in Seq(S) /\ NotIn("/", h)
  BY <1>1, PartOf DEF hostOf
<1>3. vhostOf(d) \in Seq(S) /\ Len(vhostOf(d)) > 0
  <2>1. CASE k = 0 \/ k = Len(d)
    <3>1. <<"/">> \in Seq(S) /\ Len(<<"/">>) = 1
      OBVIOUS
    <3> QED BY <2>1, <3>1 DEF vhostOf
  <2>2. CASE ~(k = 0 \/ k = Len(d))
    <3>0. k \in 1..Len(d) /\ Len(d) \in Nat
      BY <1>1, <2>2
    <3>1. Texts!After(d, k) \in Seq(S) /\ Len(Texts!After(d, k)) = Len(d) - k
      BY <3>0, PartOf
    <3>2. vhostOf(d) = Texts!After(d, k)
      BY <2>2 DEF vhostOf
    <3> HIDE DEF k
    <3> QED BY <2>2, <3>0, <3>1, <3>2
  <2> QED BY <2>1, <2>2
<1> HIDE DEF h
<1>4. (j = 0 => NotIn(":", h)) /\ (j # 0 => j \in 1..Len(h))
  BY <1>2, MemchrAt
<1>5. nameOf(h) \in Seq(S) /\ NotIn("/", nameOf(h)) /\ NotIn(":", nameOf(h))
  BY <1>2, <1>4, PartOf DEF nameOf
<1>6. portOf(sec, h) \in {0, 5671, 5672}
  BY PortIs DEF portOf
<1> QED BY <1>3, <1>5, <1>6 DEF h

\* Whatever the text, parse() gives parts that can be printed.
LEMMA ParseGives ==
  ASSUME NEW S, NEW s, s \in Seq(S), "/" \in S, "guest" \in S, NEW sec
  PROVE  \E u, w, v, h, p : Parts(S, u, w, v, h, p) /\ Texts!parse(sec, s) = Addr(sec, u, w, v, h, p)
<1> DEFINE at == Texts!memchr(s, "@")
<1>1. PICK u, w : /\ loginAt(s) = [user |-> u, password |-> w]
                  /\ u \in Seq(S) /\ w \in Seq(S) /\ NotIn("@", u) /\ NotIn(":", u) /\ NotIn("@", w)
  <2>1. CASE at = 0
    <3> DEFINE g == <<"guest">>
    <3>1. g \in Seq(S) /\ NotIn("@", g) /\ NotIn(":", g)
      BY DEF NotIn
    <3>2. loginAt(s) = [user |-> g, password |-> g]
      BY <2>1 DEF loginAt, Texts!Guest
    <3> HIDE DEF g
    <3> QED BY <3>1, <3>2
  <2>2. CASE at # 0
    <3> DEFINE b == Texts!Before(s, at)
    <3>1. b \in Seq(S) /\ NotIn("@", b)
      BY <2>2, MemchrAt, PartOf
    <3>2. loginAt(s) = Texts!loginOf(b)
      BY <2>2 DEF loginAt
    <3> HIDE DEF b
    <3> QED BY <3>1, <3>2, LoginGives
  <2> QED BY <2>1, <2>2
<1> DEFINE d == dataOf(s)
<1>2. d \in Seq(S)
  BY DataType
<1>3. Texts!parse(sec, s) = [secure |-> sec, login |-> loginAt(s), vhost |-> vhostOf(d),
                             hostname |-> nameOf(hostOf(d)), port |-> portOf(sec, hostOf(d))]
  BY ParseIs, Zenon
<1> HIDE DEF d
<1>4. /\ vhostOf(d) \in Seq(S) /\ Len(vhostOf(d)) > 0
      /\ nameOf(hostOf(d)) \in Seq(S) /\ NotIn("/", nameOf(hostOf(d))) /\ NotIn(":", nameOf(hostOf(d)))
      /\ portOf(sec, hostOf(d)) \in {0, 5671, 5672}
  BY <1>2, HostGives
<1>5. Parts(S, u, w, vhostOf(d), nameOf(hostOf(d)), portOf(sec, hostOf(d)))
  BY <1>1, <1>4 DEF Parts
<1>6. Texts!parse(sec, s) = Addr(sec, u, w, vhostOf(d), nameOf(hostOf(d)), portOf(sec, hostOf(d)))
  BY <1>1, <1>3, Zenon DEF Addr
<1> QED BY <1>5, <1>6, Zenon

\* The tokens that the printed text adds, and the port in the host.
Separators == {":", "@", "/", "0", "5671", "5672"}

\* The host with its port: without one it is the default of the scheme.
PortPart(sec, H, h, p) ==
  \/ H = h /\ p = Texts!defaultport(sec)
  \/ \E n \in {"0", "5671", "5672"} : Split(H, h, ":", <<n>>) /\ Texts!asPort(n) = p

\* t is put together of the parts of an address.
Pieced(sec, u, w, v, h, p, t) ==
  \E U, D, H, V : /\ Split(t, U, "@", D) /\ Split(U, u, ":", w) /\ Split(D, H, "/", V)
                  /\ PortPart(sec, H, h, p) /\ V = IF v = <<"/">> THEN <<>> ELSE v

\* The address in a text that is put together of its parts.
LEMMA ReadBack ==
  ASSUME NEW S, NEW sec, NEW u, NEW w, NEW v, NEW h, NEW p, NEW t, Parts(S, u, w, v, h, p),
         Separators \subseteq S, Pieced(sec, u, w, v, h, p, t)
  PROVE  Texts!parse(sec, t) = Addr(sec, u, w, v, h, p)
<1>a. PICK U, D, H, V : /\ Split(t, U, "@", D) /\ Split(U, u, ":", w) /\ Split(D, H, "/", V)
                        /\ PortPart(sec, H, h, p) /\ V = IF v = <<"/">> THEN <<>> ELSE v
  BY DEF Pieced
<1>b. ":" \in S /\ "@" \in S /\ "/" \in S /\ "0" \in S /\ "5671" \in S /\ "5672" \in S
  BY DEF Separators
<1>0. /\ u \in Seq(S) /\ w \in Seq(S) /\ v \in Seq(S) /\ h \in Seq(S) /\ p \in {0, 5671, 5672}
      /\ NotIn("@", u) /\ NotIn(":", u) /\ NotIn("@", w) /\ NotIn("/", h) /\ NotIn(":", h) /\ Len(v) > 0
  BY DEF Parts
<1>1. /\ U \in Seq(S) /\ Texts!Before(U, Len(u) + 1) = u /\ Texts!After(U, Len(u) + 1) = w
      /\ Texts!memchr(U, ":") = Len(u) + 1 /\ NotIn("@", U)
  BY <1>a, <1>b, <1>0, SplitFirst
<1>2. V \in Seq(S)
  <2>1. <<>> \in Seq(S)
    OBVIOUS
  <2> QED BY <1>a, <1>0, <2>1
<1>3. H \in Seq(S) /\ NotIn("/", H) /\ nameOf(H) = h /\ portOf(sec, H) = p
  <2>1. CASE H = h /\ p = Texts!defaultport(sec)
    <3>1. Texts!memchr(h, ":") = 0
      BY <1>0, FindNone
    <3> QED BY <1>0, <2>1, <3>1 DEF nameOf, portOf
  <2>2. ASSUME NEW n \in {"0", "5671", "5672"}, Split(H, h, ":", <<n>>), Texts!asPort(n) = p
        PROVE  H \in Seq(S) /\ NotIn("/", H) /\ nameOf(H) = h /\ portOf(sec, H) = p
    <3> DEFINE m == <<n>>
    <3>1. m \in Seq(S) /\ Len(m) = 1 /\ NotIn("/", m) /\ m[1] = n
      BY <1>b, <2>2 DEF NotIn
    <3> HIDE DEF m
    <3>2. Split(H, h, ":", m)
      BY <2>2 DEF m
    <3>3. /\ H \in Seq(S) /\ Len(H) = Len(h) + 1 + Len(m)
          /\ Texts!Before(H, Len(h) + 1) = h /\ Texts!After(H, Len(h) + 1) = m
          /\ Texts!memchr(H, ":") = Len(h) + 1
      <4>1. ":" \in S /\ h \in Seq(S) /\ m \in Seq(S) /\ NotIn(":", h)
        BY <1>b, <1>0, <3>1
      <4> QED BY ONLY <3>2, <4>1, SplitFirst
    <3>4. NotIn("/", H)
      <4>1. ":" \in S /\ h \in Seq(S) /\ m \in Seq(S) /\ NotIn("/", h) /\ NotIn("/", m) /\ "/" # ":"
        BY <1>b, <1>0, <3>1
      <4> QED BY ONLY <3>2, <4>1, SplitFirst
    <3>5. Len(h) \in Nat
      BY <1>0
    <3>6. H[Len(h) + 2] = n
      <4>1. Len(h) + 1 \in 1..Len(H) /\ 1 \in 1..(Len(H) - (Len(h) + 1)) /\ (Len(h) + 1) + 1 = Len(h) + 2
        BY <3>1, <3>3, <3>5
      <4>2. Texts!After(H, Len(h) + 1)[1] = H[(Len(h) + 1) + 1]
        BY <3>3, <4>1, CutType
      <4> QED BY <3>1, <3>3, <4>1, <4>2
    <3>7. nameOf(H) = h
      BY <3>3, <3>5 DEF nameOf
    <3>8. Len(h) + 1 # 0 /\ Len(h) + 1 # Len(H) /\ (Len(h) + 1) + 1 = Len(h) + 2
      BY <3>1, <3>3, <3>5
    <3>9. portOf(sec, H) = Texts!asPort(n)
      BY <3>3, <3>6, <3>8, Zenon DEF portOf
    <3> QED BY <2>2, <3>3, <3>4, <3>7, <3>9
  <2> QED BY <1>a, <2>1, <2>2 DEF PortPart
<1>4. /\ D \in Seq(S) /\ Len(D) = Len(H) + 1 + Len(V)
      /\ Texts!Before(D, Len(H) + 1) = H /\ Texts!After(D, Len(H) + 1) = V
      /\ Texts!memchr(D, "/") = Len(H) + 1
  <2>1. "/" \in S /\ Split(D, H, "/", V)
    BY <1>a, <1>b
  <2> QED BY ONLY <1>2, <1>3, <2>1, SplitFirst
<1>5. Len(H) \in Nat /\ Len(V) \in Nat /\ Len(U) \in Nat /\ Len(u) \in Nat
  BY <1>0, <1>1, <1>2, <1>3
<1>6. hostOf(D) = H
  BY <1>4, <1>5 DEF hostOf
<1>7. vhostOf(D) = v
  <2>1. CASE v = <<"/">>
    <3>1. Len(V) = 0
      BY <1>a, <2>1
    <3>2. Texts!memchr(D, "/") = Len(D)
      BY ONLY <1>4, <1>5, <3>1
    <3> QED BY <2>1, <3>2 DEF vhostOf
  <2>2. CASE v # <<"/">>
    <3>1. V = v /\ Len(V) > 0
      BY <1>a, <1>0, <2>2
    <3>2. Texts!memchr(D, "/") # Len(D) /\ Texts!memchr(D, "/") # 0
      BY ONLY <1>4, <1>5, <3>1
    <3> QED BY <1>4, <3>1, <3>2 DEF vhostOf
  <2> QED BY <2>1, <2>2
<1>8. /\ Texts!Before(t, Len(U) + 1) = U /\ Texts!After(t, Len(U) + 1) = D
      /\ Texts!memchr(t, "@") = Len(U) + 1
  <2>1. "@" \in S /\ Split(t, U, "@", D)
    BY <1>a, <1>b
  <2> QED BY ONLY <1>1, <1>4, <2>1, SplitFirst
<1>9. dataOf(t) = D
  BY <1>8 DEF dataOf
<1>10. loginAt(t) = [user |-> u, password |-> w]
  <2>1. loginAt(t) = Texts!loginOf(U)
    BY <1>5, <1>8 DEF loginAt
  <2>2. Texts!memchr(U, ":") # 0
    BY <1>1, <1>5
  <2> QED BY <1>1, <2>1, <2>2, Zenon DEF Texts!loginOf
<1> QED BY <1>3, <1>6, <1>7, <1>9, <1>10, ParseIs, Zenon DEF Addr

\* Two tokens in a row.
LEMMA PairIs == ASSUME NEW a, NEW b PROVE <<a>> \o <<b>> = <<a, b>>
<1> DEFINE S == {a, b}
           x == <<a>> \o <<b>>
           y == <<a, b>>
<1>1. <<a>> \in Seq(S) /\ <<b>> \in Seq(S) /\ Len(<<a>>) = 1 /\ Len(<<b>>) = 1 /\ <<a>>[1] = a /\ <<b>>[1] = b
  OBVIOUS
<1>2. /\ x \in Seq(S) /\ Len(x) = Len(<<a>>) + Len(<<b>>)
      /\ \A i \in 1..Len(<<a>>) : x[i] = <<a>>[i]
      /\ \A i \in 1..Len(<<b>>) : x[Len(<<a>>) + i] = <<b>>[i]
  BY <1>1, CatType
<1>3. y \in Seq(S) /\ Len(y) = 2 /\ y[1] = a /\ y[2] = b
  OBVIOUS
<1> HIDE DEF x, y, S
<1>4. Len(x) = 2 /\ x[1] = a /\ x[2] = b
  <2>1. /\ Len(x) = 1 + 1 /\ \A i \in 1..1 : x[i] = <<a>>[i]
        /\ \A i \in 1..1 : x[1 + i] = <<b>>[i]
    BY <1>1, <1>2, Zenon
  <2>2. x[1] = <<a>>[1] /\ x[1 + 1] = <<b>>[1]
    BY <2>1
  <2> QED BY <1>1, <2>1, <2>2
<1>5. \A i \in 1..2 : x[i] = y[i]
  BY <1>3, <1>4
<1>6. x = y
  BY <1>2, <1>3, <1>4, <1>5, SeqEqual
<1> QED BY <1>6 DEF x, y

\* What is printed: the login, the host, the port if it is printed, and the virtual host.
Printed(u, w, h, x, z) == ((((((u \o <<":">>) \o w) \o <<"@">>) \o h) \o x) \o <<"/">>) \o z

\* What is printed of parts that can be printed is parsed as these parts.
LEMMA PrintedReads ==
  ASSUME NEW S, NEW sec, NEW u, NEW w, NEW v, NEW h, NEW p, Parts(S, u, w, v, h, p),
         Separators \subseteq S, NEW x,
         (x = <<>> /\ p = Texts!defaultport(sec)) \/ x = <<":", Texts!to_string(p)>>
  PROVE  Texts!parse(sec, Printed(u, w, h, x, IF v = <<"/">> THEN <<>> ELSE v)) = Addr(sec, u, w, v, h, p)
<1> DEFINE n == Texts!to_string(p)
           V == IF v = <<"/">> THEN <<>> ELSE v
           U == (u \o <<":">>) \o w
           H == h \o x
           D == (H \o <<"/">>) \o V
           L == U \o <<"@">>
           t == Printed(u, w, h, x, V)
<1>0. u \in Seq(S) /\ w \in Seq(S) /\ v \in Seq(S) /\ h \in Seq(S) /\ p \in {0, 5671, 5672}
  BY DEF Parts
<1>1. n \in {"0", "5671", "5672"} /\ Texts!asPort(n) = p
  BY <1>0, PortIs
<1>2. <<":">> \in Seq(S) /\ <<"@">> \in Seq(S) /\ <<"/">> \in Seq(S) /\ <<>> \in Seq(S)
      /\ <<n>> \in Seq(S) /\ <<":", n>> \in Seq(S)
  <2>1. ":" \in S /\ "@" \in S /\ "/" \in S /\ n \in S
    BY <1>1 DEF Separators
  <2> HIDE DEF n
  <2> QED BY <2>1
<1>3. V \in Seq(S) /\ x \in Seq(S)
  <2>1. V \in Seq(S)
    <3>1. CASE v = <<"/">>
      BY <1>2, <3>1, Zenon
    <3>2. CASE v # <<"/">>
      BY <1>0, <3>2
    <3> QED BY <3>1, <3>2, Zenon
  <2>2. x \in Seq(S)
    BY <1>2, Zenon
  <2> QED BY <2>1, <2>2
<1>4. U \in Seq(S) /\ L \in Seq(S)
  <2>1. u \o <<":">> \in Seq(S)
    BY <1>0, <1>2, CatType
  <2>2. U \in Seq(S)
    BY <1>0, <2>1, CatType
  <2> QED BY <1>2, <2>2, CatType
<1>5. t = L \o D
  <2> DEFINE s == <<"/">>
  <2>1. s \in Seq(S)
    BY <1>2
  <2> HIDE DEF L, V, s
  <2>2. (((L \o h) \o x) \o s) \o V = L \o (((h \o x) \o s) \o V)
    <3>1. PICK a1, a2, a3, a4, b1, b2, b3 :
            /\ Joined(a1, L, h) /\ Joined(a2, a1, x) /\ Joined(a3, a2, s) /\ Joined(a4, a3, V)
            /\ Joined(b1, h, x) /\ Joined(b2, b1, s) /\ Joined(b3, b2, V)
      BY Zenon DEF Joined
    <3>2. Joined(a4, L, b3)
      <4>1. L \in Seq(S) /\ h \in Seq(S) /\ x \in Seq(S) /\ V \in Seq(S)
        BY <1>0, <1>3, <1>4
      <4>2. Joined(a2, L, b1) /\ b1 \in Seq(S)
        BY ONLY <3>1, <4>1, JoinedStep
      <4>3. Joined(a3, L, b2) /\ b2 \in Seq(S)
        BY ONLY <2>1, <3>1, <4>1, <4>2, JoinedStep
      <4> QED BY ONLY <3>1, <4>1, <4>3, JoinedStep
    <3> QED BY <3>1, <3>2, Zenon DEF Joined
  <2> QED BY <2>2, Zenon DEF Printed, L, s
<1>6. Split(t, U, "@", D) /\ Split(U, u, ":", w) /\ Split(D, H, "/", V)
  BY <1>5, Zenon DEF Split
<1>7. PortPart(sec, H, h, p)
  <2>1. CASE x = <<>> /\ p = Texts!defaultport(sec)
    <3>1. h \o <<>> = h
      BY <1>0
    <3> QED BY <2>1, <3>1, Zenon DEF PortPart
  <2>2. CASE x = <<":", n>>
    <3> HIDE DEF n
    <3>1. <<":">> \o <<n>> = <<":", n>>
      BY PairIs, Zenon
    <3> DEFINE c == <<":">>
               m == <<n>>
    <3>2. c \in Seq(S) /\ m \in Seq(S) /\ x = c \o m
      BY <1>2, <2>2, <3>1
    <3> HIDE DEF c, m
    <3>3. Joined(h \o c, h, c) /\ Joined(x, c, m) /\ Joined((h \o c) \o m, h \o c, m)
      BY <3>2, Zenon DEF Joined
    <3>4. Joined((h \o c) \o m, h, x)
      BY ONLY <1>0, <3>2, <3>3, JoinedStep
    <3>5. Split(H, h, ":", <<n>>)
      BY <3>4, Zenon DEF Joined, Split, c, m
    <3> QED BY <1>1, <3>5, Zenon DEF PortPart
  <2> QED BY <2>1, <2>2
<1> HIDE DEF t, U, D, H, V, n
<1>8. V = IF v = <<"/">> THEN <<>> ELSE v
  BY DEF V
<1>9. Pieced(sec, u, w, v, h, p, t)
  BY <1>6, <1>7, <1>8, Zenon DEF Pieced
<1>10. Texts!parse(sec, t) = Addr(sec, u, w, v, h, p)
  <2>1. Parts(S, u, w, v, h, p) /\ Separators \subseteq S
    OBVIOUS
  <2> QED BY ONLY <1>9, <2>1, ReadBack
<1> QED BY <1>10 DEF t, V

\* The tokens of texts and of what is printed.
Tokens == TextTokens \cup Separators \cup {"guest"}

\* What holds of the address that is typed.
Typing == text \in Seq(TextTokens) /\ secure \in BOOLEAN /\ Len(text) <= TextMax

\* The port and the virtual host as they are printed.
PortText(p, default) == IF p # default THEN <<":", Texts!to_string(p)>> ELSE <<>>

\* The virtual host as it is printed: the root is left out.
VhostIs(v) == IF v = <<"/">> THEN <<>> ELSE v

\* The port that operator std::string leaves out, whatever the scheme.
PlainPort == Texts!defaultport(FALSE)

\* An address that asks for the plain port on a secure connection, and its type.
PlainAsked(sec, a) == sec /\ a.port = PlainPort

\* The port has 16 bits.
PortFits(a) == a.port \in Nat /\ a.port < 65536

\* The host has neither slash nor colon, and there is a virtual host.
Shape(a) == /\ PortFits(a) /\ a.vhost # <<>>
            /\ \A i \in 1..Len(a.hostname) : a.hostname[i] \notin {"/", ":"}

\* Both ways to print an address, in their parts.
LEMMA PrintIs ==
  ASSUME NEW a, NEW sec, NEW u, NEW w, NEW v, NEW h, NEW p, a = Addr(sec, u, w, v, h, p)
  PROVE  /\ Texts!asString(a) = Printed(u, w, h, PortText(p, PlainPort), VhostIs(v))
         /\ Texts!HasLogin(a.login) =>
              Texts!output(a) = Printed(u, w, h, PortText(p, Texts!defaultport(sec)), VhostIs(v))
<1>1. /\ a.secure = sec /\ a.login.user = u
      /\ a.login.password = w /\ a.vhost = v /\ a.hostname = h /\ a.port = p
  BY DEF Addr
<1>2. Texts!VhostText(a) = VhostIs(v)
  BY <1>1, Zenon DEF Texts!VhostText, VhostIs
<1>3. Texts!asString(a)
      = ((((((a.login.user \o <<":">>) \o a.login.password) \o <<"@">>) \o a.hostname)
         \o PortText(a.port, PlainPort)) \o <<"/">>) \o Texts!VhostText(a)
  <2>1. PlainPort = 5672
    BY DEF PlainPort, Texts!defaultport
  <2> DEFINE shown == IF a.port # 5672 THEN <<":", Texts!to_string(a.port)>> ELSE <<>>
  <2>2. PortText(a.port, PlainPort) = shown
    BY ONLY <2>1 DEF PortText
  <2>3. Texts!asString(a) = ((((((a.login.user \o <<":">>) \o a.login.password) \o <<"@">>) \o a.hostname)
                              \o shown) \o <<"/">>) \o Texts!VhostText(a)
    BY ZenonT(60) DEF Texts!asString
  <2> HIDE DEF shown
  <2> QED BY ONLY <2>2, <2>3, Zenon
<1>4. Texts!asString(a) = Printed(u, w, h, PortText(p, PlainPort), VhostIs(v))
  BY <1>1, <1>2, <1>3, Zenon DEF Printed
<1>5. ASSUME Texts!HasLogin(a.login)
      PROVE  Texts!output(a) = Printed(u, w, h, PortText(p, Texts!defaultport(sec)), VhostIs(v))
  <2>1. Texts!output(a)
        = ((((((a.login.user \o <<":">>) \o a.login.password) \o <<"@">>) \o a.hostname)
           \o PortText(a.port, Texts!defaultport(a.secure))) \o <<"/">>) \o Texts!VhostText(a)
    BY <1>5, Zenon DEF Texts!output, PortText
  <2> QED BY <1>1, <1>2, <2>1, Zenon DEF Printed
<1> QED BY <1>4, <1>5, Zenon

\* What is read is printed and read again.
LEMMA AddressReads ==
  ASSUME NEW s \in Seq(TextTokens), NEW sec \in BOOLEAN, NEW a, a = Texts!parse(sec, s)
  PROVE  /\ Texts!HasLogin(a.login) => Texts!parse(sec, Texts!output(a)) = a
         /\ ~PlainAsked(sec, a) => Texts!parse(sec, Texts!asString(a)) = a
         /\ Shape(a)
<1> DEFINE S == Tokens
<1>1. s \in Seq(S) /\ "/" \in S /\ "guest" \in S /\ Separators \subseteq S
  <2>1. TextTokens \subseteq S /\ "/" \in S /\ "guest" \in S /\ Separators \subseteq S
    BY DEF Tokens, Separators
  <2> HIDE DEF S
  <2> QED BY <2>1
<1> HIDE DEF S
<1>2. PICK u, w, v, h, p : Parts(S, u, w, v, h, p) /\ a = Addr(sec, u, w, v, h, p)
  BY <1>1, ParseGives
<1>3. a.port = p /\ a.vhost = v /\ a.hostname = h
  BY ONLY <1>2 DEF Addr
<1> DEFINE plain == PortText(p, PlainPort)
           own == PortText(p, Texts!defaultport(sec))
<1>4. /\ Texts!asString(a) = Printed(u, w, h, plain, VhostIs(v))
      /\ Texts!HasLogin(a.login) => Texts!output(a) = Printed(u, w, h, own, VhostIs(v))
  BY ONLY <1>2, PrintIs
<1>a. ASSUME NEW x, (x = <<>> /\ p = Texts!defaultport(sec)) \/ x = <<":", Texts!to_string(p)>>
      PROVE  Texts!parse(sec, Printed(u, w, h, x, VhostIs(v))) = a
  <2>1. Texts!parse(sec, Printed(u, w, h, x, IF v = <<"/">> THEN <<>> ELSE v)) = Addr(sec, u, w, v, h, p)
    BY ONLY <1>1, <1>2, <1>a, PrintedReads
  <2> QED BY <1>2, <2>1, Zenon DEF VhostIs
<1>5. ASSUME Texts!HasLogin(a.login) PROVE Texts!parse(sec, Texts!output(a)) = a
  <2>1. (own = <<>> /\ p = Texts!defaultport(sec)) \/ own = <<":", Texts!to_string(p)>>
    BY Zenon DEF PortText
  <2> HIDE DEF own
  <2>2. Texts!parse(sec, Printed(u, w, h, own, VhostIs(v))) = a
    BY <1>a, <2>1
  <2> QED BY <1>4, <1>5, <2>2
<1>6. ASSUME ~PlainAsked(sec, a) PROVE Texts!parse(sec, Texts!asString(a)) = a
  <2>1. (plain = <<>> /\ p = Texts!defaultport(sec)) \/ plain = <<":", Texts!to_string(p)>>
    <3>1. CASE p = PlainPort
      <4>1. Texts!defaultport(sec) = PlainPort
        BY <1>3, <1>6, <3>1 DEF Texts!defaultport, PlainAsked, PlainPort
      <4>2. plain = <<>>
        BY <3>1, Zenon DEF PortText
      <4> QED BY <3>1, <4>1, <4>2, Zenon
    <3>2. CASE p # PlainPort
      BY <3>2, Zenon DEF PortText
    <3> QED BY <3>1, <3>2
  <2> HIDE DEF plain
  <2>2. Texts!parse(sec, Printed(u, w, h, plain, VhostIs(v))) = a
    BY <1>a, <2>1
  <2> QED BY <1>4, <2>2
<1>7. PortFits(a)
  BY <1>2, <1>3 DEF Parts, PortFits
<1>8. a.vhost # <<>>
  <2>1. Len(v) > 0
    BY <1>2 DEF Parts
  <2>2. Len(<<>>) = 0
    OBVIOUS
  <2> QED BY <1>3, <2>1, <2>2
<1>9. \A i \in 1..Len(a.hostname) : a.hostname[i] \notin {"/", ":"}
  BY <1>2, <1>3 DEF Parts, NotIn
<1>10. Shape(a)
  BY <1>7, <1>8, <1>9, Zenon DEF Shape
<1> QED BY <1>5, <1>6, <1>10, Zenon

\* At the beginning nothing is typed.
LEMMA TypingInit == ASSUME Texts!Init PROVE Typing
  BY AddressAssumption DEF Texts!Init, Typing

\* Every step keeps what is typed a text.
LEMMA TypingNext == ASSUME Typing, Texts!Next PROVE Typing'
<1>1. ~Texts!Keep
  BY DEF Texts!Keep
<1>2. ASSUME NEW t \in TextTokens, Texts!Write(t) PROVE Typing'
  <2>1. text' = Append(text, t) /\ secure' = secure /\ Len(text) < TextMax
    BY <1>2 DEF Texts!Write
  <2>2. text \in Seq(TextTokens) /\ secure \in BOOLEAN /\ TextMax \in Nat
    BY AddressAssumption DEF Typing
  <2>3. text' \in Seq(TextTokens) /\ Len(text') <= TextMax
    BY <2>1, <2>2
  <2> QED BY <2>1, <2>2, <2>3 DEF Typing
<1> QED BY <1>1, <1>2 DEF Texts!Next

\* A text, whatever it is: what is printed of its address is parsed as the same address.
LEMMA TypingReads == ASSUME Typing PROVE Texts!TypeOK /\ Texts!StreamReads /\ Texts!StringReads
<1>0. text \in Seq(TextTokens) /\ secure \in BOOLEAN /\ Len(text) <= TextMax
  BY DEF Typing
<1> DEFINE a == Texts!Here
<1>1. a = Texts!parse(secure, text)
  BY DEF Texts!Here
<1> HIDE DEF a
<1>2. /\ Texts!HasLogin(a.login) => Texts!parse(secure, Texts!output(a)) = a
      /\ ~PlainAsked(secure, a) => Texts!parse(secure, Texts!asString(a)) = a
      /\ Shape(a)
  BY <1>0, <1>1, AddressReads, Zenon
<1>3. Texts!StreamReads
  BY <1>2, Zenon DEF a, Texts!StreamReads
<1>4. Texts!StringReads
  BY <1>2, Zenon DEF a, Texts!StringReads, PlainAsked, PlainPort
<1>5. Texts!TypeOK
  <2>1. PortFits(a) /\ a.vhost # <<>> /\ \A i \in 1..Len(a.hostname) : a.hostname[i] \notin {"/", ":"}
    BY <1>2, Zenon DEF Shape
  <2>3. Texts!TypeOK <=> /\ secure \in BOOLEAN /\ Len(text) <= TextMax /\ PortFits(a)
                         /\ (\A i \in 1..Len(a.hostname) : a.hostname[i] \notin {"/", ":"}) /\ a.vhost # <<>>
    BY SMT DEF a, Texts!TypeOK, PortFits
  <2> QED BY <1>0, <2>1, <2>3, Zenon
<1> QED BY <1>3, <1>4, <1>5

\* The tokens of the addresses that are compared.
Ranked == PairTokens \cup {"x", "/", "guest"}

\* Different characters have different ranks.
LEMMA RankOrder ==
  ASSUME NEW x \in Ranked, NEW y \in Ranked, x # y
  PROVE  Rank[x] \in Int /\ Rank[y] \in Int /\ Rank[x] # Rank[y]
  BY AddressAssumption DEF Ranked

\* Strings that differ at k first are ordered by what they have there.
LEMMA DifferAt ==
  ASSUME NEW s \in Seq(Ranked), NEW t \in Seq(Ranked), NEW k \in 1..Len(s), k <= Len(t), s[k] # t[k],
         \A j \in 1..(k - 1) : s[j] = t[j]
  PROVE  Pairs!Precedes(s, t) <=> Rank[s[k]] < Rank[t[k]]
<1>0. Len(s) \in Nat /\ Len(t) \in Nat /\ s[k] \in Ranked /\ t[k] \in Ranked /\ k \in Nat
  OBVIOUS
<1>1. ASSUME Rank[s[k]] < Rank[t[k]] PROVE Pairs!Precedes(s, t)
  BY <1>1 DEF Pairs!Precedes
<1>2. ASSUME NEW i \in 1..Len(s), i <= Len(t), Rank[s[i]] < Rank[t[i]], \A j \in 1..(i - 1) : s[j] = t[j]
      PROVE  Rank[s[k]] < Rank[t[k]]
  <2>1. ~(k <= i - 1)
    BY <1>0, <1>2
  <2>2. ~(i <= k - 1)
    <3> SUFFICES ASSUME i <= k - 1 PROVE FALSE
      OBVIOUS
    <3>1. s[i] = t[i] /\ s[i] \in Ranked
      BY <1>0
    <3>2. Rank[s[i]] \in Int
      BY <3>1, AddressAssumption DEF Ranked
    <3> QED BY <1>2, <3>1, <3>2
  <2>3. i = k
    BY <1>0, <2>1, <2>2
  <2> QED BY <1>2, <2>3
<1>3. ~(Len(s) < Len(t) /\ s = SubSeq(t, 1, Len(s)))
  <2> SUFFICES ASSUME Len(s) < Len(t), s = SubSeq(t, 1, Len(s)) PROVE FALSE
    OBVIOUS
  <2>1. SubSeq(t, 1, Len(s))[k] = t[k]
    <3>1. 1 \in Nat \ {0} /\ Len(s) \in 0..Len(t) /\ k \in 1..(Len(s) - 1 + 1) /\ 1 + k - 1 = k
      BY <1>0
    <3>2. SubSeq(t, 1, Len(s))[k] = t[1 + k - 1]
      BY <3>1, SubType
    <3> QED BY <3>1, <3>2
  <2> QED BY <2>1
<1> QED BY <1>1, <1>2, <1>3 DEF Pairs!Precedes

\* Of strings that do not differ, the shorter one is first.
LEMMA PrefixFirst ==
  ASSUME NEW s \in Seq(Ranked), NEW t \in Seq(Ranked), \A j \in 1..Len(s) : j <= Len(t) => s[j] = t[j]
  PROVE  Pairs!Precedes(s, t) <=> Len(s) < Len(t)
<1>0. Len(s) \in Nat /\ Len(t) \in Nat
  OBVIOUS
<1>1. ~\E i \in 1..Len(s) : /\ i <= Len(t) /\ Rank[s[i]] < Rank[t[i]]
                            /\ \A j \in 1..(i - 1) : s[j] = t[j]
  <2> SUFFICES ASSUME NEW i \in 1..Len(s), i <= Len(t), Rank[s[i]] < Rank[t[i]] PROVE FALSE
    OBVIOUS
  <2>1. s[i] = t[i] /\ s[i] \in Ranked
    OBVIOUS
  <2>2. Rank[s[i]] \in Int
    BY <2>1, AddressAssumption DEF Ranked
  <2> QED BY <2>1, <2>2
<1>2. ASSUME Len(s) < Len(t) PROVE s = SubSeq(t, 1, Len(s))
  <2> DEFINE r == SubSeq(t, 1, Len(s))
  <2>1. 1 \in Nat \ {0} /\ Len(s) \in 0..Len(t)
    BY <1>0, <1>2
  <2>2. /\ r \in Seq(Ranked) /\ Len(r) = IF 1 <= Len(s) THEN Len(s) - 1 + 1 ELSE 0
        /\ \A i \in 1..(Len(s) - 1 + 1) : r[i] = t[1 + i - 1]
    BY <2>1, SubType
  <2> HIDE DEF r
  <2>3. Len(r) = Len(s)
    BY <1>0, <2>2
  <2>4. ASSUME NEW i \in 1..Len(s) PROVE s[i] = r[i]
    <3>1. i \in 1..(Len(s) - 1 + 1) /\ 1 + i - 1 = i /\ i <= Len(t)
      BY <1>0, <1>2
    <3>2. r[i] = t[i]
      BY <2>2, <3>1
    <3> QED BY <3>1, <3>2
  <2>5. s = r
    BY <2>2, <2>3, <2>4, SeqEqual
  <2> QED BY <2>5 DEF r
<1> QED BY <1>1, <1>2 DEF Pairs!Precedes

\* Exactly one of three.
OneOf(x, y, z) == (x /\ ~y /\ ~z) \/ (~x /\ y /\ ~z) \/ (~x /\ ~y /\ z)

\* Of two different strings one precedes the other.
LEMMA StringsOrdered ==
  ASSUME NEW s \in Seq(Ranked), NEW t \in Seq(Ranked)
  PROVE  OneOf(Pairs!Precedes(s, t), s = t, Pairs!Precedes(t, s))
<1> DEFINE D == {i \in 1..Len(s) : i <= Len(t) /\ s[i] # t[i]}
<1>0. Len(s) \in Nat /\ Len(t) \in Nat
  OBVIOUS
<1>1. CASE D = {}
  <2>1. \A j \in 1..Len(s) : j <= Len(t) => s[j] = t[j]
    BY <1>1
  <2>2. \A j \in 1..Len(t) : j <= Len(s) => t[j] = s[j]
    BY <1>0, <2>1
  <2>3. Pairs!Precedes(s, t) <=> Len(s) < Len(t)
    BY <2>1, PrefixFirst
  <2>4. Pairs!Precedes(t, s) <=> Len(t) < Len(s)
    BY <2>2, PrefixFirst
  <2>5. s = t <=> Len(s) = Len(t)
    <3>1. ASSUME Len(s) = Len(t) PROVE s = t
      <4>1. \A j \in 1..Len(s) : s[j] = t[j]
        BY <1>0, <2>1, <3>1
      <4> QED BY <3>1, <4>1, SeqEqual
    <3> QED BY <3>1
  <2>6. OneOf(Len(s) < Len(t), Len(s) = Len(t), Len(t) < Len(s))
    BY <1>0 DEF OneOf
  <2> QED BY <2>3, <2>4, <2>5, <2>6 DEF OneOf
<1>2. CASE D # {}
  <2>1. PICK k \in D : \A y \in D : k <= y
    <3>1. D \in SUBSET Nat
      OBVIOUS
    <3> HIDE DEF D
    <3> QED BY <1>2, <3>1, LeastNumber
  <2>2. k \in 1..Len(s) /\ k \in 1..Len(t) /\ k <= Len(t) /\ k <= Len(s) /\ s[k] # t[k] /\ t[k] # s[k]
    BY <1>0, <2>1
  <2>3. \A j \in 1..(k - 1) : s[j] = t[j]
    BY <1>0, <2>1, <2>2
  <2>4. \A j \in 1..(k - 1) : t[j] = s[j]
    BY <2>3
  <2>5. Pairs!Precedes(s, t) <=> Rank[s[k]] < Rank[t[k]]
    BY <2>2, <2>3, DifferAt
  <2>6. Pairs!Precedes(t, s) <=> Rank[t[k]] < Rank[s[k]]
    BY <2>2, <2>4, DifferAt
  <2>7. s[k] \in Ranked /\ t[k] \in Ranked
    BY <2>2
  <2>8. Rank[s[k]] \in Int /\ Rank[t[k]] \in Int /\ Rank[s[k]] # Rank[t[k]]
    BY <2>2, <2>7, RankOrder
  <2>9. s # t
    BY <2>2
  <2> QED BY <2>5, <2>6, <2>8, <2>9 DEF OneOf
<1> QED BY <1>1, <1>2

\* The two instances of the parser are the same one.
LEMMA SameParse == ASSUME NEW sec, NEW s PROVE Pairs!parse(sec, s) = Texts!parse(sec, s)
<1>1. \A t, c : Pairs!memchr(t, c) = Texts!memchr(t, c)
  BY Zenon DEF Pairs!memchr, Texts!memchr
<1>2. \A t, i : Pairs!After(t, i) = Texts!After(t, i) /\ Pairs!Before(t, i) = Texts!Before(t, i)
  BY Zenon DEF Pairs!After, Texts!After, Pairs!Before, Texts!Before
<1>3. \A t : Pairs!loginOf(t) = Texts!loginOf(t)
  BY <1>1, <1>2, Zenon DEF Pairs!loginOf, Texts!loginOf
<1>4. Pairs!Guest = Texts!Guest
  BY Zenon DEF Pairs!Guest, Texts!Guest
<1>5. \A t : Pairs!asPort(t) = Texts!asPort(t)
  BY SMT DEF Pairs!asPort, Texts!asPort
<1>6. Pairs!defaultport(sec) = Texts!defaultport(sec)
  BY SMT DEF Pairs!defaultport, Texts!defaultport
<1> QED BY <1>1, <1>2, <1>3, <1>4, <1>5, <1>6, Zenon DEF Pairs!parse, Texts!parse

\* Two truth values that differ.
LEMMA Unequal ==
  ASSUME NEW s1 \in BOOLEAN, NEW s2 \in BOOLEAN, s1 # s2
  PROVE  (s1 /\ ~s2) \/ (~s1 /\ s2)
<1>1. CASE s1 /\ s2
  <2>1. s1 = TRUE /\ s2 = TRUE
    BY <1>1
  <2> QED BY <2>1
<1>2. CASE ~s1 /\ ~s2
  <2>1. s1 = FALSE /\ s2 = FALSE
    BY <1>2
  <2> QED BY <2>1
<1> QED BY <1>1, <1>2, Zenon

\* The lower case of a name is a name.
LEMMA LowerType ==
  ASSUME NEW h \in Seq(Ranked) PROVE Pairs!lower(h) \in Seq(Ranked)
<1>1. \A i \in 1..Len(h) : (IF h[i] = "X" THEN "x" ELSE h[i]) \in Ranked
  BY DEF Ranked
<1> QED BY <1>1 DEF Pairs!lower

\* The parts of an address that is compared.
Compared(a) ==
  \E sec \in BOOLEAN : \E u, w, v, h \in Seq(Ranked) : \E p \in Int : a = Addr(sec, u, w, v, h, p)

\* An address of ranked parts can be compared.
LEMMA IsCompared ==
  ASSUME NEW u, NEW w, NEW v, NEW h, NEW p, NEW sec \in BOOLEAN, NEW a, a = Addr(sec, u, w, v, h, p),
         u \in Seq(Ranked) /\ w \in Seq(Ranked) /\ v \in Seq(Ranked) /\ h \in Seq(Ranked) /\ p \in Int
  PROVE  Compared(a)
  BY Zenon DEF Compared

\* The order of logins is total.
LoginsOrdered(l, m) == OneOf(Pairs!loginLess(l, m), l = m, Pairs!loginLess(m, l))

\* Logins are ordered by user, then by password.
LEMMA LoginOrder ==
  ASSUME NEW l, NEW m, NEW u \in Seq(Ranked), NEW w \in Seq(Ranked), NEW y \in Seq(Ranked),
         NEW z \in Seq(Ranked),
         l = [user |-> u, password |-> w], m = [user |-> y, password |-> z]
  PROVE  LoginsOrdered(l, m)
<1>1. l.user = u /\ l.password = w /\ m.user = y /\ m.password = z /\ (l = m <=> u = y /\ w = z)
  OBVIOUS
<1>2. OneOf(Pairs!Precedes(u, y), u = y, Pairs!Precedes(y, u))
  BY StringsOrdered
<1>3. OneOf(Pairs!Precedes(w, z), w = z, Pairs!Precedes(z, w))
  BY StringsOrdered
<1>4. CASE u = y
  <2>1. Pairs!loginLess(l, m) <=> Pairs!Precedes(w, z)
    BY <1>1, <1>4, Zenon DEF Pairs!loginLess
  <2>2. Pairs!loginLess(m, l) <=> Pairs!Precedes(z, w)
    BY <1>1, <1>4, Zenon DEF Pairs!loginLess
  <2>3. l = m <=> w = z
    BY <1>1, <1>4
  <2> QED BY <1>3, <2>1, <2>2, <2>3, Zenon DEF LoginsOrdered, OneOf
<1>5. CASE u # y
  <2>1. Pairs!loginLess(l, m) <=> Pairs!Precedes(u, y)
    BY <1>1, <1>5, Zenon DEF Pairs!loginLess
  <2>2. Pairs!loginLess(m, l) <=> Pairs!Precedes(y, u)
    BY <1>1, <1>5, Zenon DEF Pairs!loginLess
  <2>3. l # m
    BY <1>1, <1>5
  <2> QED BY <1>2, <1>5, <2>1, <2>2, <2>3, Zenon DEF LoginsOrdered, OneOf
<1> QED BY <1>4, <1>5

\* Of two addresses one is less than the other, or they are equal, and never both.
LEMMA AddressOrder ==
  ASSUME NEW a, NEW b, Compared(a), Compared(b)
  PROVE  OneOf(Pairs!Less(a, b), Pairs!Equal(a, b), Pairs!Less(b, a))
<1>1. PICK s1 \in BOOLEAN, u1 \in Seq(Ranked), w1 \in Seq(Ranked), v1 \in Seq(Ranked), h1 \in Seq(Ranked),
      p1 \in Int :
        a = Addr(s1, u1, w1, v1, h1, p1)
  BY Zenon DEF Compared
<1>2. PICK s2 \in BOOLEAN, u2 \in Seq(Ranked), w2 \in Seq(Ranked), v2 \in Seq(Ranked), h2 \in Seq(Ranked),
      p2 \in Int :
        b = Addr(s2, u2, w2, v2, h2, p2)
  BY Zenon DEF Compared
<1> DEFINE l1 == [user |-> u1, password |-> w1]
           l2 == [user |-> u2, password |-> w2]
           g1 == Pairs!lower(h1)
           g2 == Pairs!lower(h2)
<1>3. a.secure = s1 /\ a.login = l1 /\ a.vhost = v1 /\ a.hostname = h1 /\ a.port = p1
  BY <1>1 DEF Addr
<1>4. b.secure = s2 /\ b.login = l2 /\ b.vhost = v2 /\ b.hostname = h2 /\ b.port = p2
  BY <1>2 DEF Addr
<1>5. LoginsOrdered(l1, l2)
  BY LoginOrder
<1>6. OneOf(Pairs!Precedes(g1, g2), g1 = g2, Pairs!Precedes(g2, g1))
  <2>1. g1 \in Seq(Ranked) /\ g2 \in Seq(Ranked)
    BY LowerType
  <2> HIDE DEF g1, g2
  <2> QED BY <2>1, StringsOrdered
<1>7. OneOf(p1 < p2, p1 = p2, p2 < p1)
  BY DEF OneOf
<1>8. OneOf(Pairs!Precedes(v1, v2), v1 = v2, Pairs!Precedes(v2, v1))
  BY StringsOrdered
<1> HIDE DEF l1, l2, g1, g2
<1>9. Pairs!Equal(a, b) <=> s1 = s2 /\ l1 = l2 /\ g1 = g2 /\ p1 = p2 /\ v1 = v2
  BY <1>3, <1>4, Zenon DEF Pairs!Equal, g1, g2
<1>10. Pairs!Less(a, b) <=> IF s1 # s2 THEN ~s1
                            ELSE IF l1 # l2 THEN Pairs!loginLess(l1, l2)
                            ELSE IF g1 # g2 THEN Pairs!Precedes(g1, g2)
                            ELSE IF p1 # p2 THEN p1 < p2
                            ELSE Pairs!Precedes(v1, v2)
  BY <1>3, <1>4, Zenon DEF Pairs!Less, g1, g2
<1>11. Pairs!Less(b, a) <=> IF s2 # s1 THEN ~s2
                            ELSE IF l2 # l1 THEN Pairs!loginLess(l2, l1)
                            ELSE IF g2 # g1 THEN Pairs!Precedes(g2, g1)
                            ELSE IF p2 # p1 THEN p2 < p1
                            ELSE Pairs!Precedes(v2, v1)
  BY <1>3, <1>4, Zenon DEF Pairs!Less, g1, g2
<1>12. CASE s1 # s2
  <2>1. ~Pairs!Equal(a, b) /\ (Pairs!Less(a, b) <=> ~s1) /\ (Pairs!Less(b, a) <=> ~s2)
    BY <1>9, <1>10, <1>11, <1>12, Zenon
  <2>2. (s1 /\ ~s2) \/ (~s1 /\ s2)
    BY <1>12, Unequal
  <2> QED BY <2>1, <2>2, Zenon DEF OneOf
<1>13. CASE s1 = s2 /\ l1 # l2
  <2>1. ~Pairs!Equal(a, b) /\ (Pairs!Less(a, b) <=> Pairs!loginLess(l1, l2))
        /\ (Pairs!Less(b, a) <=> Pairs!loginLess(l2, l1))
    BY <1>9, <1>10, <1>11, <1>13, Zenon
  <2> QED BY <1>5, <1>13, <2>1, Zenon DEF OneOf, LoginsOrdered
<1>14. CASE s1 = s2 /\ l1 = l2 /\ g1 # g2
  <2>1. ~Pairs!Equal(a, b) /\ (Pairs!Less(a, b) <=> Pairs!Precedes(g1, g2))
        /\ (Pairs!Less(b, a) <=> Pairs!Precedes(g2, g1))
    BY <1>9, <1>10, <1>11, <1>14, Zenon
  <2> QED BY <1>6, <1>14, <2>1, Zenon DEF OneOf
<1>15. CASE s1 = s2 /\ l1 = l2 /\ g1 = g2 /\ p1 # p2
  <2>1. ~Pairs!Equal(a, b) /\ (Pairs!Less(a, b) <=> p1 < p2) /\ (Pairs!Less(b, a) <=> p2 < p1)
    BY <1>9, <1>10, <1>11, <1>15, Zenon
  <2> QED BY <1>7, <1>15, <2>1, Zenon DEF OneOf
<1>16. CASE s1 = s2 /\ l1 = l2 /\ g1 = g2 /\ p1 = p2
  <2>1. (Pairs!Equal(a, b) <=> v1 = v2) /\ (Pairs!Less(a, b) <=> Pairs!Precedes(v1, v2))
        /\ (Pairs!Less(b, a) <=> Pairs!Precedes(v2, v1))
    BY <1>9, <1>10, <1>11, <1>16, Zenon
  <2> QED BY <1>8, <2>1, Zenon DEF OneOf
<1> QED BY <1>12, <1>13, <1>14, <1>15, <1>16, Zenon

\* The state of the addresses that are compared.
Comparing == /\ text \in Seq(PairTokens) /\ secure \in BOOLEAN /\ Len(text) <= PairMax
             /\ Compared(kept)

\* Whatever the text, its address can be compared.
LEMMA ParsedCompared ==
  ASSUME NEW s \in Seq(PairTokens), NEW sec \in BOOLEAN
  PROVE  Compared(Pairs!parse(sec, s)) /\ Shape(Pairs!parse(sec, s))
<1>1. s \in Seq(Ranked) /\ "/" \in Ranked /\ "guest" \in Ranked
  BY DEF Ranked
<1>2. PICK u, w, v, h, p : Parts(Ranked, u, w, v, h, p) /\ Texts!parse(sec, s) = Addr(sec, u, w, v, h, p)
  BY <1>1, ParseGives
<1> DEFINE a == Pairs!parse(sec, s)
<1>3. a = Addr(sec, u, w, v, h, p)
  BY <1>2, SameParse, Zenon
<1> HIDE DEF a
<1>4. /\ u \in Seq(Ranked) /\ w \in Seq(Ranked) /\ v \in Seq(Ranked) /\ h \in Seq(Ranked) /\ p \in Int
      /\ p \in {0, 5671, 5672} /\ NotIn("/", h) /\ NotIn(":", h) /\ Len(v) > 0
  BY <1>2 DEF Parts
<1>5. Compared(a)
  <2>1. u \in Seq(Ranked) /\ w \in Seq(Ranked) /\ v \in Seq(Ranked) /\ h \in Seq(Ranked) /\ p \in Int
    BY <1>4
  <2>2. sec \in BOOLEAN
    OBVIOUS
  <2> QED BY ONLY <1>3, <2>1, <2>2, IsCompared, Zenon
<1>6. a.port = p /\ a.vhost = v /\ a.hostname = h
  BY ONLY <1>3 DEF Addr
<1>7. PortFits(a)
  BY <1>4, <1>6 DEF PortFits
<1>8. a.vhost # <<>>
  <2>1. Len(<<>>) = 0
    OBVIOUS
  <2> QED BY <1>4, <1>6, <2>1
<1>9. \A i \in 1..Len(a.hostname) : a.hostname[i] \notin {"/", ":"}
  BY <1>4, <1>6 DEF NotIn
<1> QED BY <1>5, <1>7, <1>8, <1>9, Zenon DEF Shape, a

\* At the beginning there is no address to compare.
LEMMA ComparingInit == ASSUME Pairs!Init PROVE Comparing
<1>1. secure \in BOOLEAN /\ text = <<>> /\ kept = Pairs!parse(FALSE, <<>>) /\ PairMax \in Nat
  BY AddressAssumption DEF Pairs!Init
<1>2. <<>> \in Seq(PairTokens) /\ Len(<<>>) <= PairMax /\ FALSE \in BOOLEAN
  BY <1>1
<1>3. Compared(kept)
  BY <1>1, <1>2, ParsedCompared, Zenon
<1> QED BY <1>1, <1>2, <1>3, Zenon DEF Comparing

\* Every step keeps what is compared addresses of texts.
LEMMA ComparingNext == ASSUME Comparing, Pairs!Next PROVE Comparing'
<1>0. text \in Seq(PairTokens) /\ secure \in BOOLEAN /\ PairMax \in Nat /\ Compared(kept)
  BY AddressAssumption DEF Comparing
<1>1. CASE Pairs!Keep
  <2>1. kept' = Pairs!parse(secure, text) /\ text' = <<>> /\ secure' \in BOOLEAN
    BY <1>1 DEF Pairs!Keep, Pairs!Here
  <2>2. Compared(kept')
    BY <1>0, <2>1, ParsedCompared, Zenon
  <2>3. text' \in Seq(PairTokens) /\ Len(text') <= PairMax
    BY <1>0, <2>1
  <2> QED BY <2>1, <2>2, <2>3 DEF Comparing
<1>2. ASSUME NEW t \in PairTokens, Pairs!Write(t) PROVE Comparing'
  <2>1. text' = Append(text, t) /\ secure' = secure /\ kept' = kept /\ Len(text) < PairMax
    BY <1>2 DEF Pairs!Write
  <2>2. text' \in Seq(PairTokens) /\ Len(text') <= PairMax
    BY <1>0, <2>1
  <2> QED BY <1>0, <2>1, <2>2 DEF Comparing
<1> QED BY <1>1, <1>2 DEF Pairs!Next

\* Two addresses, whatever their texts: the order is total.
LEMMA ComparingOrder == ASSUME Comparing PROVE Pairs!TypeOK /\ Pairs!OrderIsTotal
<1>0. text \in Seq(PairTokens) /\ secure \in BOOLEAN /\ Len(text) <= PairMax /\ Compared(kept)
  BY DEF Comparing
<1> DEFINE a == Pairs!Here
<1>1. Compared(a) /\ Shape(a)
  BY <1>0, ParsedCompared, Zenon DEF Pairs!Here
<1> HIDE DEF a
<1>2. PortFits(a) /\ a.vhost # <<>> /\ \A i \in 1..Len(a.hostname) : a.hostname[i] \notin {"/", ":"}
  BY <1>1, Zenon DEF Shape
<1>3. Pairs!TypeOK <=> /\ secure \in BOOLEAN /\ Len(text) <= PairMax /\ PortFits(a)
                       /\ (\A i \in 1..Len(a.hostname) : a.hostname[i] \notin {"/", ":"}) /\ a.vhost # <<>>
  BY SMT DEF a, Pairs!TypeOK, PortFits
<1>4. Pairs!TypeOK
  BY <1>0, <1>2, <1>3, Zenon
<1>5. OneOf(Pairs!Less(a, kept), Pairs!Equal(a, kept), Pairs!Less(kept, a))
  BY <1>0, <1>1, AddressOrder, Zenon
<1>6. Pairs!OrderIsTotal
  <2> DEFINE lt == Pairs!Less(a, kept)
             eq == Pairs!Equal(a, kept)
             gt == Pairs!Less(kept, a)
             ways == {i \in 1..3 : CASE i = 1 -> lt [] i = 2 -> eq [] i = 3 -> gt}
  <2>1. \E i \in ways : ways = {i}
    <3>0. OneOf(lt, eq, gt)
      BY <1>5
    <3> HIDE DEF lt, eq, gt
    <3>1. 1 \in ways <=> lt
      OBVIOUS
    <3>2. 2 \in ways <=> eq
      OBVIOUS
    <3>3. 3 \in ways <=> gt
      OBVIOUS
    <3>4. \A i \in ways : i = 1 \/ i = 2 \/ i = 3
      OBVIOUS
    <3> HIDE DEF ways
    <3>5. (lt /\ ~eq /\ ~gt) \/ (~lt /\ eq /\ ~gt) \/ (~lt /\ ~eq /\ gt)
      BY <3>0, Zenon DEF OneOf
    <3>6. CASE lt /\ ~eq /\ ~gt
      BY <3>1, <3>2, <3>3, <3>4, <3>6, Zenon
    <3>7. CASE ~lt /\ eq /\ ~gt
      BY <3>1, <3>2, <3>3, <3>4, <3>7, Zenon
    <3>8. CASE ~lt /\ ~eq /\ gt
      BY <3>1, <3>2, <3>3, <3>4, <3>8, Zenon
    <3> QED BY <3>5, <3>6, <3>7, <3>8, Zenon
  <2> QED BY <2>1, Zenon DEF Pairs!OrderIsTotal, a
<1> QED BY <1>4, <1>6

-----------------------------------------------------------------------------
(* Numbers as octets.                                                      *)

\* g has the powers of 256 up to n.
IsPower(g, n) == g = [i \in 0..n |-> IF i = 0 THEN 1 ELSE 256 * g[i - 1]]

\* The recursive function behind Base exists for every exponent.
LEMMA PowerExists == \A n \in Nat : \E g : IsPower(g, n)
<1> DEFINE T == {n \in Nat : \E g : IsPower(g, n)}
<1>1. 0 \in T
  <2> DEFINE g == [i \in 0..0 |-> 1]
  <2>1. g = [i \in 0..0 |-> IF i = 0 THEN 1 ELSE 256 * g[i - 1]]
    OBVIOUS
  <2> QED BY <2>1 DEF IsPower
<1>2. ASSUME NEW n \in Nat \ {0}, n - 1 \in T PROVE n \in T
  <2>1. PICK g : g = [i \in 0..(n - 1) |-> IF i = 0 THEN 1 ELSE 256 * g[i - 1]]
    BY <1>2 DEF IsPower
  <2> DEFINE h == [i \in 0..n |-> IF i = n THEN 256 * g[n - 1] ELSE g[i]]
  <2>2. ASSUME NEW i \in 0..n PROVE h[i] = IF i = 0 THEN 1 ELSE 256 * h[i - 1]
    <3>1. CASE i = n
      BY <3>1
    <3>2. CASE i # n
      BY <3>2, <2>1
    <3> QED BY <3>1, <3>2
  <2>3. h = [i \in 0..n |-> IF i = 0 THEN 1 ELSE 256 * h[i - 1]]
    BY <2>2
  <2> QED BY <2>3 DEF IsPower
<1>3. ASSUME NEW n \in Nat PROVE n \in T
  <2>1. \A i \in 1..n : i - 1 \in T => i \in T
    BY <1>2
  <2> HIDE DEF T
  <2>2. \A i \in 0..n : i \in T
    BY <1>1, <2>1, Upward
  <2> QED BY <2>2
<1> QED BY <1>3

\* Base(n) is the n-th power of 256: its steps, without the recursive function.
LEMMA PowerPick ==
  ASSUME NEW n \in Nat
  PROVE  \E g : /\ Fields!Base(n) = g[n] /\ g[0] = 1
                /\ \A i \in 1..n : g[i] = 256 * g[i - 1]
<1>1. PICK g : IsPower(g, n) /\ Fields!Base(n) = g[n]
  <2>1. \E g : IsPower(g, n)
    BY PowerExists
  <2> QED BY <2>1 DEF IsPower, Fields!Base
<1>2. \A i \in 0..n : g[i] = IF i = 0 THEN 1 ELSE 256 * g[i - 1]
  BY <1>1 DEF IsPower
<1>3. g[0] = 1
  BY <1>2
<1>4. ASSUME NEW i \in 1..n PROVE g[i] = 256 * g[i - 1]
  <2>1. i \in 0..n /\ i # 0
    OBVIOUS
  <2> QED BY <1>2, <2>1
<1> QED BY <1>1, <1>3, <1>4

\* The values that one octet more can tell.
LEMMA BaseNext == ASSUME NEW n \in Nat PROVE Fields!Base(n + 1) = 256 * Fields!Base(n)
<1>1. PICK g : /\ Fields!Base(n) = g[n] /\ g[0] = 1 /\ \A i \in 1..n : g[i] = 256 * g[i - 1]
  BY PowerPick
<1>2. PICK h : /\ Fields!Base(n + 1) = h[n + 1] /\ h[0] = 1 /\ \A i \in 1..(n + 1) : h[i] = 256 * h[i - 1]
  <2>1. n + 1 \in Nat
    OBVIOUS
  <2> QED BY <2>1, PowerPick
<1> DEFINE T == {i \in Nat : g[i] = h[i]}
<1>3. 0 \in T
  BY <1>1, <1>2
<1>4. \A i \in 1..n : i - 1 \in T => i \in T
  <2> SUFFICES ASSUME NEW i \in 1..n, i - 1 \in T PROVE i \in T
    OBVIOUS
  <2>1. i \in 1..(n + 1) /\ i \in Nat /\ g[i - 1] = h[i - 1]
    OBVIOUS
  <2>2. g[i] = 256 * g[i - 1] /\ h[i] = 256 * h[i - 1]
    BY <1>1, <1>2, <2>1
  <2> QED BY <2>1, <2>2
<1>5. n \in T
  <2> HIDE DEF T
  <2>1. \A i \in 0..n : i \in T
    BY <1>3, <1>4, Upward
  <2> QED BY <2>1
<1>6. h[n + 1] = 256 * h[n]
  <2>1. n + 1 \in 1..(n + 1) /\ (n + 1) - 1 = n
    OBVIOUS
  <2> QED BY <1>2, <2>1
<1> QED BY <1>1, <1>2, <1>5, <1>6

\* What is needed to know of the number of values of n octets.
LEMMA BaseIs ==
  /\ \A n \in Nat : Fields!Base(n) \in Nat /\ Fields!Base(n) > 0
  /\ \A n \in Nat \ {0} : Fields!Base(n) = 256 * Fields!Base(n - 1) /\ n - 1 \in Nat
  /\ Fields!Base(0) = 1 /\ Fields!Base(1) = 256
<1>1. Fields!Base(0) = 1
  BY PowerPick
<1> DEFINE T == {n \in Nat : Fields!Base(n) \in Nat /\ Fields!Base(n) > 0}
<1>2. 0 \in T
  BY <1>1
<1>3. ASSUME NEW n \in Nat \ {0} PROVE Fields!Base(n) = 256 * Fields!Base(n - 1) /\ n - 1 \in Nat
  <2>1. n - 1 \in Nat /\ (n - 1) + 1 = n
    OBVIOUS
  <2>2. Fields!Base((n - 1) + 1) = 256 * Fields!Base(n - 1)
    BY <2>1, BaseNext
  <2> QED BY <2>1, <2>2
<1>4. ASSUME NEW n \in Nat PROVE n \in T
  <2>1. \A i \in 1..n : i - 1 \in T => i \in T
    BY <1>3
  <2> HIDE DEF T
  <2>2. \A i \in 0..n : i \in T
    BY <1>2, <2>1, Upward
  <2> QED BY <2>2
<1>5. Fields!Base(1) = 256
  <2>1. Fields!Base(1) = 256 * Fields!Base(1 - 1) /\ 1 - 1 = 0
    BY <1>3
  <2> QED BY <1>1, <2>1
<1> QED BY <1>1, <1>3, <1>4, <1>5

\* To divide by 256 once more.
LEMMA DivStep ==
  ASSUME NEW v \in Int, NEW P \in Nat, P > 0 PROVE v \div (256 * P) = (v \div P) \div 256
  BY SMT

\* The quotient and the remainder.
LEMMA DivMod == ASSUME NEW w \in Int, NEW Q \in Nat, Q > 0
 PROVE w = (w \div Q) * Q + (w % Q) /\ w % Q \in 0..(Q-1) /\ w \div Q \in Int
<1>1. w \div Q \in Int BY SMT
<1>2. w % Q \in 0..(Q-1) BY SMT
<1>3. w = (Q * (w \div Q)) + (w % Q) BY SMT
<1> QED BY <1>1, <1>2, <1>3, SMT
\* A multiple of a positive number is no less than it.
LEMMA Far ==
  ASSUME NEW k \in Int, NEW Q \in Nat, Q > 0, k > 0 PROVE k * Q >= Q
  BY SMT
\* The rest of a division is unique.
LEMMA ModUnique ==
  ASSUME NEW d \in Int, NEW q \in Int, NEW m \in Int, NEW z \in Int, NEW Q \in Nat, Q > 0,
         m \in 0..(Q - 1), z \in 0..(Q - 1), d * Q + m = q * Q + z
  PROVE  m = z
<1>1. CASE d > q
  <2>1. (d - q) * Q >= Q BY <1>1, Far
  <2>2. (d-q) * Q = d*Q - q*Q OBVIOUS
  <2> QED BY <2>1, <2>2
<1>2. CASE d < q
  <2>1. (q - d) * Q >= Q BY <1>2, Far
  <2>2. (q - d) * Q = q*Q - d*Q OBVIOUS
  <2> QED BY <2>1, <2>2
<1> QED BY <1>1, <1>2

\* The lower octets of a number, and the octet before them.
LEMMA ModStep ==
  ASSUME NEW w \in Int, NEW P \in Nat, P > 0
  PROVE ((w \div 256) % P) * 256 + (w % 256) = w % (256 * P)
<1> DEFINE u == w \div 256
           e == w % 256
           r == u % P
           q == u \div P
           Q == 256 * P
<1>1. w = u * 256 + e /\ e \in 0..255 /\ u \in Int
  BY SMT
<1>2. u = (q * P) + r /\ r \in 0..(P - 1) /\ q \in Int
  BY SMT
<1>3. Q \in Nat /\ Q > 0
  BY SMT
<1> HIDE DEF Q
<1>4. w = ((w \div Q) * Q) + (w % Q) /\ w % Q \in 0..(Q - 1) /\ w \div Q \in Int
  BY <1>3, DivMod
<1> HIDE DEF u, e, r, q
<1>6. w = (q * Q) + (r * 256 + e)
  BY <1>1, <1>2, SMT DEF Q
<1>7. r * 256 + e \in 0..(Q - 1)
  BY <1>1, <1>2, SMT DEF Q
<1> DEFINE z == r * 256 + e
<1> HIDE DEF z
<1>8. z = w % Q
  <2>1. z \in Int /\ w % Q \in Int /\ z \in 0..(Q - 1) /\ (w \div Q) * Q + (w % Q) = q * Q + z
    BY <1>3, <1>4, <1>6, <1>7 DEF z
  <2> QED BY ONLY <1>2, <1>3, <1>4, <2>1, ModUnique
<1> QED BY <1>8 DEF u, e, r, q, z, Q

\* g has the numbers that the first i octets of in are, for i up to n.
IsUint(g, in, n) == g = [i \in 0..n |-> IF i = 0 THEN 0 ELSE g[i - 1] * 256 + in[i]]

\* The recursive function behind nextUint exists for every width.
LEMMA UintExists ==
  ASSUME NEW in PROVE \A n \in Nat : \E g : IsUint(g, in, n)
<1> DEFINE T == {n \in Nat : \E g : IsUint(g, in, n)}
<1>1. 0 \in T
  <2> DEFINE g == [i \in 0..0 |-> 0]
  <2>1. g = [i \in 0..0 |-> IF i = 0 THEN 0 ELSE g[i - 1] * 256 + in[i]]
    OBVIOUS
  <2> QED BY <2>1 DEF IsUint
<1>2. ASSUME NEW n \in Nat \ {0}, n - 1 \in T PROVE n \in T
  <2>1. PICK g : g = [i \in 0..(n - 1) |-> IF i = 0 THEN 0 ELSE g[i - 1] * 256 + in[i]]
    BY <1>2 DEF IsUint
  <2> DEFINE h == [i \in 0..n |-> IF i = n THEN g[n - 1] * 256 + in[n] ELSE g[i]]
  <2>2. ASSUME NEW i \in 0..n PROVE h[i] = IF i = 0 THEN 0 ELSE h[i - 1] * 256 + in[i]
    <3>1. CASE i = n
      BY <3>1
    <3>2. CASE i # n
      BY <3>2, <2>1
    <3> QED BY <3>1, <3>2
  <2>3. h = [i \in 0..n |-> IF i = 0 THEN 0 ELSE h[i - 1] * 256 + in[i]]
    BY <2>2
  <2> QED BY <2>3 DEF IsUint
<1>3. ASSUME NEW n \in Nat PROVE n \in T
  <2>1. \A i \in 1..n : i - 1 \in T => i \in T
    BY <1>2
  <2> HIDE DEF T
  <2>2. \A i \in 0..n : i \in T
    BY <1>1, <2>1, Upward
  <2> QED BY <2>2
<1> QED BY <1>3

\* nextUint takes one octet after the other: its steps, without the recursive function.
LEMMA UintPick ==
  ASSUME NEW in, NEW n \in Nat
  PROVE  \E g : /\ Fields!nextUint(in, n) = g[n] /\ g[0] = 0
                /\ \A i \in 1..n : g[i] = g[i - 1] * 256 + in[i]
<1>1. PICK g : IsUint(g, in, n) /\ Fields!nextUint(in, n) = g[n]
  <2>1. \E g : IsUint(g, in, n)
    BY UintExists
  <2> QED BY <2>1 DEF IsUint, Fields!nextUint
<1>2. \A i \in 0..n : g[i] = IF i = 0 THEN 0 ELSE g[i - 1] * 256 + in[i]
  BY <1>1 DEF IsUint
<1>3. g[0] = 0
  BY <1>2
<1>4. ASSUME NEW i \in 1..n PROVE g[i] = g[i - 1] * 256 + in[i]
  <2>1. i \in 0..n /\ i # 0
    OBVIOUS
  <2> QED BY <1>2, <2>1
<1> QED BY <1>1, <1>3, <1>4

\* A number with one more octet stays below the next power.
LEMMA OneMore ==
  ASSUME NEW x, NEW b, NEW o, x \in Nat, b \in Nat, x < b, o \in 0..255
  PROVE  x * 256 + o \in Nat /\ x * 256 + o < 256 * b
  BY SMT

\* What is read of n octets is less than there are values of them.
LEMMA UintBound ==
  ASSUME NEW in, NEW n \in Nat, \A i \in 1..n : in[i] \in 0..255
  PROVE  Fields!nextUint(in, n) \in Nat /\ Fields!nextUint(in, n) < Fields!Base(n)
<1>1. PICK g : /\ Fields!nextUint(in, n) = g[n] /\ g[0] = 0
               /\ \A i \in 1..n : g[i] = g[i - 1] * 256 + in[i]
  BY UintPick
<1> DEFINE T == {i \in Nat : g[i] \in Nat /\ g[i] < Fields!Base(i)}
<1>2. 0 \in T
  <2>1. Fields!Base(0) = 1 /\ 0 \in Nat /\ g[0] = 0
    BY <1>1, BaseIs
  <2> QED BY ONLY <2>1
<1>3. \A i \in 1..n : i - 1 \in T => i \in T
  <2> SUFFICES ASSUME NEW i \in 1..n, i - 1 \in T PROVE i \in T
    OBVIOUS
  <2>1. i \in Nat \ {0} /\ g[i - 1] \in Nat /\ g[i - 1] < Fields!Base(i - 1) /\ i - 1 \in Nat
    OBVIOUS
  <2>2. Fields!Base(i) = 256 * Fields!Base(i - 1) /\ Fields!Base(i - 1) \in Nat
    BY <2>1, BaseIs
  <2>3. g[i] = g[i - 1] * 256 + in[i] /\ in[i] \in 0..255
    BY <1>1
  <2>5. g[i - 1] * 256 + in[i] \in Nat /\ g[i - 1] * 256 + in[i] < 256 * Fields!Base(i - 1)
    BY ONLY <2>1, <2>2, <2>3, OneMore
  <2> QED BY <2>1, <2>2, <2>3, <2>5, Zenon
<1>4. n \in T
  <2> HIDE DEF T
  <2>1. \A i \in 0..n : i \in T
    BY <1>2, <1>3, Upward
  <2> QED BY <2>1
<1> QED BY <1>1, <1>4

\* The octets of an integer.
LEMMA AddType ==
  ASSUME NEW v \in Int, NEW n \in Nat
  PROVE  /\ Fields!add(v, n) \in Seq(0..255) /\ Len(Fields!add(v, n)) = n
         /\ \A i \in 1..n : Fields!add(v, n)[i] = (v \div Fields!Base(n - i)) % 256
<1> DEFINE a == Fields!add(v, n)
<1>1. ASSUME NEW i \in 1..n PROVE (v \div Fields!Base(n - i)) % 256 \in 0..255
  <2>1. n - i \in Nat
    OBVIOUS
  <2>2. Fields!Base(n - i) \in Nat /\ Fields!Base(n - i) > 0
    BY <2>1, BaseIs
  <2>3. v \div Fields!Base(n - i) \in Int
    BY <2>2, DivMod
  <2> HIDE DEF a
  <2> QED BY <2>3
<1>2. a = [i \in 1..n |-> (v \div Fields!Base(n - i)) % 256]
  BY DEF Fields!add
<1> HIDE DEF a
<1>3. a \in [1..n -> 0..255] /\ \A i \in 1..n : a[i] = (v \div Fields!Base(n - i)) % 256
  BY <1>1, <1>2
<1>4. a \in Seq(0..255) /\ Len(a) = n
  BY <1>3
<1> QED BY <1>3, <1>4 DEF a

\* An integer that is written is read modulo the number of values of its octets.
LEMMA AddUint ==
  ASSUME NEW v \in Int, NEW n \in Nat, NEW in, \A i \in 1..n : in[i] = Fields!add(v, n)[i]
  PROVE  Fields!nextUint(in, n) = v % Fields!Base(n)
<1>1. PICK g : /\ Fields!nextUint(in, n) = g[n] /\ g[0] = 0
               /\ \A i \in 1..n : g[i] = g[i - 1] * 256 + in[i]
  BY UintPick, ZenonT(60)
<1> DEFINE W(i) == v \div Fields!Base(n - i)
           T == {i \in 0..n : g[i] = W(i) % Fields!Base(i)}
<1>0. ASSUME NEW i \in 0..n PROVE W(i) \in Int /\ n - i \in Nat
  <2>1. n - i \in Nat
    OBVIOUS
  <2>2. Fields!Base(n - i) \in Nat /\ Fields!Base(n - i) > 0
    BY <2>1, BaseIs
  <2> QED BY <2>1, <2>2, DivMod
<1>2. 0 \in T
  <2>1. W(0) \in Int
    BY <1>0
  <2> HIDE DEF W
  <2>2. W(0) % 1 = 0
    BY <2>1
  <2> QED BY <1>1, <2>2, BaseIs
<1>3. \A i \in 1..n : i - 1 \in T => i \in T
  <2> SUFFICES ASSUME NEW i \in 1..n, i - 1 \in T PROVE i \in T
    OBVIOUS
  <2>1. i \in Nat \ {0} /\ i \in 0..n /\ i - 1 \in Nat /\ i - 1 \in 0..n /\ n - i \in Nat
        /\ n - (i - 1) = (n - i) + 1
    OBVIOUS
  <2>2. Fields!Base(i) = 256 * Fields!Base(i - 1) /\ Fields!Base(i - 1) \in Nat /\ Fields!Base(i - 1) > 0
    BY <2>1, BaseIs
  <2>3. Fields!Base(n - (i - 1)) = 256 * Fields!Base(n - i) /\ Fields!Base(n - i) \in Nat
        /\ Fields!Base(n - i) > 0
    <3> DEFINE m == n - i
    <3> HIDE DEF m
    <3>1. m \in Nat /\ n - i = m /\ n - (i - 1) = m + 1
      BY ONLY <2>1 DEF m
    <3>2. Fields!Base(m + 1) = 256 * Fields!Base(m) /\ Fields!Base(m) \in Nat /\ Fields!Base(m) > 0
      BY ONLY <3>1, BaseIs, BaseNext, SMTT(60)
    <3> QED BY ONLY <3>1, <3>2, Zenon
  <2>4. W(i - 1) = W(i) \div 256
    BY <2>3, DivStep
  <2>5. in[i] = W(i) % 256
    BY AddType
  <2>6. g[i] = g[i - 1] * 256 + in[i] /\ g[i - 1] = W(i - 1) % Fields!Base(i - 1)
    BY <1>1
  <2>7. W(i) \in Int
    BY <1>0, <2>1
  <2> HIDE DEF W
  <2>8. ((W(i) \div 256) % Fields!Base(i - 1)) * 256 + (W(i) % 256) = W(i) % (256 * Fields!Base(i - 1))
    BY <2>2, <2>7, ModStep
  <2>9. g[i] = W(i) % Fields!Base(i)
    <3>1. g[i - 1] = (W(i) \div 256) % Fields!Base(i - 1)
      BY ONLY <2>4, <2>6, Zenon
    <3> DEFINE hi == (W(i) \div 256) % Fields!Base(i - 1)
               lo == W(i) % 256
               all == W(i) % (256 * Fields!Base(i - 1))
    <3>2. g[i - 1] = hi /\ in[i] = lo /\ hi * 256 + lo = all
      BY ONLY <2>5, <2>8, <3>1
    <3>3. all = W(i) % Fields!Base(i)
      BY ONLY <2>2
    <3> HIDE DEF hi, lo, all
    <3>4. g[i] = all
      BY ONLY <2>6, <3>2
    <3> QED BY ONLY <3>3, <3>4
  <2> QED BY <2>1, <2>9
<1>4. n \in T
  <2> HIDE DEF T
  <2>1. \A i \in 0..n : i \in T
    BY <1>2, <1>3, Upward
  <2> QED BY <2>1
<1>5. W(n) = v
  <2>1. n - n = 0 /\ v \div 1 = v
    OBVIOUS
  <2> QED BY <2>1, BaseIs
<1> QED BY <1>1, <1>4, <1>5

-----------------------------------------------------------------------------
(* Fields as octets.                                                       *)

\* The kinds that begin with their size.
Sized == {"ShortString", "LongString", "Nested"}

\* The classes of fields, and the widths of numbers.
LEMMA KindsAre ==
  /\ Fields!Numeric = {"Octet", "UOctet", "Short", "UShort", "Long", "ULong", "LongLong", "ULongLong",
       "Timestamp"}
  /\ DOMAIN Fields!SizeOf = Sized
  /\ \A k \in Fields!Numeric : Fields!Width[k] \in 1..8
  /\ Fields!Width["UOctet"] = 1 /\ Fields!Width["ULong"] = LongWidth
  /\ Fields!SizeOf["ShortString"] = "UOctet" /\ Fields!SizeOf["LongString"] = "ULong"
  /\ Fields!SizeOf["Nested"] = "ULong"
<1>1. /\ Fields!Numeric = {"Octet", "UOctet", "Short", "UShort", "Long", "ULong", "LongLong", "ULongLong",
           "Timestamp"}
      /\ DOMAIN Fields!SizeOf = Sized
  BY DEF Fields!Numeric, Fields!Width, Fields!SizeOf, Sized
<1>2. LongWidth \in 1..8 /\ LongLongWidth \in 1..8 /\ 1 \in 1..8 /\ 2 \in 1..8
  BY WireAssumption
<1>3. /\ Fields!Width["UOctet"] = 1 /\ Fields!Width["ULong"] = LongWidth /\ Fields!Width["Octet"] = 1
      /\ Fields!Width["Short"] = 2 /\ Fields!Width["UShort"] = 2 /\ Fields!Width["Long"] = LongWidth
      /\ Fields!Width["LongLong"] = LongLongWidth /\ Fields!Width["ULongLong"] = LongLongWidth
      /\ Fields!Width["Timestamp"] = LongLongWidth
  BY DEF Fields!Width
<1>4. /\ Fields!SizeOf["ShortString"] = "UOctet" /\ Fields!SizeOf["LongString"] = "ULong"
      /\ Fields!SizeOf["Nested"] = "ULong"
  BY DEF Fields!SizeOf
<1>5. ASSUME NEW k \in Fields!Numeric PROVE Fields!Width[k] \in 1..8
  <2>1. \/ k = "Octet" \/ k = "UOctet" \/ k = "Short" \/ k = "UShort" \/ k = "Long" \/ k = "ULong"
        \/ k = "LongLong" \/ k = "ULongLong" \/ k = "Timestamp"
    BY <1>1
  <2> QED BY ONLY <1>2, <1>3, <2>1, Zenon
<1> QED BY <1>1, <1>3, <1>4, <1>5

\* The class a value is of decides how its size is computed, how it is written and
\* how it is read.
LEMMA ClassOf ==
  ASSUME NEW f, NEW in
  PROVE  /\ f.kind \in Fields!Numeric =>
              /\ Fields!size(f) = Fields!Width[f.kind] /\ Fields!fill(f) = Fields!numericFill(f)
              /\ Fields!read(f.kind, in) = Fields!readNumeric(f.kind, in)
         /\ f.kind \in Sized =>
              /\ Fields!size(f) = Fields!Width[Fields!SizeOf[f.kind]] + Len(f.value)
              /\ Fields!fill(f) = Fields!stringFill(f)
              /\ Fields!read(f.kind, in) = Fields!readString(f.kind, in)
         /\ f.kind = "Decimal" =>
              /\ Fields!size(f) = 1 + LongWidth /\ Fields!fill(f) = Fields!decimalFill(f)
              /\ Fields!read(f.kind, in) = Fields!readDecimal(in)
         /\ f.kind = "BooleanSet" =>
              /\ Fields!size(f) = 1 /\ Fields!fill(f) = Fields!booleanFill(f)
              /\ Fields!read(f.kind, in) = Fields!readNumeric("UOctet", in)
<1> DEFINE k == f.kind
<1>0. DOMAIN Fields!SizeOf = Sized
  BY KindsAre
<1>1. k \in Fields!Numeric => k \notin Sized /\ k # "Decimal" /\ k # "BooleanSet"
  BY KindsAre DEF Sized
<1>2. k \in Sized => k \notin Fields!Numeric /\ k # "Decimal" /\ k # "BooleanSet"
  BY KindsAre DEF Sized
<1>3. k = "Decimal" => k \notin Fields!Numeric /\ k \notin Sized /\ k # "BooleanSet"
  BY KindsAre DEF Sized
<1>4. k = "BooleanSet" => k \notin Fields!Numeric /\ k \notin Sized /\ k # "Decimal"
  BY KindsAre DEF Sized
<1>5. CASE k \in Fields!Numeric
  BY <1>0, <1>1, <1>5, Zenon DEF Fields!size, Fields!fill, Fields!read
<1>6. CASE k \in Sized
  BY <1>0, <1>2, <1>6, Zenon DEF Fields!size, Fields!fill, Fields!read
<1>7. CASE k = "Decimal"
  BY <1>0, <1>3, <1>7, Zenon DEF Fields!size, Fields!fill, Fields!read
<1>8. CASE k = "BooleanSet"
  BY <1>0, <1>4, <1>8, Zenon DEF Fields!size, Fields!fill, Fields!read
<1> QED BY <1>5, <1>6, <1>7, <1>8, Zenon

\* The values of an octet.
Octets == 0..255

\* The rest of a small number: itself, or what complements it when it is negative.
LEMMA ModSmall ==
  ASSUME NEW v, NEW B, v \in Int, B \in Nat, B > 0
  PROVE  /\ 0 <= v /\ v < B => v % B = v
         /\ v < 0 /\ -B <= v => v % B = v + B
<1>1. v = (v \div B) * B + (v % B) /\ v % B \in 0..(B - 1) /\ v \div B \in Int
  BY DivMod
<1>2. ASSUME 0 <= v, v < B PROVE v % B = v
  <2>1. (v \div B) * B + (v % B) = 0 * B + v /\ v \in 0..(B - 1) /\ 0 \in Int /\ v % B \in Int
    BY <1>1, <1>2
  <2> QED BY ONLY <1>1, <2>1, B \in Nat, B > 0, v \in Int, ModUnique
<1>3. ASSUME v < 0, -B <= v PROVE v % B = v + B
  <2>1. (v \div B) * B + (v % B) = (-1) * B + (v + B) /\ v + B \in 0..(B - 1) /\ -1 \in Int
        /\ v % B \in Int /\ v + B \in Int
    BY <1>1, <1>3
  <2> QED BY ONLY <1>1, <2>1, B \in Nat, B > 0, v \in Int, ModUnique
<1> QED BY <1>2, <1>3

\* The half of the values of n octets.
Half(n) == 128 * Fields!Base(n - 1)

\* The numbers that the octets of a class can tell.
InRange(k, v) ==
  /\ v \in Int
  /\ IF k \in Fields!Signed THEN -Half(Fields!Width[k]) <= v /\ v < Half(Fields!Width[k])
     ELSE 0 <= v /\ v < Fields!Base(Fields!Width[k])

\* A power of 256 is even.
LEMMA HalfIs ==
  ASSUME NEW n \in Nat \ {0}
  PROVE  Half(n) \in Nat /\ Fields!Base(n) = 2 * Half(n) /\ Fields!Base(n) \in Nat /\ Fields!Base(n) > 0
         /\ Half(n) > 0
<1>1. Fields!Base(n) = 256 * Fields!Base(n - 1) /\ n - 1 \in Nat
  BY BaseIs
<1>2. Fields!Base(n - 1) \in Nat /\ Fields!Base(n - 1) > 0
  BY <1>1, BaseIs
<1> QED BY <1>1, <1>2, SMT DEF Half

\* The number of n octets with the sign.
SignedOf(u, n) == IF u >= Half(n) THEN u - Fields!Base(n) ELSE u

\* numericFrom, in its two cases: signed and unsigned.
LEMMA NumericFromIs ==
  ASSUME NEW k, NEW in
  PROVE  Fields!numericFrom(k, in) = IF k \in Fields!Signed
         THEN SignedOf(Fields!nextUint(in, Fields!Width[k]), Fields!Width[k])
                                     ELSE Fields!nextUint(in, Fields!Width[k])
  BY SMT DEF Fields!numericFrom, Fields!nextInt, SignedOf, Half

\* The number that is written is the number that is read.
LEMMA SignKept ==
  ASSUME NEW k, k \in Fields!Numeric, NEW v, InRange(k, v), NEW u, u = v % Fields!Base(Fields!Width[k])
  PROVE  v = IF k \in Fields!Signed THEN SignedOf(u, Fields!Width[k]) ELSE u
<1> DEFINE n == Fields!Width[k]
<1>1. n \in Nat \ {0}
  BY KindsAre
<1> HIDE DEF n
<1>2. /\ Half(n) \in Nat /\ Fields!Base(n) = 2 * Half(n) /\ Fields!Base(n) \in Nat /\ Fields!Base(n) > 0
      /\ Half(n) > 0
  BY <1>1, HalfIs
<1> DEFINE H == Half(n)
           B == Fields!Base(n)
<1>3. v \in Int /\ u = v % B
  BY DEF InRange, n
<1>4. /\ 0 <= v /\ v < B => v % B = v
      /\ v < 0 /\ -B <= v => v % B = v + B
  BY ONLY <1>2, <1>3, ModSmall
<1>5. CASE k \in Fields!Signed
  <2>1. -H <= v /\ v < H
    BY <1>5 DEF InRange, n
  <2>2. u = IF v < 0 THEN v + B ELSE v
    <3> HIDE DEF H, B
    <3>1. H \in Nat /\ B = 2 * H
      BY <1>2 DEF H, B
    <3> QED BY <1>3, <1>4, <2>1, <3>1
  <2>3. v = SignedOf(u, n)
    <3>1. SignedOf(u, n) = IF u >= H THEN u - B ELSE u
      BY DEF SignedOf
    <3>2. H \in Nat /\ B = 2 * H
      BY <1>2
    <3> HIDE DEF H, B
    <3> QED BY <1>3, <2>1, <2>2, <3>1, <3>2
  <2> QED BY <1>5, <2>3 DEF n
<1>6. CASE k \notin Fields!Signed
  <2>1. 0 <= v /\ v < B
    BY <1>6 DEF InRange, n
  <2> QED BY <1>3, <1>4, <1>6, <2>1 DEF n
<1> QED BY <1>5, <1>6

\* A number in its range is read as it was written.
LEMMA NumericReads ==
  ASSUME NEW k, k \in Fields!Numeric, NEW v, InRange(k, v), NEW rest, rest \in Seq(Octets),
         NEW in, in = Fields!add(v, Fields!Width[k]) \o rest
  PROVE  Fields!readNumeric(k, in) = Fields!Got(v, rest) /\ in \in Seq(Octets)
<1> DEFINE n == Fields!Width[k]
           a == Fields!add(v, n)
<1>1. n \in Nat \ {0} /\ v \in Int
  <2>1. \A j \in Fields!Numeric : Fields!Width[j] \in 1..8
    BY KindsAre, Zenon
  <2>2. n \in 1..8
    BY <2>1, Zenon
  <2>3. v \in Int
    BY Zenon DEF InRange
  <2> HIDE DEF n
  <2> QED BY ONLY <2>2, <2>3
<1> HIDE DEF n
<1>2. a \in Seq(Octets) /\ Len(a) = n
  BY <1>1, AddType DEF Octets
<1>3. /\ in \in Seq(Octets) /\ Len(in) = n + Len(rest) /\ Len(rest) \in Nat
      /\ \A i \in 1..n : in[i] = a[i]
  <2> HIDE DEF a
  <2>1. in = a \o rest
    BY DEF a, n
  <2>2. /\ a \o rest \in Seq(Octets) /\ Len(a \o rest) = Len(a) + Len(rest) /\ Len(rest) \in Nat
        /\ \A i \in 1..Len(a) : (a \o rest)[i] = a[i]
    BY ONLY <1>2, rest \in Seq(Octets), CatType
  <2> QED BY ONLY <1>2, <2>1, <2>2, Zenon
<1>4. Fields!Rest(in, n) = rest
  <2> HIDE DEF a
  <2>1. in = a \o rest
    BY DEF a, n
  <2>2. SubSeq(a \o rest, Len(a) + 1, Len(a \o rest)) = rest
    BY ONLY <1>2, rest \in Seq(Octets), CutFront
  <2> QED BY <1>2, <2>1, <2>2, Zenon DEF Fields!Rest
<1>5. Fields!nextUint(in, n) = v % Fields!Base(n)
  BY <1>1, <1>3, AddUint
<1>6. Fields!numericFrom(k, in) = v
  <2>1. v = IF k \in Fields!Signed THEN SignedOf(Fields!nextUint(in, n), n) ELSE Fields!nextUint(in, n)
    BY <1>5, SignKept DEF n
  <2> QED BY <2>1, NumericFromIs, Zenon DEF n
<1>7. ~(Len(in) < n)
  BY <1>1, <1>3
<1> QED BY <1>3, <1>4, <1>6, <1>7, Zenon DEF Fields!readNumeric, n

\* A number that is read is in range.
LEMMA NumericInRange ==
  ASSUME NEW k, k \in Fields!Numeric, NEW in, in \in Seq(Octets), Len(in) >= Fields!Width[k]
  PROVE  /\ InRange(k, Fields!numericFrom(k, in))
         /\ Fields!Rest(in, Fields!Width[k]) \in Seq(Octets)
<1> DEFINE n == Fields!Width[k]
           u == Fields!nextUint(in, n)
<1>1. n \in Nat \ {0} /\ Len(in) \in Nat /\ Len(in) >= n /\ n \in Nat
  BY KindsAre
<1> HIDE DEF n
<1>2. u \in Nat /\ u < Fields!Base(n)
  <2>0. \A i \in 1..n : in[i] \in Octets
    BY <1>1
  <2>1. \A i \in 1..n : in[i] \in 0..255
    BY <2>0, Zenon DEF Octets
  <2> QED BY <1>1, <2>1, UintBound
<1>3. Half(n) \in Nat /\ Fields!Base(n) = 2 * Half(n)
  BY <1>1, HalfIs
<1>4. Fields!numericFrom(k, in) = IF k \in Fields!Signed THEN SignedOf(u, n) ELSE u
  BY NumericFromIs DEF n
<1> HIDE DEF u
<1>5. InRange(k, Fields!numericFrom(k, in))
  <2>1. CASE k \in Fields!Signed
    <3>1. /\ SignedOf(u, n) \in Int /\ -Half(n) <= SignedOf(u, n) /\ SignedOf(u, n) < Half(n)
      BY <1>2, <1>3 DEF SignedOf
    <3> QED BY <1>4, <2>1, <3>1, Zenon DEF InRange, n
  <2>2. CASE k \notin Fields!Signed
    <3>1. u \in Int /\ 0 <= u /\ u < Fields!Base(n)
      BY <1>2
    <3> QED BY <1>4, <2>2, <3>1, Zenon DEF InRange, n
  <2> QED BY <2>1, <2>2
<1>6. Fields!Rest(in, n) \in Seq(Octets)
  <2>1. n + 1 \in Nat \ {0} /\ Len(in) \in 0..Len(in)
    BY <1>1
  <2> QED BY <2>1, SubType DEF Fields!Rest
<1> QED BY <1>5, <1>6 DEF n

\* The octets that tell the size of a string.
Prefix(k) == Fields!Width[Fields!SizeOf[k]]

\* The values that a class can write, and of those the ones that are read back: the
\* others have a size, or a sign, that its octets cannot tell.
Holds(k, v) ==
  /\ k \in Fields!Numeric => v \in Int
  /\ k \in Sized => v \in Seq(Octets)
  /\ k = "Decimal" => v.places \in Int /\ v.number \in Int
  /\ k = "BooleanSet" => v \in Octets

\* The values of kind k that are read as they were written.
Told(k, v) ==
  /\ k \in Fields!Numeric => InRange(k, v)
  /\ k \in Sized => v \in Seq(Octets) /\ Len(v) < Fields!Base(Prefix(k))
  /\ k = "Decimal" => /\ v = [places |-> v.places, number |-> v.number]
                      /\ InRange("UOctet", v.places) /\ InRange("ULong", v.number)
  /\ k = "BooleanSet" => v \in Octets

\* The kinds that are not made of other fields.
Classes == Fields!Numeric \cup Sized \cup {"Decimal", "BooleanSet"}

\* The size in front of a field is an unsigned number.
LEMMA PrefixIs ==
  ASSUME NEW k \in Sized
  PROVE  /\ Fields!SizeOf[k] \in {"UOctet", "ULong"} /\ Fields!SizeOf[k] \in Fields!Numeric
         /\ Fields!SizeOf[k] \notin Fields!Signed
         /\ Prefix(k) \in Nat \ {0} /\ Prefix(k) \in 1..8
<1>1. k = "ShortString" \/ k = "LongString" \/ k = "Nested"
  BY DEF Sized
<1>2. Fields!SizeOf[k] \in {"UOctet", "ULong"}
  BY <1>1, KindsAre
<1>3. Fields!SizeOf[k] \in Fields!Numeric /\ Fields!SizeOf[k] \notin Fields!Signed
  BY <1>2, KindsAre DEF Fields!Signed
<1>4. Prefix(k) \in 1..8
  BY <1>3, KindsAre DEF Prefix
<1> QED BY <1>2, <1>3, <1>4

\* A size that its octets can tell.
LEMMA SizeInRange ==
  ASSUME NEW k \in Sized, NEW n \in Nat
  PROVE  InRange(Fields!SizeOf[k], n) <=> n < Fields!Base(Prefix(k))
<1>1. Fields!SizeOf[k] \notin Fields!Signed
  BY PrefixIs
<1>2. n \in Int /\ 0 <= n
  OBVIOUS
<1> QED BY <1>1, <1>2, Zenon DEF InRange, Prefix

\* An unsigned octet is an octet.
LEMMA OctetInRange == ASSUME NEW v PROVE InRange("UOctet", v) <=> v \in Octets
<1>1. "UOctet" \notin Fields!Signed
  BY DEF Fields!Signed
<1>2. Fields!Width["UOctet"] = 1 /\ Fields!Base(1) = 256
  BY KindsAre, BaseIs
<1>3. InRange("UOctet", v) <=> v \in Int /\ 0 <= v /\ v < 256
  BY <1>1, <1>2 DEF InRange
<1> QED BY <1>3 DEF Octets

\* add() writes as many octets as the width asks for.
LEMMA AddOctets ==
  ASSUME NEW v, NEW n, v \in Int, n \in Nat
  PROVE  Fields!add(v, n) \in Seq(Octets) /\ Len(Fields!add(v, n)) = n
  BY AddType DEF Octets

\* An octet is written as itself.
LEMMA AddOne == ASSUME NEW v, v \in Octets PROVE Fields!add(v, 1) = <<v>>
<1>1. v \in Int /\ v \in 0..255 /\ 1 \in Nat
  BY DEF Octets
<1> DEFINE n == 1
           a == Fields!add(v, n)
<1>2. a \in Seq(0..255) /\ Len(a) = n /\ \A i \in 1..n : a[i] = (v \div Fields!Base(n - i)) % 256
  <2>1. n \in Nat
    OBVIOUS
  <2> HIDE DEF n
  <2> QED BY <1>1, <2>1, AddType
<1> HIDE DEF a
<1>3. a[1] = (v \div Fields!Base(0)) % 256 /\ Fields!Base(0) = 1
  BY <1>2, BaseIs
<1>4. a[1] = v
  BY <1>1, <1>3
<1>5. a = <<v>>
  BY <1>2, <1>4
<1> QED BY <1>5 DEF a

\* fill() writes octets, as many as size() says.
LEMMA FillType ==
  ASSUME NEW f, f.kind \in Classes, Holds(f.kind, f.value)
  PROVE  Fields!fill(f) \in Seq(Octets) /\ Len(Fields!fill(f)) = Fields!size(f) /\ Fields!size(f) \in Nat
<1>1. CASE f.kind \in Fields!Numeric
  <2>1. Fields!Width[f.kind] \in Nat /\ f.value \in Int
    BY <1>1, KindsAre DEF Holds
  <2>2. Fields!numericFill(f) \in Seq(Octets) /\ Len(Fields!numericFill(f)) = Fields!Width[f.kind]
    BY <2>1, AddOctets, Zenon DEF Fields!numericFill
  <2>3. Fields!size(f) = Fields!Width[f.kind] /\ Fields!fill(f) = Fields!numericFill(f)
    BY <1>1, ClassOf, Zenon
  <2> QED BY <2>1, <2>2, <2>3, Zenon
<1>2. CASE f.kind \in Sized
  <2> DEFINE n == Prefix(f.kind)
             v == f.value
             a == Fields!add(Len(v), n)
  <2>1. n \in Nat /\ v \in Seq(Octets) /\ Len(v) \in Int /\ Len(v) \in Nat
    BY <1>2, PrefixIs DEF Holds
  <2> HIDE DEF n
  <2>2. a \in Seq(Octets) /\ Len(a) = n
    BY <2>1, AddType DEF Octets
  <2>3. Fields!stringFill(f) = a \o v
    BY DEF Fields!stringFill, Prefix, n
  <2> HIDE DEF a, v
  <2>4. a \o v \in Seq(Octets) /\ Len(a \o v) = Len(a) + Len(v)
    BY ONLY <2>1, <2>2, CatType
  <2>5. Fields!size(f) = n + Len(v) /\ Fields!fill(f) = Fields!stringFill(f)
    BY <1>2, ClassOf, Zenon DEF Prefix, n, v
  <2>6. n + Len(v) \in Nat
    BY <2>1
  <2> QED BY <2>2, <2>3, <2>4, <2>5, <2>6, Zenon
<1>3. CASE f.kind = "Decimal"
  <2> DEFINE a == Fields!add(f.value.places, 1)
             b == Fields!add(f.value.number, LongWidth)
  <2>1. LongWidth \in Nat /\ f.value.places \in Int /\ f.value.number \in Int
    BY <1>3, WireAssumption DEF Holds
  <2>2. a \in Seq(Octets) /\ Len(a) = 1 /\ b \in Seq(Octets) /\ Len(b) = LongWidth
    <3>1. 1 \in Nat
      OBVIOUS
    <3> QED BY <2>1, <3>1, AddOctets, Zenon
  <2>3. Fields!decimalFill(f) = a \o b
    BY DEF Fields!decimalFill
  <2> HIDE DEF a, b
  <2>4. a \o b \in Seq(Octets) /\ Len(a \o b) = Len(a) + Len(b)
    BY ONLY <2>2, CatType
  <2>5. Fields!size(f) = 1 + LongWidth /\ Fields!fill(f) = Fields!decimalFill(f)
    BY <1>3, ClassOf, Zenon
  <2>6. 1 + LongWidth \in Nat
    BY <2>1
  <2> QED BY <2>2, <2>3, <2>4, <2>5, <2>6, Zenon
<1>4. CASE f.kind = "BooleanSet"
  <2>1. f.value \in Octets
    BY <1>4, Zenon DEF Holds
  <2>2. Fields!booleanFill(f) \in Seq(Octets) /\ Len(Fields!booleanFill(f)) = 1
    BY <2>1 DEF Fields!booleanFill
  <2>3. Fields!size(f) = 1 /\ Fields!fill(f) = Fields!booleanFill(f)
    BY <1>4, ClassOf, Zenon
  <2>4. 1 \in Nat
    OBVIOUS
  <2> QED BY <2>2, <2>3, <2>4, Zenon
<1> QED BY <1>1, <1>2, <1>3, <1>4, Zenon DEF Classes

\* What is told of a value is enough to read it, whatever follows.
LEMMA SizedReads ==
  ASSUME NEW k, k \in Sized, NEW v, Told(k, v), NEW rest, rest \in Seq(Octets), NEW in,
         in = (Fields!add(Len(v), Prefix(k)) \o v) \o rest
  PROVE  Fields!readString(k, in) = Fields!Got(v, rest)
<1> DEFINE a == Fields!add(Len(v), Prefix(k))
           c == v \o rest
<1>1. v \in Seq(Octets) /\ Len(v) \in Nat /\ Len(v) < Fields!Base(Prefix(k)) /\ Prefix(k) \in Nat
  BY PrefixIs DEF Told
<1>2. a \in Seq(Octets)
  <2>1. Len(v) \in Int
    BY <1>1
  <2> QED BY <1>1, <2>1, AddType DEF Octets
<1>3. InRange(Fields!SizeOf[k], Len(v)) /\ Fields!SizeOf[k] \in Fields!Numeric
  BY <1>1, SizeInRange, PrefixIs
<1>4. in = a \o c
  <2> HIDE DEF a
  <2>1. in = (a \o v) \o rest
    BY DEF a
  <2>2. (a \o v) \o rest = a \o (v \o rest)
    BY ONLY <1>1, <1>2, rest \in Seq(Octets), ConcatAssociative, SMTT(60)
  <2> QED BY <2>1, <2>2
<1>5. c \in Seq(Octets) /\ Len(c) = Len(v) + Len(rest) /\ Len(rest) \in Nat
  BY <1>1, CatType
<1>6. SubSeq(c, 1, Len(v)) = v /\ SubSeq(c, Len(v) + 1, Len(c)) = rest
  BY <1>1, CutFront
<1> DEFINE n == Len(v)
<1> HIDE DEF a, c, n
<1>7. Fields!readNumeric(Fields!SizeOf[k], in) = Fields!Got(n, c)
  <2>1. in = Fields!add(n, Fields!Width[Fields!SizeOf[k]]) \o c
    BY <1>4 DEF a, Prefix, n
  <2>2. InRange(Fields!SizeOf[k], n)
    BY <1>3 DEF n
  <2> DEFINE t == Fields!SizeOf[k]
  <2>3. t \in Fields!Numeric /\ InRange(t, n) /\ c \in Seq(Octets) /\ in = Fields!add(n, Fields!Width[t]) \o c
    BY ONLY <1>3, <1>5, <2>1, <2>2
  <2> HIDE DEF t
  <2>4. Fields!readNumeric(t, in) = Fields!Got(n, c)
    BY ONLY <2>3, NumericReads, Zenon
  <2> QED BY ONLY <2>4 DEF t
<1> DEFINE s == Fields!Got(n, c)
<1>8. s.ok /\ s.value = Len(v) /\ s.rest = c
  BY DEF Fields!Got, n
<1> HIDE DEF s
<1>9. ~(Len(s.rest) < s.value)
  BY <1>1, <1>5, <1>8
<1>10. Fields!Cut(s) = Fields!Got(v, rest)
  BY <1>6, <1>8, <1>9, Zenon DEF Fields!Cut, Fields!Rest
<1> QED BY <1>7, <1>10, Zenon DEF Fields!readString, s

\* A decimal is read as it was written.
LEMMA DecimalReads ==
  ASSUME NEW v, Told("Decimal", v), NEW rest, rest \in Seq(Octets), NEW in,
         in = (Fields!add(v.places, 1) \o Fields!add(v.number, LongWidth)) \o rest
  PROVE  Fields!readDecimal(in) = Fields!Got(v, rest)
<1> DEFINE a == Fields!add(v.places, 1)
           b == Fields!add(v.number, LongWidth)
           c == b \o rest
<1>1. InRange("UOctet", v.places) /\ InRange("ULong", v.number)
      /\ v = [places |-> v.places, number |-> v.number]
  BY Zenon DEF Told
<1>2. Fields!Width["UOctet"] = 1 /\ Fields!Width["ULong"] = LongWidth
  BY KindsAre
<1>3. "UOctet" \in Fields!Numeric /\ "ULong" \in Fields!Numeric /\ LongWidth \in Nat
  BY KindsAre, WireAssumption
<1>4. a \in Seq(Octets) /\ b \in Seq(Octets)
  <2>1. v.places \in Int /\ v.number \in Int
    BY <1>1, Zenon DEF InRange
  <2>2. 1 \in Nat /\ LongWidth \in Nat
    BY <1>3
  <2> QED BY ONLY <2>1, <2>2, AddOctets, Zenon
<1>5. Fields!readNumeric("ULong", c) = Fields!Got(v.number, rest) /\ c \in Seq(Octets)
  <2>1. c = Fields!add(v.number, Fields!Width["ULong"]) \o rest
    BY <1>2, Zenon
  <2> HIDE DEF c
  <2> QED BY ONLY <1>1, <1>3, <2>1, rest \in Seq(Octets), NumericReads
<1>6. in = a \o c
  <2> HIDE DEF a, b
  <2>1. in = (a \o b) \o rest
    BY DEF a, b
  <2>2. (a \o b) \o rest = a \o (b \o rest)
    BY ONLY <1>4, rest \in Seq(Octets), ConcatAssociative, SMTT(60)
  <2> QED BY <2>1, <2>2
<1> HIDE DEF c
<1>7. Fields!readNumeric("UOctet", in) = Fields!Got(v.places, c)
  <2> DEFINE p == v.places
             k == "UOctet"
  <2>1. in = Fields!add(p, Fields!Width[k]) \o c
    BY <1>2, <1>6, Zenon
  <2>2. InRange(k, p) /\ k \in Fields!Numeric
    BY <1>1, <1>3, Zenon
  <2> HIDE DEF p, k
  <2>4. c \in Seq(Octets)
    BY <1>5
  <2>3. Fields!readNumeric(k, in) = Fields!Got(p, c)
    BY ONLY <2>1, <2>2, <2>4, NumericReads
  <2> QED BY <2>3, Zenon DEF p, k
<1>8. /\ Fields!Got(v.places, c).rest = c /\ Fields!Got(v.places, c).value = v.places
      /\ Fields!Got(v.places, c).ok
      /\ Fields!Got(v.number, rest).rest = rest /\ Fields!Got(v.number, rest).value = v.number
      /\ Fields!Got(v.number, rest).ok
  BY DEF Fields!Got
<1> QED BY <1>1, <1>5, <1>7, <1>8, Zenon DEF Fields!readDecimal

\* A field that is written is read as the same field, whatever follows.
LEMMA FieldReads ==
  ASSUME NEW f, NEW rest, NEW in, f.kind \in Classes, Told(f.kind, f.value), rest \in Seq(Octets),
         in = Fields!fill(f) \o rest
  PROVE  Fields!read(f.kind, in) = Fields!Got(f.value, rest)
<1>1. CASE f.kind \in Fields!Numeric
  <2>1. in = Fields!add(f.value, Fields!Width[f.kind]) \o rest
    BY <1>1, ClassOf, Zenon DEF Fields!numericFill
  <2>2. InRange(f.kind, f.value)
    BY <1>1, Zenon DEF Told
  <2>3. Fields!readNumeric(f.kind, in) = Fields!Got(f.value, rest)
    BY ONLY <1>1, <2>1, <2>2, rest \in Seq(Octets), NumericReads
  <2> QED BY <1>1, <2>3, ClassOf, Zenon
<1>2. CASE f.kind \in Sized
  <2>1. in = (Fields!add(Len(f.value), Prefix(f.kind)) \o f.value) \o rest
    BY <1>2, ClassOf, Zenon DEF Fields!stringFill, Prefix
  <2>2. Fields!readString(f.kind, in) = Fields!Got(f.value, rest)
    BY <1>2, <2>1, SizedReads
  <2> QED BY <1>2, <2>2, ClassOf, Zenon
<1>3. CASE f.kind = "Decimal"
  <2>1. in = (Fields!add(f.value.places, 1) \o Fields!add(f.value.number, LongWidth)) \o rest
    BY <1>3, ClassOf, Zenon DEF Fields!decimalFill
  <2>2. Fields!readDecimal(in) = Fields!Got(f.value, rest)
    <3>1. Told("Decimal", f.value)
      BY <1>3, Zenon
    <3> QED BY ONLY <2>1, <3>1, rest \in Seq(Octets), DecimalReads
  <2> QED BY <1>3, <2>2, ClassOf, Zenon
<1>4. CASE f.kind = "BooleanSet"
  <2> DEFINE v == f.value
  <2>1. v \in Octets /\ InRange("UOctet", v) /\ "UOctet" \in Fields!Numeric
    <3>1. v \in Octets
      BY <1>4, Zenon DEF Told
    <3> QED BY <3>1, OctetInRange, KindsAre
  <2>2. Fields!add(v, Fields!Width["UOctet"]) = <<v>>
    <3>1. Fields!Width["UOctet"] = 1
      BY KindsAre
    <3> QED BY <2>1, <3>1, AddOne, Zenon
  <2>3. in = Fields!add(v, Fields!Width["UOctet"]) \o rest
    BY <1>4, <2>2, ClassOf, Zenon DEF Fields!booleanFill
  <2> HIDE DEF v
  <2>4. Fields!readNumeric("UOctet", in) = Fields!Got(v, rest)
    BY ONLY <2>1, <2>3, rest \in Seq(Octets), NumericReads
  <2> QED BY <1>4, <2>4, ClassOf, Zenon DEF v
<1> QED BY <1>1, <1>2, <1>3, <1>4, Zenon DEF Classes

\* What could not be read is not read.
LEMMA BadIs == ~Fields!Bad.ok
  BY DEF Fields!Bad

\* A number that was read can be written and read again.
LEMMA NumericTold ==
  ASSUME NEW k, k \in Fields!Numeric, NEW in, in \in Seq(Octets), NEW r, r = Fields!readNumeric(k, in), r.ok
  PROVE  InRange(k, r.value) /\ r.rest \in Seq(Octets)
<1>1. ~(Len(in) < Fields!Width[k])
  BY BadIs, Zenon DEF Fields!readNumeric
<1> DEFINE v == Fields!numericFrom(k, in)
           t == Fields!Rest(in, Fields!Width[k])
<1>2. Len(in) >= Fields!Width[k]
  <2>1. Fields!Width[k] \in Nat /\ Len(in) \in Nat
    BY KindsAre
  <2> QED BY <1>1, <2>1
<1>3. InRange(k, v) /\ t \in Seq(Octets)
  BY <1>2, NumericInRange
<1>4. r = Fields!Got(v, t)
  BY <1>1, Zenon DEF Fields!readNumeric
<1> HIDE DEF v, t
<1>5. r.value = v /\ r.rest = t
  BY <1>4 DEF Fields!Got
<1> QED BY <1>3, <1>5, Zenon

\* A string that was read is no longer than its prefix can say.
LEMMA SizedTold ==
  ASSUME NEW k, k \in Sized, NEW in, in \in Seq(Octets), NEW r, r = Fields!readString(k, in), r.ok
  PROVE  r.value \in Seq(Octets) /\ Len(r.value) < Fields!Base(Prefix(k)) /\ r.rest \in Seq(Octets)
<1> DEFINE s == Fields!readNumeric(Fields!SizeOf[k], in)
           n == s.value
           t == s.rest
<1>1. s.ok /\ ~(Len(t) < n)
  BY BadIs, Zenon DEF Fields!readString, Fields!Cut
<1>2. InRange(Fields!SizeOf[k], n) /\ t \in Seq(Octets)
  <2> HIDE DEF n, t
  <2>1. InRange(Fields!SizeOf[k], s.value) /\ s.rest \in Seq(Octets)
    BY <1>1, PrefixIs, NumericTold
  <2> QED BY <2>1 DEF n, t
<1>3. r = Fields!Got(SubSeq(t, 1, n), Fields!Rest(t, n))
  BY <1>1, Zenon DEF Fields!readString, Fields!Cut
<1> HIDE DEF n, t
<1>4. n \in Int /\ 0 <= n
  <2>1. Fields!SizeOf[k] \notin Fields!Signed
    BY PrefixIs
  <2> QED BY <1>2, <2>1, Zenon DEF InRange
<1>5. n \in Nat /\ Len(t) \in Nat /\ n <= Len(t)
  BY <1>1, <1>2, <1>4
<1>6. n < Fields!Base(Prefix(k))
  BY <1>2, <1>5, SizeInRange
<1> DEFINE a == SubSeq(t, 1, n)
           b == Fields!Rest(t, n)
<1>7. a \in Seq(Octets) /\ Len(a) = n
  <2>1. 1 \in Nat \ {0} /\ n \in 0..Len(t)
    BY <1>5
  <2>2. a \in Seq(Octets) /\ Len(a) = IF 1 <= n THEN n - 1 + 1 ELSE 0
    BY <1>2, <2>1, SubType
  <2> HIDE DEF a
  <2> QED BY <1>5, <2>2
<1>8. b \in Seq(Octets)
  <2>1. n + 1 \in Nat \ {0} /\ Len(t) \in 0..Len(t)
    BY <1>5
  <2> QED BY <1>2, <2>1, SubType DEF Fields!Rest
<1> HIDE DEF a, b
<1>9. r.value = a /\ r.rest = b
  <2>1. r = Fields!Got(a, b)
    BY <1>3, Zenon DEF a, b
  <2> QED BY <2>1 DEF Fields!Got
<1> QED BY <1>6, <1>7, <1>8, <1>9, Zenon

-----------------------------------------------------------------------------
(* Sums of sizes.                                                          *)

\* g has the sums of the first i sizes, for i up to n.
IsTotal(g, s, n) == g = [i \in 0..n |-> IF i = 0 THEN 0 ELSE g[i - 1] + s[i]]

\* The recursive function behind Total exists for every length.
LEMMA TotalExists ==
  ASSUME NEW s PROVE \A n \in Nat : \E g : IsTotal(g, s, n)
<1> DEFINE T == {n \in Nat : \E g : IsTotal(g, s, n)}
<1>1. 0 \in T
  <2> DEFINE g == [i \in 0..0 |-> 0]
  <2>1. g = [i \in 0..0 |-> IF i = 0 THEN 0 ELSE g[i - 1] + s[i]]
    OBVIOUS
  <2> QED BY <2>1 DEF IsTotal
<1>2. ASSUME NEW n \in Nat \ {0}, n - 1 \in T PROVE n \in T
  <2>1. PICK g : g = [i \in 0..(n - 1) |-> IF i = 0 THEN 0 ELSE g[i - 1] + s[i]]
    BY <1>2 DEF IsTotal
  <2> DEFINE h == [i \in 0..n |-> IF i = n THEN g[n - 1] + s[n] ELSE g[i]]
  <2>2. ASSUME NEW i \in 0..n PROVE h[i] = IF i = 0 THEN 0 ELSE h[i - 1] + s[i]
    <3>1. CASE i = n
      BY <3>1
    <3>2. CASE i # n
      BY <3>2, <2>1
    <3> QED BY <3>1, <3>2
  <2>3. h = [i \in 0..n |-> IF i = 0 THEN 0 ELSE h[i - 1] + s[i]]
    BY <2>2
  <2> QED BY <2>3 DEF IsTotal
<1>3. ASSUME NEW n \in Nat PROVE n \in T
  <2>1. \A i \in 1..n : i - 1 \in T => i \in T
    BY <1>2
  <2> HIDE DEF T
  <2>2. \A i \in 0..n : i \in T
    BY <1>1, <2>1, Upward
  <2> QED BY <2>2
<1> QED BY <1>3

\* Total adds one number after the other: its steps, without the recursive function.
LEMMA TotalPick ==
  ASSUME NEW s, Len(s) \in Nat
  PROVE  \E g : /\ Fields!Total(s) = g[Len(s)] /\ g[0] = 0
                /\ \A i \in 1..Len(s) : g[i] = g[i - 1] + s[i]
<1>1. PICK g : IsTotal(g, s, Len(s)) /\ Fields!Total(s) = g[Len(s)]
  <2>1. \E g : IsTotal(g, s, Len(s))
    BY TotalExists
  <2> QED BY <2>1 DEF IsTotal, Fields!Total
<1>2. \A i \in 0..Len(s) : g[i] = IF i = 0 THEN 0 ELSE g[i - 1] + s[i]
  BY <1>1 DEF IsTotal
<1>3. g[0] = 0
  BY <1>2
<1>4. ASSUME NEW i \in 1..Len(s) PROVE g[i] = g[i - 1] + s[i]
  <2>1. i \in 0..Len(s) /\ i # 0
    OBVIOUS
  <2> QED BY <1>2, <2>1, Zenon
<1> QED BY <1>1, <1>3, <1>4, Zenon

\* The octets of several sequences are as many as the sum of their lengths.
LEMMA LenAll ==
  ASSUME NEW s, s \in Seq(Seq(Octets)), NEW t, t \in Seq(Nat), Len(t) = Len(s),
         \A i \in 1..Len(s) : Len(s[i]) = t[i]
  PROVE  Len(Fields!All(s)) = Fields!Total(t)
<1>0. Len(s) \in Nat /\ \A i \in 1..Len(s) : s[i] \in Seq(Octets)
  OBVIOUS
<1>1. PICK g : /\ Fields!All(s) = g[Len(s)] /\ g[0] = <<>>
               /\ \A i \in 1..Len(s) : g[i] = g[i - 1] \o s[i]
  BY <1>0, AllPick
<1>2. PICK h : /\ Fields!Total(t) = h[Len(t)] /\ h[0] = 0
               /\ \A i \in 1..Len(t) : h[i] = h[i - 1] + t[i]
  BY <1>0, TotalPick
<1> DEFINE T == {i \in Nat : g[i] \in Seq(Octets) /\ Len(g[i]) = h[i]}
<1>3. 0 \in T
  <2>1. <<>> \in Seq(Octets) /\ Len(<<>>) = 0
    OBVIOUS
  <2> QED BY <1>1, <1>2, <2>1
<1>4. \A i \in 1..Len(s) : i - 1 \in T => i \in T
  <2> SUFFICES ASSUME NEW i \in 1..Len(s), i - 1 \in T PROVE i \in T
    OBVIOUS
  <2>1. g[i - 1] \in Seq(Octets) /\ Len(g[i - 1]) = h[i - 1] /\ i \in Nat
    BY <1>0
  <2>2. s[i] \in Seq(Octets) /\ Len(s[i]) = t[i]
    BY <1>0
  <2>3. g[i] = g[i - 1] \o s[i] /\ h[i] = h[i - 1] + t[i]
    BY <1>1, <1>2, Zenon
  <2>4. g[i - 1] \o s[i] \in Seq(Octets) /\ Len(g[i - 1] \o s[i]) = Len(g[i - 1]) + Len(s[i])
    <3>1. g[i - 1] \in Seq(Octets) /\ s[i] \in Seq(Octets)
      BY <2>1, <2>2
    <3> QED BY ONLY <3>1, CatType
  <2> QED BY <2>1, <2>2, <2>3, <2>4, Zenon
<1>5. Len(s) \in T
  <2> HIDE DEF T
  <2>1. \A i \in 0..Len(s) : i \in T
    BY ONLY <1>0, <1>3, <1>4, Upward
  <2> QED BY <1>0, <2>1
<1> QED BY <1>1, <1>2, <1>5

-----------------------------------------------------------------------------
(* Bits of an octet.                                                       *)

\* The octet with the bits of x.
OctetOf(x) == x[0] + 2 * x[1] + 4 * x[2] + 8 * x[3] + 16 * x[4] + 32 * x[5] + 64 * x[6] + 128 * x[7]

\* The bits of an octet.
Bits == [0..7 -> 0..1]

\* Eight bits make an octet.
LEMMA BitsType ==
  ASSUME NEW x \in Bits
  PROVE  /\ x[0] \in 0..1 /\ x[1] \in 0..1 /\ x[2] \in 0..1 /\ x[3] \in 0..1
         /\ x[4] \in 0..1 /\ x[5] \in 0..1 /\ x[6] \in 0..1 /\ x[7] \in 0..1
         /\ OctetOf(x) \in 0..255
<1>1. /\ x[0] \in 0..1 /\ x[1] \in 0..1 /\ x[2] \in 0..1 /\ x[3] \in 0..1
      /\ x[4] \in 0..1 /\ x[5] \in 0..1 /\ x[6] \in 0..1 /\ x[7] \in 0..1
  BY DEF Bits
<1> QED BY ONLY <1>1, SMT DEF OctetOf

\* An octet has eight bits.
LEMMA HasBits == ASSUME NEW b \in 0..255 PROVE \E x \in Bits : b = OctetOf(x)
<1> DEFINE x == [i \in 0..7 |-> CASE i = 0 -> b % 2 [] i = 1 -> (b \div 2) % 2 [] i = 2 -> (b \div 4) % 2
                                  [] i = 3 -> (b \div 8) % 2 [] i = 4 -> (b \div 16) % 2
                                  [] i = 5 -> (b \div 32) % 2 [] i = 6 -> (b \div 64) % 2
                                  [] i = 7 -> (b \div 128) % 2]
<1>1. /\ x[0] = b % 2 /\ x[1] = (b \div 2) % 2 /\ x[2] = (b \div 4) % 2 /\ x[3] = (b \div 8) % 2
      /\ x[4] = (b \div 16) % 2 /\ x[5] = (b \div 32) % 2 /\ x[6] = (b \div 64) % 2 /\ x[7] = (b \div 128) % 2
  BY SMT
<1>2. DOMAIN x = 0..7 /\ x = [i \in 0..7 |-> x[i]]
  BY SMT
<1> HIDE DEF x
<1>3. b = OctetOf(x)
  BY <1>1, SMT DEF OctetOf
<1>4. \A i \in 0..7 : x[i] \in 0..1
  <2>1. /\ x[0] \in 0..1 /\ x[1] \in 0..1 /\ x[2] \in 0..1 /\ x[3] \in 0..1
        /\ x[4] \in 0..1 /\ x[5] \in 0..1 /\ x[6] \in 0..1 /\ x[7] \in 0..1
    BY <1>1, SMT
  <2>2. \A i \in 0..7 : i = 0 \/ i = 1 \/ i = 2 \/ i = 3 \/ i = 4 \/ i = 5 \/ i = 6 \/ i = 7
    BY SMT
  <2> QED BY ONLY <2>1, <2>2, Zenon
<1>5. x \in Bits
  BY <1>2, <1>4 DEF Bits
<1> QED BY <1>3, <1>5

\* The bits of an octet, one after the other.
LEMMA BitsAre ==
  ASSUME NEW x \in Bits, NEW b, b = OctetOf(x)
  PROVE  /\ (b \div 1) % 2 = x[0] /\ (b \div 2) % 2 = x[1] /\ (b \div 4) % 2 = x[2] /\ (b \div 8) % 2 = x[3]
         /\ (b \div 16) % 2 = x[4] /\ (b \div 32) % 2 = x[5] /\ (b \div 64) % 2 = x[6]
         /\ (b \div 128) % 2 = x[7]
<1> DEFINE a0 == x[0]
           a1 == x[1]
           a2 == x[2]
           a3 == x[3]
           a4 == x[4]
           a5 == x[5]
           a6 == x[6]
           a7 == x[7]
<1>1. /\ a0 \in 0..1 /\ a1 \in 0..1 /\ a2 \in 0..1 /\ a3 \in 0..1
      /\ a4 \in 0..1 /\ a5 \in 0..1 /\ a6 \in 0..1 /\ a7 \in 0..1
      /\ b = a0 + 2 * a1 + 4 * a2 + 8 * a3 + 16 * a4 + 32 * a5 + 64 * a6 + 128 * a7
  BY BitsType DEF OctetOf
<1> HIDE DEF a0, a1, a2, a3, a4, a5, a6, a7
<1>2. /\ b \div 1 = 2 * (a1 + 2 * a2 + 4 * a3 + 8 * a4 + 16 * a5 + 32 * a6 + 64 * a7) + a0
      /\ b \div 2 = 2 * (a2 + 2 * a3 + 4 * a4 + 8 * a5 + 16 * a6 + 32 * a7) + a1
      /\ b \div 4 = 2 * (a3 + 2 * a4 + 4 * a5 + 8 * a6 + 16 * a7) + a2
      /\ b \div 8 = 2 * (a4 + 2 * a5 + 4 * a6 + 8 * a7) + a3
  BY ONLY <1>1, SMT
<1>3. /\ b \div 16 = 2 * (a5 + 2 * a6 + 4 * a7) + a4
      /\ b \div 32 = 2 * (a6 + 2 * a7) + a5
      /\ b \div 64 = 2 * a7 + a6
      /\ b \div 128 = a7
  BY ONLY <1>1, SMT
<1>4. ASSUME NEW q \in Int, NEW a \in 0..1 PROVE (2 * q + a) % 2 = a
  BY ONLY <1>4, SMT
<1>5. (b \div 1) % 2 = a0 /\ (b \div 2) % 2 = a1 /\ (b \div 4) % 2 = a2 /\ (b \div 8) % 2 = a3
  BY ONLY <1>1, <1>2, SMT
<1>6. (b \div 16) % 2 = a4 /\ (b \div 32) % 2 = a5 /\ (b \div 64) % 2 = a6 /\ (b \div 128) % 2 = a7
  BY ONLY <1>1, <1>3, SMT
<1> QED BY <1>5, <1>6 DEF a0, a1, a2, a3, a4, a5, a6, a7

\* getBit() gets the bit of its number.
LEMMA BitIs ==
  ASSUME NEW x \in Bits, NEW i \in 0..7
  PROVE  Meta!getBit(OctetOf(x), i) <=> x[i] = 1
<1> DEFINE b == OctetOf(x)
<1>1. /\ (b \div 1) % 2 = x[0] /\ (b \div 2) % 2 = x[1] /\ (b \div 4) % 2 = x[2] /\ (b \div 8) % 2 = x[3]
      /\ (b \div 16) % 2 = x[4] /\ (b \div 32) % 2 = x[5] /\ (b \div 64) % 2 = x[6]
      /\ (b \div 128) % 2 = x[7]
  BY BitsAre, Zenon
<1>2. b \in Int
  BY BitsType
<1> HIDE DEF b
<1>3. /\ Meta!getBit(b, 0) <=> (b \div 1) % 2 = 1
      /\ Meta!getBit(b, 1) <=> (b \div 2) % 2 = 1
      /\ Meta!getBit(b, 2) <=> (b \div 4) % 2 = 1
      /\ Meta!getBit(b, 3) <=> (b \div 8) % 2 = 1
      /\ Meta!getBit(b, 4) <=> (b \div 16) % 2 = 1
      /\ Meta!getBit(b, 5) <=> (b \div 32) % 2 = 1
      /\ Meta!getBit(b, 6) <=> (b \div 64) % 2 = 1
      /\ Meta!getBit(b, 7) <=> (b \div 128) % 2 = 1
  BY <1>2, SMT DEF Meta!getBit
<1>4. /\ Meta!getBit(b, 0) <=> x[0] = 1
      /\ Meta!getBit(b, 1) <=> x[1] = 1
      /\ Meta!getBit(b, 2) <=> x[2] = 1
      /\ Meta!getBit(b, 3) <=> x[3] = 1
      /\ Meta!getBit(b, 4) <=> x[4] = 1
      /\ Meta!getBit(b, 5) <=> x[5] = 1
      /\ Meta!getBit(b, 6) <=> x[6] = 1
      /\ Meta!getBit(b, 7) <=> x[7] = 1
  BY ONLY <1>1, <1>3, SMT
<1>5. i = 0 \/ i = 1 \/ i = 2 \/ i = 3 \/ i = 4 \/ i = 5 \/ i = 6 \/ i = 7
  BY SMT
<1> QED BY <1>4, <1>5, Zenon DEF b

\* Setting a bit changes this bit only.
LEMMA BitSet ==
  ASSUME NEW x \in Bits, NEW i \in 0..7, NEW v \in BOOLEAN
  PROVE  Meta!setBit(OctetOf(x), i, v) = OctetOf([x EXCEPT ![i] = IF v THEN 1 ELSE 0])
<1> DEFINE e == IF v THEN 1 ELSE 0
           y == [x EXCEPT ![i] = e]
           b == OctetOf(x)
           c == OctetOf(y)
           a0 == x[0]
           a1 == x[1]
           a2 == x[2]
           a3 == x[3]
           a4 == x[4]
           a5 == x[5]
           a6 == x[6]
           a7 == x[7]
<1>0. e \in 0..1
  OBVIOUS
<1>1. /\ a0 \in 0..1 /\ a1 \in 0..1 /\ a2 \in 0..1 /\ a3 \in 0..1
      /\ a4 \in 0..1 /\ a5 \in 0..1 /\ a6 \in 0..1 /\ a7 \in 0..1
      /\ b = a0 + 2 * a1 + 4 * a2 + 8 * a3 + 16 * a4 + 32 * a5 + 64 * a6 + 128 * a7
      /\ c = y[0] + 2 * y[1] + 4 * y[2] + 8 * y[3] + 16 * y[4] + 32 * y[5] + 64 * y[6] + 128 * y[7]
  BY BitsType DEF OctetOf
<1> HIDE DEF e
<1>2. /\ y[0] = (IF i = 0 THEN e ELSE x[0]) /\ y[1] = (IF i = 1 THEN e ELSE x[1])
      /\ y[2] = (IF i = 2 THEN e ELSE x[2]) /\ y[3] = (IF i = 3 THEN e ELSE x[3])
      /\ y[4] = (IF i = 4 THEN e ELSE x[4]) /\ y[5] = (IF i = 5 THEN e ELSE x[5])
      /\ y[6] = (IF i = 6 THEN e ELSE x[6]) /\ y[7] = (IF i = 7 THEN e ELSE x[7])
  BY SMT DEF Bits
<1>3. Meta!getBit(b, i) <=> x[i] = 1
  BY BitIs
<1>4. b \in Int
  BY <1>1, SMT
<1> HIDE DEF b, c, y, a0, a1, a2, a3, a4, a5, a6, a7
<1>5. i = 0 \/ i = 1 \/ i = 2 \/ i = 3 \/ i = 4 \/ i = 5 \/ i = 6 \/ i = 7
  BY SMT
<1>6. PICK w \in Int : /\ c = b + w * (e - x[i])
                      /\ Meta!setBit(b, i, v) = IF Meta!getBit(b, i) <=> v THEN b ELSE IF v THEN b + w
                           ELSE b - w
  <2>1. CASE i = 0
    <3>0. y[0] = e /\ y[1] = a1 /\ y[2] = a2 /\ y[3] = a3 /\ y[4] = a4 /\ y[5] = a5 /\ y[6] = a6 /\ y[7] = a7
      BY <1>2, <2>1, SMT DEF a0, a1, a2, a3, a4, a5, a6, a7
    <3>3. c = e + 2 * a1 + 4 * a2 + 8 * a3 + 16 * a4 + 32 * a5 + 64 * a6 + 128 * a7
      BY <1>1, <3>0, Zenon
    <3>1. c = b + 1 * (e - a0)
      BY ONLY <1>0, <1>1, <3>3, SMT
    <3>2. Meta!setBit(b, 0, v) = IF Meta!getBit(b, 0) <=> v THEN b ELSE IF v THEN b + 1 ELSE b - 1
      BY <1>4, SMT DEF Meta!setBit, Meta!getBit
    <3> QED BY <2>1, <3>1, <3>2 DEF a0
  <2>2. CASE i = 1
    <3>0. y[0] = a0 /\ y[1] = e /\ y[2] = a2 /\ y[3] = a3 /\ y[4] = a4 /\ y[5] = a5 /\ y[6] = a6 /\ y[7] = a7
      BY <1>2, <2>2, SMT DEF a0, a1, a2, a3, a4, a5, a6, a7
    <3>3. c = a0 + 2 * e + 4 * a2 + 8 * a3 + 16 * a4 + 32 * a5 + 64 * a6 + 128 * a7
      BY <1>1, <3>0, Zenon
    <3>1. c = b + 2 * (e - a1)
      BY ONLY <1>0, <1>1, <3>3, SMT
    <3>2. Meta!setBit(b, 1, v) = IF Meta!getBit(b, 1) <=> v THEN b ELSE IF v THEN b + 2 ELSE b - 2
      BY <1>4, SMT DEF Meta!setBit, Meta!getBit
    <3> QED BY <2>2, <3>1, <3>2 DEF a1
  <2>3. CASE i = 2
    <3>0. y[0] = a0 /\ y[1] = a1 /\ y[2] = e /\ y[3] = a3 /\ y[4] = a4 /\ y[5] = a5 /\ y[6] = a6 /\ y[7] = a7
      BY <1>2, <2>3, SMT DEF a0, a1, a2, a3, a4, a5, a6, a7
    <3>3. c = a0 + 2 * a1 + 4 * e + 8 * a3 + 16 * a4 + 32 * a5 + 64 * a6 + 128 * a7
      BY <1>1, <3>0, Zenon
    <3>1. c = b + 4 * (e - a2)
      BY ONLY <1>0, <1>1, <3>3, SMT
    <3>2. Meta!setBit(b, 2, v) = IF Meta!getBit(b, 2) <=> v THEN b ELSE IF v THEN b + 4 ELSE b - 4
      BY <1>4, SMT DEF Meta!setBit, Meta!getBit
    <3> QED BY <2>3, <3>1, <3>2 DEF a2
  <2>4. CASE i = 3
    <3>0. y[0] = a0 /\ y[1] = a1 /\ y[2] = a2 /\ y[3] = e /\ y[4] = a4 /\ y[5] = a5 /\ y[6] = a6 /\ y[7] = a7
      BY <1>2, <2>4, SMT DEF a0, a1, a2, a3, a4, a5, a6, a7
    <3>3. c = a0 + 2 * a1 + 4 * a2 + 8 * e + 16 * a4 + 32 * a5 + 64 * a6 + 128 * a7
      BY <1>1, <3>0, Zenon
    <3>1. c = b + 8 * (e - a3)
      BY ONLY <1>0, <1>1, <3>3, SMT
    <3>2. Meta!setBit(b, 3, v) = IF Meta!getBit(b, 3) <=> v THEN b ELSE IF v THEN b + 8 ELSE b - 8
      BY <1>4, SMT DEF Meta!setBit, Meta!getBit
    <3> QED BY <2>4, <3>1, <3>2 DEF a3
  <2>5. CASE i = 4
    <3>0. y[0] = a0 /\ y[1] = a1 /\ y[2] = a2 /\ y[3] = a3 /\ y[4] = e /\ y[5] = a5 /\ y[6] = a6 /\ y[7] = a7
      BY <1>2, <2>5, SMT DEF a0, a1, a2, a3, a4, a5, a6, a7
    <3>3. c = a0 + 2 * a1 + 4 * a2 + 8 * a3 + 16 * e + 32 * a5 + 64 * a6 + 128 * a7
      BY <1>1, <3>0, Zenon
    <3>1. c = b + 16 * (e - a4)
      BY ONLY <1>0, <1>1, <3>3, SMT
    <3>2. Meta!setBit(b, 4, v) = IF Meta!getBit(b, 4) <=> v THEN b ELSE IF v THEN b + 16 ELSE b - 16
      BY <1>4, SMT DEF Meta!setBit, Meta!getBit
    <3> QED BY <2>5, <3>1, <3>2 DEF a4
  <2>6. CASE i = 5
    <3>0. y[0] = a0 /\ y[1] = a1 /\ y[2] = a2 /\ y[3] = a3 /\ y[4] = a4 /\ y[5] = e /\ y[6] = a6 /\ y[7] = a7
      BY <1>2, <2>6, SMT DEF a0, a1, a2, a3, a4, a5, a6, a7
    <3>3. c = a0 + 2 * a1 + 4 * a2 + 8 * a3 + 16 * a4 + 32 * e + 64 * a6 + 128 * a7
      BY <1>1, <3>0, Zenon
    <3>1. c = b + 32 * (e - a5)
      BY ONLY <1>0, <1>1, <3>3, SMT
    <3>2. Meta!setBit(b, 5, v) = IF Meta!getBit(b, 5) <=> v THEN b ELSE IF v THEN b + 32 ELSE b - 32
      BY <1>4, SMT DEF Meta!setBit, Meta!getBit
    <3> QED BY <2>6, <3>1, <3>2 DEF a5
  <2>7. CASE i = 6
    <3>0. y[0] = a0 /\ y[1] = a1 /\ y[2] = a2 /\ y[3] = a3 /\ y[4] = a4 /\ y[5] = a5 /\ y[6] = e /\ y[7] = a7
      BY <1>2, <2>7, SMT DEF a0, a1, a2, a3, a4, a5, a6, a7
    <3>3. c = a0 + 2 * a1 + 4 * a2 + 8 * a3 + 16 * a4 + 32 * a5 + 64 * e + 128 * a7
      BY <1>1, <3>0, Zenon
    <3>1. c = b + 64 * (e - a6)
      BY ONLY <1>0, <1>1, <3>3, SMT
    <3>2. Meta!setBit(b, 6, v) = IF Meta!getBit(b, 6) <=> v THEN b ELSE IF v THEN b + 64 ELSE b - 64
      BY <1>4, SMT DEF Meta!setBit, Meta!getBit
    <3> QED BY <2>7, <3>1, <3>2 DEF a6
  <2>8. CASE i = 7
    <3>0. y[0] = a0 /\ y[1] = a1 /\ y[2] = a2 /\ y[3] = a3 /\ y[4] = a4 /\ y[5] = a5 /\ y[6] = a6 /\ y[7] = e
      BY <1>2, <2>8, SMT DEF a0, a1, a2, a3, a4, a5, a6, a7
    <3>3. c = a0 + 2 * a1 + 4 * a2 + 8 * a3 + 16 * a4 + 32 * a5 + 64 * a6 + 128 * e
      BY <1>1, <3>0, Zenon
    <3>1. c = b + 128 * (e - a7)
      BY ONLY <1>0, <1>1, <3>3, SMT
    <3>2. Meta!setBit(b, 7, v) = IF Meta!getBit(b, 7) <=> v THEN b ELSE IF v THEN b + 128 ELSE b - 128
      BY <1>4, SMT DEF Meta!setBit, Meta!getBit
    <3> QED BY <2>8, <3>1, <3>2 DEF a7
  <2> QED BY <1>5, <2>1, <2>2, <2>3, <2>4, <2>5, <2>6, <2>7, <2>8
<1>7. x[i] = 0 \/ x[i] = 1
  BY DEF Bits
<1>8. CASE v
  <2>1. e = 1
    BY <1>8 DEF e
  <2>2. CASE x[i] = 1
    <3>1. Meta!getBit(b, i) <=> v
      BY <1>3, <1>8, <2>2
    <3>2. c = b
      BY <1>4, <1>6, <2>1, <2>2
    <3> QED BY <1>6, <3>1, <3>2, Zenon DEF b, c, y, e
  <2>3. CASE x[i] = 0
    <3>1. ~(Meta!getBit(b, i) <=> v)
      BY <1>3, <1>8, <2>3
    <3>2. c = b + w
      BY <1>4, <1>6, <2>1, <2>3
    <3> QED BY <1>6, <1>8, <3>1, <3>2, Zenon DEF b, c, y, e
  <2> QED BY <1>7, <2>2, <2>3
<1>9. CASE ~v
  <2>1. e = 0
    BY <1>9 DEF e
  <2>2. CASE x[i] = 0
    <3>1. Meta!getBit(b, i) <=> v
      BY <1>3, <1>9, <2>2
    <3>2. c = b
      BY <1>4, <1>6, <2>1, <2>2
    <3> QED BY <1>6, <3>1, <3>2, Zenon DEF b, c, y, e
  <2>3. CASE x[i] = 1
    <3>1. ~(Meta!getBit(b, i) <=> v)
      BY <1>3, <1>9, <2>3
    <3>2. c = b - w
      BY <1>4, <1>6, <2>1, <2>3
    <3> QED BY <1>6, <1>9, <3>1, <3>2, Zenon DEF b, c, y, e
  <2> QED BY <1>7, <2>2, <2>3
<1> QED BY <1>8, <1>9

\* setBit() sets the bit of its number and no other.
LEMMA SetBits ==
  ASSUME NEW b, NEW i, NEW v, b \in Octets, i \in 0..7, v \in BOOLEAN
  PROVE  /\ Meta!setBit(b, i, v) \in Octets
         /\ \A j \in 0..7 : Meta!getBit(Meta!setBit(b, i, v), j) <=> IF j = i THEN v ELSE Meta!getBit(b, j)
<1>1. PICK x \in Bits : b = OctetOf(x)
  BY HasBits DEF Octets
<1> DEFINE y == [x EXCEPT ![i] = IF v THEN 1 ELSE 0]
<1>2. Meta!setBit(b, i, v) = OctetOf(y)
  BY <1>1, BitSet
<1>3. y \in Bits
  BY DEF Bits
<1>6. \A j \in 0..7 : y[j] = IF j = i THEN (IF v THEN 1 ELSE 0) ELSE x[j]
  BY DEF Bits
<1> HIDE DEF y
<1>4. OctetOf(y) \in Octets
  BY <1>3, BitsType DEF Octets
<1>5. ASSUME NEW j \in 0..7 PROVE Meta!getBit(OctetOf(y), j) <=> IF j = i THEN v ELSE Meta!getBit(b, j)
  <2>1. Meta!getBit(OctetOf(y), j) <=> y[j] = 1
    BY <1>3, BitIs
  <2>2. Meta!getBit(b, j) <=> x[j] = 1
    BY <1>1, BitIs
  <2>3. y[j] = IF j = i THEN (IF v THEN 1 ELSE 0) ELSE x[j]
    BY <1>6
  <2> QED BY <2>1, <2>2, <2>3
<1> QED BY <1>2, <1>4, <1>5

-----------------------------------------------------------------------------
(* The properties of messages.  Both modules have the octets of Wire.      *)

\* MetaData and FieldTable have the same octets and sums.
LEMMA SameWire ==
  /\ Meta!Octet = Octets /\ Fields!Octet = Octets
  /\ Meta!Width = Fields!Width /\ Meta!Numeric = Fields!Numeric
  /\ \A n : Meta!Base(n) = Fields!Base(n)
  /\ \A s : Meta!All(s) = Fields!All(s) /\ Meta!Total(s) = Fields!Total(s)
<1>1. Meta!Octet = Octets /\ Fields!Octet = Octets
  BY DEF Meta!Octet, Fields!Octet, Octets
<1>2. Meta!Width = Fields!Width /\ Meta!Numeric = Fields!Numeric
  BY Zenon DEF Meta!Width, Fields!Width, Meta!Numeric, Fields!Numeric
<1>3. \A n : Meta!Base(n) = Fields!Base(n)
  BY Zenon DEF Meta!Base, Fields!Base
<1>4. \A s : Meta!All(s) = Fields!All(s)
  BY Zenon DEF Meta!All, Fields!All
<1>5. \A s : Meta!Total(s) = Fields!Total(s)
  BY Zenon DEF Meta!Total, Fields!Total
<1> QED BY <1>1, <1>2, <1>3, <1>4, <1>5, Zenon

\* MetaData and FieldTable write and read a field in the same way.
LEMMA SameFields ==
  /\ \A f : Meta!fill(f) = Fields!fill(f) /\ Meta!size(f) = Fields!size(f)
  /\ \A k, s : Meta!read(k, s) = Fields!read(k, s)
<1>1. Meta!SizeOf = Fields!SizeOf /\ Meta!Signed = Fields!Signed /\ Meta!Bad = Fields!Bad
  BY Zenon DEF Meta!SizeOf, Fields!SizeOf, Meta!Signed, Fields!Signed, Meta!Bad, Fields!Bad
<1>2. \A v, n : Meta!add(v, n) = Fields!add(v, n)
  BY SameWire, Zenon DEF Meta!add, Fields!add
<1>3. \A f : Meta!size(f) = Fields!size(f)
  BY <1>1, SameWire, Zenon DEF Meta!size, Fields!size
<1>4. \A f : Meta!fill(f) = Fields!fill(f)
  BY <1>1, <1>2, SameWire, Zenon DEF Meta!fill, Fields!fill, Meta!numericFill,
     Fields!numericFill,
     Meta!stringFill, Fields!stringFill, Meta!decimalFill, Fields!decimalFill, Meta!booleanFill,
     Fields!booleanFill
<1>5. \A s, n : Meta!nextUint(s, n) = Fields!nextUint(s, n)
  BY Zenon DEF Meta!nextUint, Fields!nextUint
<1>6. \A k, s : Meta!numericFrom(k, s) = Fields!numericFrom(k, s)
  BY <1>1, <1>5, SameWire, Zenon DEF Meta!numericFrom, Fields!numericFrom, Meta!nextInt,
     Fields!nextInt
<1>7. \A k, s : Meta!readNumeric(k, s) = Fields!readNumeric(k, s)
  BY <1>1, <1>6, SameWire, Zenon DEF Meta!readNumeric, Fields!readNumeric, Meta!Got,
     Fields!Got, Meta!Rest, Fields!Rest
<1>8. \A k, s : Meta!readString(k, s) = Fields!readString(k, s)
  BY <1>1, <1>7, Zenon DEF Meta!readString, Fields!readString, Meta!Cut, Fields!Cut, Meta!Got,
     Fields!Got,
     Meta!Rest, Fields!Rest
<1>9. \A s : Meta!readDecimal(s) = Fields!readDecimal(s)
  BY <1>1, <1>7, Zenon DEF Meta!readDecimal, Fields!readDecimal, Meta!Got, Fields!Got
<1>10. \A k, s : Meta!read(k, s) = Fields!read(k, s)
  BY <1>1, <1>7, <1>8, <1>9, SameWire, Zenon DEF Meta!read, Fields!read
<1> QED BY <1>3, <1>4, <1>10, Zenon

\* The names of the properties, and the classes of their values.
LEMMA PropertiesAre ==
  /\ Meta!Property = {"contentType", "contentEncoding", "headers", "deliveryMode", "priority",
       "correlationID",
                      "replyTo", "expiration", "messageID", "timestamp", "typeName", "userID", "appID",
                      "clusterID"}
  /\ \A p \in Meta!Property : \/ Meta!Kind[p] = "ShortString" \/ Meta!Kind[p] = "Nested"
                              \/ Meta!Kind[p] = "UOctet" \/ Meta!Kind[p] = "Timestamp"
  /\ Meta!Kind["deliveryMode"] = "UOctet"
<1>1. Meta!Property = {"contentType", "contentEncoding", "headers", "deliveryMode", "priority",
      "correlationID",
                      "replyTo", "expiration", "messageID", "timestamp", "typeName", "userID", "appID",
                      "clusterID"}
  BY DEF Meta!Property, Meta!Kind
<1>2. ASSUME NEW p \in Meta!Property
      PROVE  \/ Meta!Kind[p] = "ShortString" \/ Meta!Kind[p] = "Nested"
             \/ Meta!Kind[p] = "UOctet" \/ Meta!Kind[p] = "Timestamp"
  BY <1>1 DEF Meta!Kind
<1> QED BY <1>1, <1>2 DEF Meta!Kind

\* The classes of the values of properties.
LEMMA KindOf ==
  ASSUME NEW k, k = "ShortString" \/ k = "Nested" \/ k = "UOctet" \/ k = "Timestamp"
  PROVE  /\ k \in Classes /\ (k \in Fields!Numeric <=> k = "UOctet" \/ k = "Timestamp")
         /\ (k \in Sized <=> k = "ShortString" \/ k = "Nested") /\ k # "Decimal" /\ k # "BooleanSet"
         /\ k \notin Fields!Signed
  BY KindsAre DEF Classes, Sized, Fields!Signed

\* Where the bit of a property is: the set and the index, which two properties never
\* share and the methods that set and look agree on.
Side(p) == Meta!HasBit[p][1]
\* The bit of the property in its octet.
Index(p) == Meta!HasBit[p][2]

\* Every property has a bit of its own, which has and set agree on.
LEMMA BitPlaces ==
  /\ Meta!SetBit = Meta!HasBit
  /\ \A p \in Meta!Property : Side(p) \in {1, 2} /\ Index(p) \in 0..7
  /\ \A p, q \in Meta!Property : Side(p) = Side(q) /\ Index(p) = Index(q) => p = q
  /\ Side("deliveryMode") = 1 /\ Index("deliveryMode") = 4
<1>1. Meta!SetBit = Meta!HasBit
  BY Zenon DEF Meta!SetBit, Meta!HasBit
<1>2. /\ Side("expiration") = 1 /\ Index("expiration") = 0 /\ Side("replyTo") = 1 /\ Index("replyTo") = 1
      /\ Side("correlationID") = 1 /\ Index("correlationID") = 2 /\ Side("priority") = 1
      /\ Index("priority") = 3
      /\ Side("deliveryMode") = 1 /\ Index("deliveryMode") = 4 /\ Side("headers") = 1 /\ Index("headers") = 5
      /\ Side("contentEncoding") = 1 /\ Index("contentEncoding") = 6 /\ Side("contentType") = 1
      /\ Index("contentType") = 7
      /\ Side("clusterID") = 2 /\ Index("clusterID") = 2 /\ Side("appID") = 2 /\ Index("appID") = 3
      /\ Side("userID") = 2 /\ Index("userID") = 4 /\ Side("typeName") = 2 /\ Index("typeName") = 5
      /\ Side("timestamp") = 2 /\ Index("timestamp") = 6 /\ Side("messageID") = 2 /\ Index("messageID") = 7
  BY DEF Side, Index, Meta!HasBit
<1>3. ASSUME NEW p \in Meta!Property PROVE Side(p) \in {1, 2} /\ Index(p) \in 0..7
  BY <1>2, PropertiesAre
<1>4. ASSUME NEW p \in Meta!Property, NEW q \in Meta!Property, Side(p) = Side(q), Index(p) = Index(q)
      PROVE p = q
  BY <1>2, <1>4, PropertiesAre
<1> QED BY <1>1, <1>2, <1>3, <1>4

\* The property is announced in the octets b1 and b2.
Bit(b1, b2, p) == Meta!getBit(IF Side(p) = 1 THEN b1 ELSE b2, Index(p))

\* has() asks for the bit of the property.
LEMMA HasIs == ASSUME NEW m, NEW p PROVE Meta!has(m, p) <=> Bit(m.b1, m.b2, p)
  BY Zenon DEF Meta!has, Bit, Side, Index

\* A value that a property may have.
Valued(p, v) ==
  IF Meta!Kind[p] \in Fields!Numeric THEN v \in Nat /\ v < Fields!Base(Fields!Width[Meta!Kind[p]])
  ELSE v \in Seq(Octets) /\ Len(v) < Fields!Base(LongWidth)

\* Values of the properties, of which the ones set are announced in the octets b1 and b2.
Announced(b1, b2, f) ==
  /\ b1 \in Octets /\ b2 \in Octets /\ f = [p \in Meta!Property |-> f[p]]
  /\ \A p \in Meta!Property : Valued(p, f[p]) /\ (f[p] # Meta!Default(p) => Bit(b1, b2, p))

\* The state of the properties.
Setting == metaCalls \in 0..MetaMax /\ Announced(bools1, bools2, field)

\* The default of a property is a value of its kind.
LEMMA DefaultValued == ASSUME NEW p \in Meta!Property PROVE Valued(p, Meta!Default(p))
<1>1. Meta!Numeric = Fields!Numeric
  BY SameWire
<1>2. CASE Meta!Kind[p] \in Fields!Numeric
  <2>1. Fields!Width[Meta!Kind[p]] \in Nat
    BY <1>2, KindsAre
  <2>2. Fields!Base(Fields!Width[Meta!Kind[p]]) > 0
    BY <2>1, BaseIs
  <2>3. Meta!Default(p) = 0 /\ 0 \in Nat
    BY <1>1, <1>2 DEF Meta!Default
  <2>4. 0 < Fields!Base(Fields!Width[Meta!Kind[p]])
    BY <2>1, <2>2, BaseIs
  <2> QED BY <1>2, <2>3, <2>4, Zenon DEF Valued
<1>3. CASE Meta!Kind[p] \notin Fields!Numeric
  <2>1. Meta!Default(p) = <<>> /\ <<>> \in Seq(Octets)
    BY <1>1, <1>3 DEF Meta!Default
  <2>2. Len(<<>>) < Fields!Base(LongWidth)
    <3>1. LongWidth \in Nat
      BY WireAssumption
    <3>2. Fields!Base(LongWidth) \in Nat /\ Fields!Base(LongWidth) > 0
      BY <3>1, BaseIs
    <3> QED BY <3>2
  <2> QED BY <1>3, <2>1, <2>2, Zenon DEF Valued
<1> QED BY <1>2, <1>3

\* Without a value nothing need be announced.
LEMMA DefaultAnnounced ==
  ASSUME NEW b1 \in Octets, NEW b2 \in Octets
  PROVE Announced(b1, b2, [p \in Meta!Property |-> Meta!Default(p)])
<1> DEFINE f == [p \in Meta!Property |-> Meta!Default(p)]
<1>1. f = [p \in Meta!Property |-> f[p]] /\ \A p \in Meta!Property : f[p] = Meta!Default(p)
  OBVIOUS
<1> HIDE DEF f
<1>2. Announced(b1, b2, f)
  BY <1>1, DefaultValued, Zenon DEF Announced
<1> QED BY <1>2 DEF f

\* At the beginning no property is set.
LEMMA SettingInit == ASSUME Meta!Init PROVE Setting
<1>1. bools1 = 0 /\ bools2 = 0 /\ metaCalls = 0 /\ field = [p \in Meta!Property |-> Meta!Default(p)]
  BY DEF Meta!Init
<1>2. 0 \in Octets /\ metaCalls \in 0..MetaMax
  BY <1>1, MetaAssumption DEF Octets
<1>3. Announced(bools1, bools2, field)
  BY <1>1, <1>2, DefaultAnnounced, Zenon
<1> QED BY <1>2, <1>3 DEF Setting

\* What is set is announced.
LEMMA SettingType == ASSUME Setting PROVE Meta!TypeOK /\ Meta!ValuesAnnounced
<1>1. bools1 \in Octets /\ bools2 \in Octets /\ metaCalls \in 0..MetaMax
  BY Zenon DEF Setting, Announced
<1>2. ASSUME NEW p \in Meta!Property
      PROVE  IF Meta!Kind[p] \in Meta!Numeric THEN field[p] \in Nat
             ELSE \A i \in 1..Len(field[p]) : field[p][i] \in Meta!Octet
  <2>1. Valued(p, field[p])
    BY Zenon DEF Setting, Announced
  <2>2. Meta!Numeric = Fields!Numeric /\ Meta!Octet = Octets
    BY SameWire
  <2>3. CASE Meta!Kind[p] \in Fields!Numeric
    BY <2>1, <2>2, <2>3, Zenon DEF Valued
  <2>4. CASE Meta!Kind[p] \notin Fields!Numeric
    <3>1. field[p] \in Seq(Octets)
      BY <2>1, <2>4, Zenon DEF Valued
    <3>2. \A i \in 1..Len(field[p]) : field[p][i] \in Octets
      BY <3>1
    <3> QED BY <2>2, <2>4, <3>2, Zenon
  <2> QED BY <2>3, <2>4
<1>3. Meta!TypeOK
  BY <1>1, <1>2, SameWire, Zenon DEF Meta!TypeOK
<1>4. ASSUME NEW p \in Meta!Property, field[p] # Meta!Default(p) PROVE Meta!has(Meta!Meta, p)
  <2>1. Bit(bools1, bools2, p)
    BY <1>4, Zenon DEF Setting, Announced
  <2>2. Meta!Meta.b1 = bools1 /\ Meta!Meta.b2 = bools2
    BY DEF Meta!Meta
  <2> QED BY <2>1, <2>2, HasIs, Zenon
<1> QED BY <1>3, <1>4, Zenon DEF Meta!ValuesAnnounced

\* The octets with the bit of p turned on or off.
Turned1(b1, p, on) == IF Side(p) = 1 THEN Meta!setBit(b1, Index(p), on) ELSE b1
Turned2(b2, p, on) == IF Side(p) = 2 THEN Meta!setBit(b2, Index(p), on) ELSE b2

\* Turning the bit of one property leaves the bits of all others.
LEMMA TurnedBits ==
  ASSUME NEW b1, NEW b2, NEW p, NEW on, b1 \in Octets, b2 \in Octets, p \in Meta!Property, on \in BOOLEAN
  PROVE  /\ Turned1(b1, p, on) \in Octets /\ Turned2(b2, p, on) \in Octets
         /\ Bit(Turned1(b1, p, on), Turned2(b2, p, on), p) <=> on
         /\ \A q \in Meta!Property : q # p
              => (Bit(Turned1(b1, p, on), Turned2(b2, p, on), q) <=> Bit(b1, b2, q))
<1> DEFINE c1 == Turned1(b1, p, on)
           c2 == Turned2(b2, p, on)
           s1 == Meta!setBit(b1, Index(p), on)
           s2 == Meta!setBit(b2, Index(p), on)
<1>1. \A q \in Meta!Property : Side(q) \in {1, 2} /\ Index(q) \in 0..7
  BY BitPlaces
<1>2. /\ s1 \in Octets /\ s2 \in Octets
      /\ \A j \in 0..7 : Meta!getBit(s1, j) <=> IF j = Index(p) THEN on ELSE Meta!getBit(b1, j)
      /\ \A j \in 0..7 : Meta!getBit(s2, j) <=> IF j = Index(p) THEN on ELSE Meta!getBit(b2, j)
  <2>1. Index(p) \in 0..7
    BY <1>1
  <2> QED BY ONLY <2>1, b1 \in Octets, b2 \in Octets, on \in BOOLEAN, SetBits
<1> HIDE DEF s1, s2
<1>3. (Side(p) = 1 => c1 = s1 /\ c2 = b2) /\ (Side(p) = 2 => c1 = b1 /\ c2 = s2)
  BY DEF Turned1, Turned2, s1, s2
<1> HIDE DEF c1, c2
<1>4. \A q \in Meta!Property : q # p => Side(q) # Side(p) \/ Index(q) # Index(p)
  BY BitPlaces, Zenon
<1>5. \A q : Bit(c1, c2, q) <=> Meta!getBit(IF Side(q) = 1 THEN c1 ELSE c2, Index(q))
  BY Zenon DEF Bit
<1>6. \A q : Bit(b1, b2, q) <=> Meta!getBit(IF Side(q) = 1 THEN b1 ELSE b2, Index(q))
  BY Zenon DEF Bit
<1>7. 1 # 2
  OBVIOUS
<1>8. (Side(p) = 1 /\ Side(p) # 2) \/ (Side(p) = 2 /\ Side(p) # 1)
  BY <1>1
<1>9. CASE Side(p) = 1 /\ Side(p) # 2
  <2>1. c1 = s1 /\ c2 = b2
    BY <1>3, <1>9
  <2>2. Bit(c1, c2, p) <=> on
    BY <1>1, <1>2, <1>5, <1>9, <2>1, Zenon
  <2>3. ASSUME NEW q \in Meta!Property, q # p PROVE Bit(c1, c2, q) <=> Bit(b1, b2, q)
    BY <1>1, <1>2, <1>4, <1>5, <1>6, <1>9, <2>1, <2>3, Zenon
  <2> QED BY <1>2, <2>1, <2>2, <2>3, Zenon DEF c1, c2
<1>10. CASE Side(p) = 2 /\ Side(p) # 1
  <2>1. c1 = b1 /\ c2 = s2
    BY <1>3, <1>10
  <2>2. Bit(c1, c2, p) <=> on
    BY <1>1, <1>2, <1>5, <1>10, <2>1, Zenon
  <2>3. ASSUME NEW q \in Meta!Property, q # p PROVE Bit(c1, c2, q) <=> Bit(b1, b2, q)
    <3>1. CASE Side(q) = 1
      BY <1>1, <1>5, <1>6, <2>1, <3>1, Zenon
    <3>2. CASE Side(q) # 1
      <4>1. Side(q) = Side(p)
        BY <1>1, <1>10, <3>2
      <4> QED BY <1>1, <1>2, <1>4, <1>5, <1>6, <2>1, <2>3, <3>2, <4>1, Zenon
    <3> QED BY <3>1, <3>2
  <2> QED BY <1>2, <2>1, <2>2, <2>3, Zenon DEF c1, c2
<1> QED BY <1>8, <1>9, <1>10

\* A property gets a value, and is announced unless the value is the default.
LEMMA TurnedAnnounced ==
  ASSUME NEW b1, NEW b2, NEW f, NEW p, NEW on, NEW v, Announced(b1, b2, f), p \in Meta!Property,
         on \in BOOLEAN,
         Valued(p, v), v # Meta!Default(p) => on
  PROVE  Announced(Turned1(b1, p, on), Turned2(b2, p, on), [f EXCEPT ![p] = v])
<1> DEFINE c1 == Turned1(b1, p, on)
           c2 == Turned2(b2, p, on)
           g == [f EXCEPT ![p] = v]
<1>1. /\ b1 \in Octets /\ b2 \in Octets /\ f = [q \in Meta!Property |-> f[q]]
      /\ \A q \in Meta!Property : Valued(q, f[q]) /\ (f[q] # Meta!Default(q) => Bit(b1, b2, q))
  BY Zenon DEF Announced
<1>2. /\ c1 \in Octets /\ c2 \in Octets /\ (Bit(c1, c2, p) <=> on)
      /\ \A q \in Meta!Property : q # p => (Bit(c1, c2, q) <=> Bit(b1, b2, q))
  BY <1>1, TurnedBits, Zenon
<1> HIDE DEF c1, c2
<1>3. g = [q \in Meta!Property |-> g[q]] /\ g[p] = v /\ \A q \in Meta!Property : q # p => g[q] = f[q]
  BY <1>1
<1> HIDE DEF g
<1>4. ASSUME NEW q \in Meta!Property PROVE Valued(q, g[q]) /\ (g[q] # Meta!Default(q) => Bit(c1, c2, q))
  <2>1. CASE q = p
    BY <1>2, <1>3, <2>1, Zenon
  <2>2. CASE q # p
    BY <1>1, <1>2, <1>3, <2>2, Zenon
  <2> QED BY <2>1, <2>2
<1>5. Announced(c1, c2, g)
  BY <1>2, <1>3, <1>4, Zenon DEF Announced
<1> QED BY <1>5 DEF c1, c2, g

\* A setter stores the value and announces it.
LEMMA SettingSet ==
  ASSUME Setting, NEW p \in Meta!Property, NEW v \in Meta!Values(p), Meta!Set(p, v) PROVE Setting'
<1>1. /\ metaCalls' = metaCalls + 1 /\ metaCalls < MetaMax /\ field' = [field EXCEPT ![p] = v]
      /\ bools1' = Turned1(bools1, p, TRUE) /\ bools2' = Turned2(bools2, p, TRUE)
  <2>1. Meta!SetBit = Meta!HasBit
    BY BitPlaces
  <2> QED BY <2>1, Zenon DEF Meta!Set, Turned1, Turned2, Side, Index
<1>2. metaCalls \in 0..MetaMax /\ Announced(bools1, bools2, field)
  BY DEF Setting
<1>3. Valued(p, v)
  <2>1. Meta!Numeric = Fields!Numeric /\ Meta!Width = Fields!Width /\ \A n : Meta!Base(n) = Fields!Base(n)
    BY SameWire
  <2>2. CASE Meta!Kind[p] \in Fields!Numeric
    <3>1. v \in Numbers /\ v < Fields!Base(Fields!Width[Meta!Kind[p]])
      BY <2>1, <2>2, Zenon DEF Meta!Values
    <3>2. v \in Nat
      BY <3>1, MetaAssumption
    <3> QED BY <2>2, <3>1, <3>2, Zenon DEF Valued
  <2>3. CASE Meta!Kind[p] \notin Fields!Numeric
    <3>1. v \in Strings
      BY <2>1, <2>3, Zenon DEF Meta!Values
    <3>2. v \in Seq(Octets) /\ Len(v) < Fields!Base(LongWidth)
      <4>1. Meta!Octet = Octets
        BY SameWire
      <4> QED BY <2>1, <3>1, <4>1, MetaAssumption, Zenon
    <3> QED BY <2>3, <3>2, Zenon DEF Valued
  <2> QED BY <2>2, <2>3
<1>4. Announced(bools1', bools2', field')
  <2>1. TRUE \in BOOLEAN
    OBVIOUS
  <2> QED BY <1>1, <1>2, <1>3, <2>1, TurnedAnnounced, Zenon
<1>5. metaCalls' \in 0..MetaMax
  BY <1>1, <1>2, MetaAssumption
<1> QED BY <1>4, <1>5 DEF Setting

\* setPersistent() stores the mode and announces it or takes the announcement back.
LEMMA SettingPersistent ==
  ASSUME Setting, NEW on \in BOOLEAN, Meta!setPersistent(on) PROVE Setting'
<1> DEFINE p == "deliveryMode"
           v == IF on THEN 2 ELSE 0
<1>0. p \in Meta!Property /\ Side(p) = 1 /\ Index(p) = 4 /\ Meta!Kind[p] = "UOctet"
  BY PropertiesAre, BitPlaces
<1>1. /\ metaCalls' = metaCalls + 1 /\ metaCalls < MetaMax /\ field' = [field EXCEPT ![p] = v]
      /\ bools1' = Meta!setBit(bools1, 4, on) /\ bools2' = bools2
  BY DEF Meta!setPersistent
<1>2. metaCalls \in 0..MetaMax /\ Announced(bools1, bools2, field)
  BY DEF Setting
<1>3. bools1' = Turned1(bools1, p, on) /\ bools2' = Turned2(bools2, p, on)
  <2>1. Side(p) # 2
    BY <1>0
  <2> QED BY <1>0, <1>1, <2>1, Zenon DEF Turned1, Turned2
<1>4. Valued(p, v) /\ (v # Meta!Default(p) => on)
  <2>1. "UOctet" \in Fields!Numeric /\ Fields!Width["UOctet"] = 1 /\ Fields!Base(1) = 256
    BY KindsAre, BaseIs
  <2>2. v \in Nat /\ v < 256 /\ (~on => v = 0)
    OBVIOUS
  <2>3. Meta!Default(p) = 0
    BY <1>0, <2>1, SameWire DEF Meta!Default
  <2> HIDE DEF v, p
  <2> QED BY <1>0, <2>1, <2>2, <2>3, Zenon DEF Valued
<1> HIDE DEF p, v
<1>5. Announced(bools1', bools2', field')
  <2>1. on \in BOOLEAN /\ p \in Meta!Property
    BY <1>0
  <2>2. Announced(Turned1(bools1, p, on), Turned2(bools2, p, on), [field EXCEPT ![p] = v])
    BY ONLY <1>2, <1>4, <2>1, TurnedAnnounced, Zenon
  <2> QED BY <1>1, <1>3, <2>2, Zenon
<1>6. metaCalls' \in 0..MetaMax
  BY <1>1, <1>2, MetaAssumption
<1> QED BY <1>5, <1>6 DEF Setting

\* fill() and read() go through the fourteen properties in the same order, each once.
LEMMA OrdersAre ==
  /\ Meta!ReadOrder = Meta!FillOrder /\ Len(Meta!FillOrder) = 14 /\ Len(Meta!SizeOrder) = 14
  /\ \A i \in 1..14 : Meta!FillOrder[i] \in Meta!Property /\ Meta!SizeOrder[i] \in Meta!Property
  /\ \A i, j \in 1..14 : Meta!FillOrder[i] = Meta!FillOrder[j] => i = j
  /\ \A p \in Meta!Property : \E i \in 1..14 : Meta!FillOrder[i] = p
<1>1. /\ Meta!FillOrder[1] = "contentType" /\ Meta!FillOrder[2] = "contentEncoding"
      /\ Meta!FillOrder[3] = "headers"
      /\ Meta!FillOrder[4] = "deliveryMode" /\ Meta!FillOrder[5] = "priority"
      /\ Meta!FillOrder[6] = "correlationID"
      /\ Meta!FillOrder[7] = "replyTo" /\ Meta!FillOrder[8] = "expiration" /\ Meta!FillOrder[9] = "messageID"
      /\ Meta!FillOrder[10] = "timestamp" /\ Meta!FillOrder[11] = "typeName" /\ Meta!FillOrder[12] = "userID"
      /\ Meta!FillOrder[13] = "appID" /\ Meta!FillOrder[14] = "clusterID"
  BY DEF Meta!FillOrder
<1>2. /\ Meta!SizeOrder[1] = "expiration" /\ Meta!SizeOrder[2] = "replyTo"
      /\ Meta!SizeOrder[3] = "correlationID"
      /\ Meta!SizeOrder[4] = "priority" /\ Meta!SizeOrder[5] = "deliveryMode" /\ Meta!SizeOrder[6] = "headers"
      /\ Meta!SizeOrder[7] = "contentEncoding" /\ Meta!SizeOrder[8] = "contentType"
      /\ Meta!SizeOrder[9] = "clusterID"
      /\ Meta!SizeOrder[10] = "appID" /\ Meta!SizeOrder[11] = "userID" /\ Meta!SizeOrder[12] = "typeName"
      /\ Meta!SizeOrder[13] = "timestamp" /\ Meta!SizeOrder[14] = "messageID"
  BY DEF Meta!SizeOrder
<1>3. Meta!ReadOrder = Meta!FillOrder /\ Len(Meta!FillOrder) = 14 /\ Len(Meta!SizeOrder) = 14
  BY DEF Meta!FillOrder, Meta!ReadOrder, Meta!SizeOrder
<1>4. ASSUME NEW i \in 1..14
      PROVE  i = 1 \/ i = 2 \/ i = 3 \/ i = 4 \/ i = 5 \/ i = 6 \/ i = 7 \/ i = 8 \/ i = 9 \/ i = 10 \/ i
             = 11 \/ i = 12 \/ i = 13 \/ i = 14
  BY SMT
<1>5. ASSUME NEW i \in 1..14 PROVE Meta!FillOrder[i] \in Meta!Property /\ Meta!SizeOrder[i] \in Meta!Property
  BY <1>1, <1>2, <1>4, PropertiesAre, SMT
<1>6. ASSUME NEW i \in 1..14, NEW j \in 1..14, Meta!FillOrder[i] = Meta!FillOrder[j] PROVE i = j
  BY <1>1, <1>4, <1>6, SMT
<1>7. ASSUME NEW p \in Meta!Property PROVE \E i \in 1..14 : Meta!FillOrder[i] = p
  BY <1>1, PropertiesAre, SMT
<1> QED BY <1>3, <1>5, <1>6, <1>7

\* The sum of fourteen sizes.
LEMMA FourteenSizes ==
  ASSUME NEW s, s \in Seq(Nat), Len(s) = 14
  PROVE  Fields!Total(s) = s[1] + s[2] + s[3] + s[4] + s[5] + s[6] + s[7] + s[8] + s[9] + s[10] + s[11] + s[12] + s[13] + s[14]
<1>1. PICK g : /\ Fields!Total(s) = g[Len(s)] /\ g[0] = 0 /\ \A i \in 1..Len(s) : g[i] = g[i - 1] + s[i]
  <2>1. Len(s) \in Nat
    BY SMT
  <2> QED BY <2>1, TotalPick, Zenon
<1>0. \A i \in 1..14 : s[i] \in Nat
  <2>1. \A i \in 1..Len(s) : s[i] \in Nat
    BY s \in Seq(Nat), ElementOfSeq, Zenon
  <2> QED BY <2>1, Zenon
<1>2. /\ g[1] = g[0] + s[1] /\ g[2] = g[1] + s[2] /\ g[3] = g[2] + s[3] /\ g[4] = g[3] + s[4]
      /\ g[5] = g[4] + s[5] /\ g[6] = g[5] + s[6] /\ g[7] = g[6] + s[7] /\ g[8] = g[7] + s[8]
      /\ g[9] = g[8] + s[9] /\ g[10] = g[9] + s[10] /\ g[11] = g[10] + s[11] /\ g[12] = g[11] + s[12]
      /\ g[13] = g[12] + s[13] /\ g[14] = g[13] + s[14]
  BY <1>1, SMT
<1>3. /\ s[1] \in Nat /\ s[2] \in Nat /\ s[3] \in Nat /\ s[4] \in Nat /\ s[5] \in Nat
      /\ s[6] \in Nat /\ s[7] \in Nat /\ s[8] \in Nat /\ s[9] \in Nat /\ s[10] \in Nat
      /\ s[11] \in Nat /\ s[12] \in Nat /\ s[13] \in Nat /\ s[14] \in Nat
  BY ONLY <1>0, SMT
<1>4. Fields!Total(s) = g[14] /\ g[0] = 0
  BY <1>1, Zenon
<1> QED BY ONLY <1>2, <1>3, <1>4, SMT

\* What fill() writes for a property, and what size() adds for it.
MetaField(p) == Meta!FieldOf(Meta!Meta, p)
\* What fill() writes of a property, what size() counts for it, and all that fill() writes.
MetaRow(p) == IF Bit(bools1, bools2, p) THEN Fields!fill(MetaField(p)) ELSE <<>>
MetaLen(p) == IF Bit(bools1, bools2, p) THEN Fields!size(MetaField(p)) ELSE 0
MetaRows == [i \in 1..14 |-> MetaRow(Meta!FillOrder[i])]

\* A property as a field, and its bit.
LEMMA MetaFieldIs ==
  ASSUME NEW p \in Meta!Property
  PROVE  /\ MetaField(p).kind = Meta!Kind[p] /\ MetaField(p).value = field[p]
         /\ Meta!has(Meta!Meta, p) <=> Bit(bools1, bools2, p)
<1>1. Meta!Meta.field = field /\ Meta!Meta.b1 = bools1 /\ Meta!Meta.b2 = bools2
  BY DEF Meta!Meta
<1>2. MetaField(p).kind = Meta!Kind[p] /\ MetaField(p).value = Meta!Meta.field[p]
  BY DEF MetaField, Meta!FieldOf
<1> QED BY <1>1, <1>2, HasIs, Zenon

\* A property is written in as many octets as are counted for it.
LEMMA MetaRowType ==
  ASSUME Setting, NEW p \in Meta!Property
  PROVE  /\ MetaRow(p) \in Seq(Octets) /\ Len(MetaRow(p)) = MetaLen(p) /\ MetaLen(p) \in Nat
         /\ MetaField(p).kind \in Classes
<1>1. \/ Meta!Kind[p] = "ShortString" \/ Meta!Kind[p] = "Nested"
      \/ Meta!Kind[p] = "UOctet" \/ Meta!Kind[p] = "Timestamp"
  BY PropertiesAre
<1>2. Valued(p, field[p])
  BY Zenon DEF Setting, Announced
<1> DEFINE k == Meta!Kind[p]
           v == field[p]
<1>3. k \in Classes /\ (k \in Fields!Numeric \/ k \in Sized) /\ k # "Decimal" /\ k # "BooleanSet"
      /\ (k \in Sized => k \notin Fields!Numeric)
  <2> HIDE DEF k
  <2>1. k = "ShortString" \/ k = "Nested" \/ k = "UOctet" \/ k = "Timestamp"
    BY <1>1 DEF k
  <2> QED BY <2>1, KindOf
<1>4. Holds(k, v)
  <2>1. CASE k \in Fields!Numeric
    <3>1. v \in Nat
      BY <1>2, <2>1, Zenon DEF Valued
    <3>2. v \in Int
      BY <3>1
    <3> QED BY <1>3, <2>1, <3>2, Zenon DEF Holds
  <2>2. CASE k \in Sized
    <3>1. v \in Seq(Octets)
      BY <1>2, <1>3, <2>2, Zenon DEF Valued
    <3> QED BY <1>3, <2>2, <3>1, Zenon DEF Holds
  <2> QED BY <1>3, <2>1, <2>2
<1> DEFINE f == MetaField(p)
<1>5. f.kind = k /\ f.value = v
  BY MetaFieldIs
<1> HIDE DEF f, k, v
<1>6. Fields!fill(f) \in Seq(Octets) /\ Len(Fields!fill(f)) = Fields!size(f) /\ Fields!size(f) \in Nat
  BY <1>3, <1>4, <1>5, FillType
<1>7. <<>> \in Seq(Octets) /\ Len(<<>>) = 0 /\ 0 \in Nat
  OBVIOUS
<1>8. f.kind \in Classes
  BY <1>3, <1>5
<1>9. CASE Bit(bools1, bools2, p)
  <2>1. MetaRow(p) = Fields!fill(f) /\ MetaLen(p) = Fields!size(f)
    BY <1>9, Zenon DEF MetaRow, MetaLen, f
  <2> QED BY <1>6, <1>8, <2>1, Zenon DEF f
<1>10. CASE ~Bit(bools1, bools2, p)
  <2>1. MetaRow(p) = <<>> /\ MetaLen(p) = 0
    BY <1>10, Zenon DEF MetaRow, MetaLen
  <2> QED BY <1>7, <1>8, <2>1, Zenon DEF f
<1> QED BY <1>9, <1>10

\* The fourteen properties are sequences of octets.
LEMMA MetaRowsType ==
  ASSUME Setting
  PROVE  /\ MetaRows \in Seq(Seq(Octets)) /\ Len(MetaRows) = 14
         /\ \A i \in 1..14 : MetaRows[i] = MetaRow(Meta!FillOrder[i])
<1>1. \A i \in 1..14 : MetaRow(Meta!FillOrder[i]) \in Seq(Octets)
  BY MetaRowType, OrdersAre
<1>2. MetaRows \in [1..14 -> Seq(Octets)] /\ \A i \in 1..14 : MetaRows[i] = MetaRow(Meta!FillOrder[i])
  BY <1>1 DEF MetaRows
<1>3. ASSUME NEW r, NEW n \in Nat, r \in [1..n -> Seq(Octets)] PROVE r \in Seq(Seq(Octets)) /\ Len(r) = n
  BY <1>3
<1>4. 14 \in Nat
  OBVIOUS
<1>5. MetaRows \in Seq(Seq(Octets)) /\ Len(MetaRows) = 14
  BY <1>2, <1>3, <1>4, Zenon
<1> QED BY <1>2, <1>5, Zenon

\* What fill() writes, and what size() is.
LEMMA MetaFillIs ==
  ASSUME Setting PROVE Meta!metaFill(Meta!Meta) = <<bools1, bools2>> \o Fields!All(MetaRows)
<1> DEFINE r == [i \in 1..Len(Meta!FillOrder) |-> IF Meta!has(Meta!Meta, Meta!FillOrder[i])
                   THEN Meta!fill(Meta!FieldOf(Meta!Meta, Meta!FillOrder[i])) ELSE <<>>]
<1>1. Meta!metaFill(Meta!Meta) = <<bools1, bools2>> \o Meta!All(r)
  <2>1. Meta!Meta.b1 = bools1 /\ Meta!Meta.b2 = bools2
    BY DEF Meta!Meta
  <2> QED BY <2>1, Zenon DEF Meta!metaFill
<1>2. Len(Meta!FillOrder) = 14 /\ \A i \in 1..14 : Meta!FillOrder[i] \in Meta!Property
  BY OrdersAre
<1>3. ASSUME NEW i \in 1..14
      PROVE  (IF Meta!has(Meta!Meta, Meta!FillOrder[i])
                THEN Meta!fill(Meta!FieldOf(Meta!Meta, Meta!FillOrder[i])) ELSE <<>>)
                = MetaRow(Meta!FillOrder[i])
  <2> DEFINE p == Meta!FillOrder[i]
  <2>1. p \in Meta!Property
    BY <1>2
  <2> HIDE DEF p
  <2>2. Meta!has(Meta!Meta, p) <=> Bit(bools1, bools2, p)
    BY <2>1, MetaFieldIs
  <2>3. Meta!fill(Meta!FieldOf(Meta!Meta, p)) = Fields!fill(MetaField(p))
    BY SameFields, Zenon DEF MetaField
  <2>4. (IF Meta!has(Meta!Meta, p) THEN Meta!fill(Meta!FieldOf(Meta!Meta, p)) ELSE <<>>) = MetaRow(p)
    BY <2>2, <2>3, Zenon DEF MetaRow
  <2> QED BY <2>4 DEF p
<1>4. r = MetaRows
  BY <1>2, <1>3, Zenon DEF MetaRows
<1> QED BY <1>1, <1>4, SameWire, Zenon

\* size() adds up the properties in its own order.
LEMMA MetaSizeIs ==
  ASSUME Setting PROVE Meta!metaSize(Meta!Meta)
         = 2 + Fields!Total([i \in 1..14 |-> MetaLen(Meta!SizeOrder[i])])
<1> DEFINE r == [i \in 1..Len(Meta!SizeOrder) |-> IF Meta!has(Meta!Meta, Meta!SizeOrder[i])
                   THEN Meta!size(Meta!FieldOf(Meta!Meta, Meta!SizeOrder[i])) ELSE 0]
<1>1. Meta!metaSize(Meta!Meta) = 2 + Meta!Total(r)
  BY Zenon DEF Meta!metaSize
<1>2. Len(Meta!SizeOrder) = 14 /\ \A i \in 1..14 : Meta!SizeOrder[i] \in Meta!Property
  BY OrdersAre
<1>3. ASSUME NEW i \in 1..14
      PROVE  (IF Meta!has(Meta!Meta, Meta!SizeOrder[i])
                THEN Meta!size(Meta!FieldOf(Meta!Meta, Meta!SizeOrder[i])) ELSE 0)
                = MetaLen(Meta!SizeOrder[i])
  <2> DEFINE p == Meta!SizeOrder[i]
  <2>1. p \in Meta!Property
    BY <1>2
  <2> HIDE DEF p
  <2>2. Meta!has(Meta!Meta, p) <=> Bit(bools1, bools2, p)
    BY <2>1, MetaFieldIs
  <2>3. Meta!size(Meta!FieldOf(Meta!Meta, p)) = Fields!size(MetaField(p))
    BY SameFields, Zenon DEF MetaField
  <2>4. (IF Meta!has(Meta!Meta, p) THEN Meta!size(Meta!FieldOf(Meta!Meta, p)) ELSE 0) = MetaLen(p)
    BY <2>2, <2>3, Zenon DEF MetaLen
  <2> QED BY <2>4 DEF p
<1>4. r = [i \in 1..14 |-> MetaLen(Meta!SizeOrder[i])]
  BY <1>2, <1>3, Zenon
<1> QED BY <1>1, <1>4, SameWire, Zenon

\* fill() writes as many octets as size() says, whatever is set.
LEMMA MetaFillsExactly == ASSUME Setting PROVE Meta!FillsExactly
<1> DEFINE s == [i \in 1..14 |-> MetaLen(Meta!SizeOrder[i])]
           t == [i \in 1..14 |-> MetaLen(Meta!FillOrder[i])]
<1>1. \A p \in Meta!Property : MetaLen(p) \in Nat
  BY MetaRowType
<1>2. /\ \A i \in 1..14 : MetaLen(Meta!SizeOrder[i]) \in Nat /\ MetaLen(Meta!FillOrder[i]) \in Nat
  BY <1>1, OrdersAre
<1>3. s \in Seq(Nat) /\ Len(s) = 14 /\ t \in Seq(Nat) /\ Len(t) = 14
  BY <1>2
<1>4. /\ s[1] = MetaLen("expiration") /\ s[2] = MetaLen("replyTo") /\ s[3] = MetaLen("correlationID")
      /\ s[4] = MetaLen("priority") /\ s[5] = MetaLen("deliveryMode") /\ s[6] = MetaLen("headers")
      /\ s[7] = MetaLen("contentEncoding") /\ s[8] = MetaLen("contentType") /\ s[9] = MetaLen("clusterID")
      /\ s[10] = MetaLen("appID") /\ s[11] = MetaLen("userID") /\ s[12] = MetaLen("typeName")
      /\ s[13] = MetaLen("timestamp") /\ s[14] = MetaLen("messageID")
  BY DEF Meta!SizeOrder
<1>5. /\ t[1] = MetaLen("contentType") /\ t[2] = MetaLen("contentEncoding") /\ t[3] = MetaLen("headers")
      /\ t[4] = MetaLen("deliveryMode") /\ t[5] = MetaLen("priority") /\ t[6] = MetaLen("correlationID")
      /\ t[7] = MetaLen("replyTo") /\ t[8] = MetaLen("expiration") /\ t[9] = MetaLen("messageID")
      /\ t[10] = MetaLen("timestamp") /\ t[11] = MetaLen("typeName") /\ t[12] = MetaLen("userID")
      /\ t[13] = MetaLen("appID") /\ t[14] = MetaLen("clusterID")
  BY DEF Meta!FillOrder
<1>6. Len(Fields!All(MetaRows)) = Fields!Total(t)
  <2>1. \A i \in 1..14 : t[i] = MetaLen(Meta!FillOrder[i])
    OBVIOUS
  <2> HIDE DEF t
  <2>2. ASSUME NEW i \in 1..14 PROVE Len(MetaRows[i]) = t[i]
    <3>1. Meta!FillOrder[i] \in Meta!Property
      BY OrdersAre
    <3>2. Len(MetaRow(Meta!FillOrder[i])) = MetaLen(Meta!FillOrder[i])
      BY <3>1, MetaRowType
    <3>3. MetaRows[i] = MetaRow(Meta!FillOrder[i])
      BY MetaRowsType
    <3> QED BY <2>1, <3>2, <3>3, Zenon
  <2>3. MetaRows \in Seq(Seq(Octets)) /\ Len(MetaRows) = 14
    BY MetaRowsType
  <2>4. Len(t) = Len(MetaRows) /\ \A i \in 1..Len(MetaRows) : Len(MetaRows[i]) = t[i]
    BY <1>3, <2>2, <2>3, Zenon
  <2> QED BY ONLY <1>3, <2>3, <2>4, LenAll
<1> HIDE DEF s, t
<1>7. Fields!Total(s) = s[1] + s[2] + s[3] + s[4] + s[5] + s[6] + s[7] + s[8] + s[9] + s[10] + s[11] + s[12] + s[13] + s[14]
  BY ONLY <1>3, FourteenSizes
<1>8. Fields!Total(t) = t[1] + t[2] + t[3] + t[4] + t[5] + t[6] + t[7] + t[8] + t[9] + t[10] + t[11] + t[12] + t[13] + t[14]
  BY ONLY <1>3, FourteenSizes
<1>9. /\ MetaLen("contentType") \in Nat /\ MetaLen("contentEncoding") \in Nat
      /\ MetaLen("headers") \in Nat /\ MetaLen("deliveryMode") \in Nat
      /\ MetaLen("priority") \in Nat /\ MetaLen("correlationID") \in Nat /\ MetaLen("replyTo") \in Nat
      /\ MetaLen("expiration") \in Nat
      /\ MetaLen("messageID") \in Nat /\ MetaLen("timestamp") \in Nat /\ MetaLen("typeName") \in Nat
      /\ MetaLen("userID") \in Nat
      /\ MetaLen("appID") \in Nat /\ MetaLen("clusterID") \in Nat
  BY <1>1, PropertiesAre, SMT
<1>10. Fields!Total(s) = Fields!Total(t)
  BY ONLY <1>4, <1>5, <1>7, <1>8, <1>9, SMT
<1>11. /\ <<bools1, bools2>> \in Seq(Octets) /\ Len(<<bools1, bools2>>) = 2
  <2>1. bools1 \in Octets /\ bools2 \in Octets
    BY Zenon DEF Setting, Announced
  <2> QED BY <2>1
<1>12. Fields!All(MetaRows) \in Seq(Octets)
  BY MetaRowsType, AllType
<1>13. Len(<<bools1, bools2>> \o Fields!All(MetaRows)) = 2 + Len(Fields!All(MetaRows))
  BY ONLY <1>11, <1>12, CatType
<1>14. Meta!metaSize(Meta!Meta) = 2 + Fields!Total(s)
  BY MetaSizeIs, Zenon DEF s
<1> QED BY <1>6, <1>10, <1>13, <1>14, MetaFillIs, Zenon DEF Meta!FillsExactly

\* Where the reading of properties starts, and where it is after i of them.
Defaults == [p \in Meta!Property |-> Meta!Default(p)]
\* What read() begins with: the two octets of bits, and no value.
Started(b1, b2) == [b1 |-> b1, b2 |-> b2, field |-> Defaults]
First(in) == [ok |-> TRUE, field |-> Defaults, rest |-> Meta!Rest(in, 2)]

\* g reads the properties of in one after the other, up to the n-th.
IsRead(g, start, in, n) ==
  g = [i \in 0..n |-> IF i = 0 THEN First(in) ELSE Meta!readProperty(start, g[i - 1], Meta!ReadOrder[i])]

\* Such a g exists for every number of properties.
LEMMA ReadExists ==
  ASSUME NEW start, NEW in PROVE \A n \in Nat : \E g : IsRead(g, start, in, n)
<1> DEFINE Step(w, i) == Meta!readProperty(start, w, Meta!ReadOrder[i])
           T == {n \in Nat : \E g : IsRead(g, start, in, n)}
<1>1. 0 \in T
  <2> DEFINE g == [i \in 0..0 |-> First(in)]
  <2>1. g = [i \in 0..0 |-> IF i = 0 THEN First(in) ELSE Step(g[i - 1], i)]
    OBVIOUS
  <2> QED BY <2>1 DEF IsRead
<1>2. ASSUME NEW n \in Nat \ {0}, n - 1 \in T PROVE n \in T
  <2>1. PICK g : g = [i \in 0..(n - 1) |-> IF i = 0 THEN First(in) ELSE Step(g[i - 1], i)]
    BY <1>2 DEF IsRead
  <2> HIDE DEF Step
  <2> DEFINE h == [i \in 0..n |-> IF i = n THEN Step(g[n - 1], n) ELSE g[i]]
  <2>2. ASSUME NEW i \in 0..n PROVE h[i] = IF i = 0 THEN First(in) ELSE Step(h[i - 1], i)
    <3>1. CASE i = n
      BY <3>1
    <3>2. CASE i # n
      BY <3>2, <2>1
    <3> QED BY <3>1, <3>2
  <2>3. h = [i \in 0..n |-> IF i = 0 THEN First(in) ELSE Step(h[i - 1], i)]
    BY <2>2
  <2> QED BY <2>3 DEF IsRead, Step
<1>3. ASSUME NEW n \in Nat PROVE n \in T
  <2>1. \A i \in 1..n : i - 1 \in T => i \in T
    BY <1>2
  <2> HIDE DEF T
  <2>2. \A i \in 0..n : i \in T
    BY <1>1, <2>1, Upward
  <2> QED BY <2>2
<1> QED BY <1>3

\* read() begins without a value.
LEMMA StartIs ==
  ASSUME NEW x, NEW y
  PROVE  /\ [b1 |-> x, b2 |-> y, field |-> Meta!Empty.field] = Started(x, y) /\ Meta!Empty.field = Defaults
         /\ \A f : [Started(x, y) EXCEPT !.field = f] = [b1 |-> x, b2 |-> y, field |-> f]
<1>1. Meta!Empty = Started(0, 0)
  BY Zenon DEF Meta!Empty, Started, Defaults
<1>2. Meta!Empty.field = Defaults
  BY <1>1 DEF Started
<1>3. [b1 |-> x, b2 |-> y, field |-> Meta!Empty.field] = Started(x, y)
  BY <1>2, Zenon DEF Started
<1>4. ASSUME NEW f PROVE [Started(x, y) EXCEPT !.field = f] = [b1 |-> x, b2 |-> y, field |-> f]
  BY DEF Started
<1> QED BY <1>2, <1>3, <1>4, Zenon

\* read() takes one property after the other: its steps, without the recursive function.
LEMMA ReadPick ==
  ASSUME NEW in
  PROVE  \E g : /\ g[0] = First(in)
                /\ \A i \in 1..14 : g[i]
                     = Meta!readProperty(Started(in[1], in[2]), g[i - 1], Meta!FillOrder[i])
                /\ Meta!metaRead(in) = [ok |-> g[14].ok, rest |-> g[14].rest,
                                        meta |-> [b1 |-> in[1], b2 |-> in[2], field |-> g[14].field]]
<1> DEFINE start == Started(in[1], in[2])
           upto[i \in 0..Len(Meta!ReadOrder)] ==
             IF i = 0 THEN First(in) ELSE Meta!readProperty(start, upto[i - 1], Meta!ReadOrder[i])
<1>0. Len(Meta!ReadOrder) = 14 /\ Meta!ReadOrder = Meta!FillOrder
  BY OrdersAre
<1>1. PICK g : IsRead(g, start, in, 14) /\ upto = g
  <2>1. \E g : IsRead(g, start, in, 14)
    <3>1. 14 \in Nat
      OBVIOUS
    <3> QED BY <3>1, ReadExists, Zenon
  <2>2. upto = CHOOSE g : IsRead(g, start, in, 14)
    BY <1>0, Zenon DEF IsRead
  <2> HIDE DEF upto
  <2> QED BY <2>1, <2>2, Zenon
<1>2. \A i \in 0..14 : g[i] = IF i = 0 THEN First(in)
      ELSE Meta!readProperty(start, g[i - 1], Meta!FillOrder[i])
  BY <1>0, <1>1 DEF IsRead
<1>3. g[0] = First(in)
  BY <1>2
<1>4. ASSUME NEW i \in 1..14 PROVE g[i] = Meta!readProperty(start, g[i - 1], Meta!FillOrder[i])
  <2>1. i \in 0..14 /\ i # 0
    OBVIOUS
  <2> QED BY <1>2, <2>1, Zenon
<1>5. Meta!metaRead(in) = [ok |-> g[14].ok, rest |-> g[14].rest,
                           meta |-> [b1 |-> in[1], b2 |-> in[2], field |-> g[14].field]]
  <2> DEFINE s == [b1 |-> in[1], b2 |-> in[2], field |-> Meta!Empty.field]
             w[i \in 0..Len(Meta!ReadOrder)] ==
               IF i = 0 THEN [ok |-> TRUE, field |-> Meta!Empty.field, rest |-> Meta!Rest(in, 2)]
               ELSE Meta!readProperty(s, w[i - 1], Meta!ReadOrder[i])
             e == w[Len(Meta!ReadOrder)]
  <2>1. Meta!metaRead(in) = [ok |-> e.ok, meta |-> [s EXCEPT !.field = e.field], rest |-> e.rest]
    BY Zenon DEF Meta!metaRead
  <2>2. s = start /\ Meta!Empty.field = Defaults
    BY StartIs, Zenon
  <2>3. w = upto
    BY <2>2, Zenon DEF First
  <2> HIDE DEF w, upto, s
  <2>4. e = g[14]
    BY <1>0, <1>1, <2>3, Zenon
  <2> HIDE DEF e
  <2>5. [s EXCEPT !.field = e.field] = [b1 |-> in[1], b2 |-> in[2], field |-> e.field]
    BY <2>2, StartIs, Zenon
  <2>6. Meta!metaRead(in) = [ok |-> e.ok, meta |-> [b1 |-> in[1], b2 |-> in[2], field |-> e.field],
        rest |-> e.rest]
    BY <2>1, <2>5, Zenon
  <2> QED BY <2>4, <2>6
<1> QED BY <1>3, <1>4, <1>5, Zenon

\* What has been read: values that the octets announce, and octets that follow.
Stage(b1, b2, w) ==
  /\ w = [ok |-> w.ok, field |-> w.field, rest |-> w.rest]
  /\ w.rest \in Seq(Octets) /\ Announced(b1, b2, w.field)

\* A long prefix can say at least what an octet can.
LEMMA OneOctet == 256 <= Fields!Base(LongWidth) /\ Fields!Base(LongWidth) \in Nat
<1>1. LongWidth \in Nat \ {0}
  BY WireAssumption
<1>2. Fields!Base(LongWidth) = 256 * Fields!Base(LongWidth - 1) /\ LongWidth - 1 \in Nat
  BY <1>1, BaseIs
<1>3. Fields!Base(LongWidth - 1) \in Nat /\ Fields!Base(LongWidth - 1) > 0
  BY <1>2, BaseIs
<1> QED BY <1>2, <1>3

\* How many octets the prefixes have.
LEMMA PrefixOf == Prefix("ShortString") = 1 /\ Prefix("Nested") = LongWidth
/\ Prefix("LongString") = LongWidth
  BY KindsAre DEF Prefix

\* A value that is read for a property is one that it may have.
LEMMA ReadValued ==
  ASSUME NEW p, p \in Meta!Property, NEW in, in \in Seq(Octets), NEW r, r = Meta!read(Meta!Kind[p], in), r.ok
  PROVE  Valued(p, r.value) /\ r.rest \in Seq(Octets)
<1> DEFINE k == Meta!Kind[p]
<1>1. k = "ShortString" \/ k = "Nested" \/ k = "UOctet" \/ k = "Timestamp"
  BY PropertiesAre
<1> HIDE DEF k
<1>2. /\ k \in Classes /\ (k \in Fields!Numeric <=> k = "UOctet" \/ k = "Timestamp")
      /\ (k \in Sized <=> k = "ShortString" \/ k = "Nested") /\ k \notin Fields!Signed
  BY <1>1, KindOf, Zenon
<1>3. r = Fields!read(k, in)
  BY SameFields, Zenon DEF k
<1> DEFINE f == [kind |-> k, value |-> 0]
<1>4. f.kind = k
  OBVIOUS
<1> HIDE DEF f
<1>5. CASE k \in Fields!Numeric
  <2>1. r = Fields!readNumeric(k, in)
    BY <1>3, <1>4, <1>5, ClassOf, Zenon
  <2>2. InRange(k, r.value) /\ r.rest \in Seq(Octets)
    BY <1>5, <2>1, NumericTold
  <2>3. r.value \in Int /\ 0 <= r.value /\ r.value < Fields!Base(Fields!Width[k])
    BY <1>2, <2>2, Zenon DEF InRange
  <2>4. r.value \in Nat
    BY <2>3
  <2> QED BY <1>5, <2>2, <2>3, <2>4, Zenon DEF Valued, k
<1>6. CASE k \in Sized /\ k \notin Fields!Numeric
  <2>1. r = Fields!readString(k, in)
    BY <1>3, <1>4, <1>6, ClassOf, Zenon
  <2>2. r.value \in Seq(Octets) /\ Len(r.value) < Fields!Base(Prefix(k)) /\ r.rest \in Seq(Octets)
    BY <1>6, <2>1, SizedTold
  <2>3. Fields!Base(Prefix(k)) <= Fields!Base(LongWidth) /\ Fields!Base(Prefix(k)) \in Nat
    <3>1. CASE k = "ShortString"
      <4>1. Fields!Base(Prefix(k)) = 256
        BY <3>1, PrefixOf, BaseIs
      <4> QED BY <4>1, OneOctet
    <3>2. CASE k = "Nested"
      <4>1. Fields!Base(Prefix(k)) = Fields!Base(LongWidth)
        BY <3>2, PrefixOf
      <4> QED BY <4>1, OneOctet
    <3> QED BY <1>2, <1>6, <3>1, <3>2, Zenon
  <2>4. Len(r.value) < Fields!Base(LongWidth)
    <3>1. Len(r.value) \in Nat
      BY <2>2
    <3> QED BY <2>2, <2>3, <3>1, OneOctet
  <2> QED BY <1>6, <2>2, <2>4, Zenon DEF Valued, k
<1> QED BY <1>1, <1>2, <1>5, <1>6, Zenon

\* has() during read(): the bits are the ones that were read.
LEMMA HasStarted ==
  ASSUME NEW b1, NEW b2, NEW p PROVE Meta!has(Started(b1, b2), p) <=> Bit(b1, b2, p)
<1>1. Started(b1, b2).b1 = b1 /\ Started(b1, b2).b2 = b2
  BY DEF Started
<1> QED BY <1>1, HasIs, Zenon

\* Reading a property keeps what was read values of their kinds.
LEMMA StageStep ==
  ASSUME NEW b1, NEW b2, NEW w, NEW p, Stage(b1, b2, w), p \in Meta!Property
  PROVE  Stage(b1, b2, Meta!readProperty(Started(b1, b2), w, p))
<1> DEFINE r == Meta!read(Meta!Kind[p], w.rest)
           s == Started(b1, b2)
           n == Meta!readProperty(s, w, p)
<1>1. /\ w = [ok |-> w.ok, field |-> w.field, rest |-> w.rest]
      /\ w.rest \in Seq(Octets) /\ Announced(b1, b2, w.field)
  BY Zenon DEF Stage
<1>2. n = IF ~w.ok \/ ~Meta!has(s, p) THEN w
          ELSE IF ~r.ok THEN [w EXCEPT !.ok = FALSE]
          ELSE [ok |-> TRUE, field |-> [w.field EXCEPT ![p] = r.value], rest |-> r.rest]
  BY Zenon DEF Meta!readProperty
<1>3. Meta!has(s, p) <=> Bit(b1, b2, p)
  BY HasStarted, Zenon
<1> HIDE DEF n, r, s
<1>4. CASE ~w.ok \/ ~Meta!has(s, p)
  BY <1>2, <1>4, Zenon DEF n, s
<1>5. CASE w.ok /\ Meta!has(s, p) /\ ~r.ok
  <2>1. n = [w EXCEPT !.ok = FALSE]
    BY <1>2, <1>5, Zenon
  <2>2. n.field = w.field /\ n.rest = w.rest /\ n = [ok |-> n.ok, field |-> n.field, rest |-> n.rest]
    BY <1>1, <2>1
  <2>3. Stage(b1, b2, n)
    BY <1>1, <2>2, Zenon DEF Stage
  <2> QED BY <2>3 DEF n, s
<1>6. CASE w.ok /\ Meta!has(s, p) /\ r.ok
  <2> DEFINE v == r.value
             f == [w.field EXCEPT ![p] = v]
  <2>1. n = [ok |-> TRUE, field |-> f, rest |-> r.rest]
    BY <1>2, <1>6, Zenon
  <2>2. Valued(p, v) /\ r.rest \in Seq(Octets)
    BY <1>1, <1>6, ReadValued DEF r
  <2>3. /\ b1 \in Octets /\ b2 \in Octets /\ w.field = [q \in Meta!Property |-> w.field[q]]
        /\ \A q \in Meta!Property : Valued(q, w.field[q]) /\ (w.field[q] # Meta!Default(q) => Bit(b1, b2, q))
    BY <1>1, Zenon DEF Announced
  <2> HIDE DEF v
  <2>4. f = [q \in Meta!Property |-> f[q]] /\ f[p] = v /\ \A q \in Meta!Property : q # p => f[q] = w.field[q]
    BY <2>3
  <2> HIDE DEF f
  <2>5. ASSUME NEW q \in Meta!Property PROVE Valued(q, f[q]) /\ (f[q] # Meta!Default(q) => Bit(b1, b2, q))
    <3>1. CASE q = p
      BY <1>3, <1>6, <2>2, <2>4, <3>1, Zenon
    <3>2. CASE q # p
      BY <2>3, <2>4, <3>2, Zenon
    <3> QED BY <3>1, <3>2
  <2>6. Announced(b1, b2, f)
    BY <2>3, <2>4, <2>5, Zenon DEF Announced
  <2>7. n.field = f /\ n.rest = r.rest /\ n = [ok |-> n.ok, field |-> n.field, rest |-> n.rest]
    BY <2>1
  <2>8. Stage(b1, b2, n)
    BY <2>2, <2>6, <2>7, Zenon DEF Stage
  <2> QED BY <2>8 DEF n, s
<1> QED BY <1>4, <1>5, <1>6, Zenon

\* Octets that begin with b1 and b2.
Opens(in, b1, b2, t) == b1 \in Octets /\ b2 \in Octets /\ t \in Seq(Octets) /\ in = <<b1, b2>> \o t

\* What is read of octets that begin with b1 and b2.
LEMMA ReadStages ==
  ASSUME NEW b1, NEW b2, NEW in, NEW t, Opens(in, b1, b2, t)
  PROVE  /\ in[1] = b1 /\ in[2] = b2 /\ Meta!Rest(in, 2) = t
         /\ Stage(b1, b2, First(in)) /\ First(in).ok /\ First(in).rest = t
<1>0. b1 \in Octets /\ b2 \in Octets /\ t \in Seq(Octets) /\ in = <<b1, b2>> \o t
  BY DEF Opens
<1>1. <<b1, b2>> \in Seq(Octets) /\ Len(<<b1, b2>>) = 2 /\ <<b1, b2>>[1] = b1 /\ <<b1, b2>>[2] = b2
  BY <1>0
<1> DEFINE a == <<b1, b2>>
<1> HIDE DEF a
<1>2. a \in Seq(Octets) /\ Len(a) = 2 /\ a[1] = b1 /\ a[2] = b2 /\ in = a \o t /\ t \in Seq(Octets)
  BY <1>0, <1>1 DEF a
<1>3. \A i \in 1..Len(a) : (a \o t)[i] = a[i]
  BY ONLY <1>2, CatType, ZenonT(60)
<1>4. in[1] = b1 /\ in[2] = b2
  <2>1. 1 \in 1..Len(a) /\ 2 \in 1..Len(a)
    BY <1>2
  <2> QED BY ONLY <1>2, <1>3, <2>1, Zenon
<1>5. SubSeq(a \o t, Len(a) + 1, Len(a \o t)) = t
  BY ONLY <1>2, CutFront
<1>6. Meta!Rest(in, 2) = t
  BY ONLY <1>2, <1>5, Zenon DEF Meta!Rest
<1>7. /\ First(in).ok /\ First(in).field = Defaults /\ First(in).rest = Meta!Rest(in, 2)
      /\ First(in) = [ok |-> First(in).ok, field |-> First(in).field, rest |-> First(in).rest]
  BY DEF First
<1>8. Announced(b1, b2, Defaults)
  BY <1>0, DefaultAnnounced, Zenon DEF Defaults
<1>9. Stage(b1, b2, First(in))
  BY <1>0, <1>6, <1>7, <1>8, Zenon DEF Stage
<1> QED BY <1>4, <1>6, <1>7, <1>9, Zenon

\* Reading what was written gives properties that can be set.
LEMMA SettingForward == ASSUME Setting, Meta!Forward PROVE Setting'
<1> DEFINE in == Meta!metaFill(Meta!Meta)
           t == Fields!All(MetaRows)
           r == Meta!metaRead(in)
<1>1. /\ metaCalls < MetaMax /\ metaCalls' = metaCalls + 1
      /\ bools1' = r.meta.b1 /\ bools2' = r.meta.b2 /\ field' = r.meta.field
  BY DEF Meta!Forward
<1>2. metaCalls \in 0..MetaMax /\ bools1 \in Octets /\ bools2 \in Octets
  BY Zenon DEF Setting, Announced
<1>3. in = <<bools1, bools2>> \o t /\ t \in Seq(Octets)
  BY MetaFillIs, MetaRowsType, AllType
<1> HIDE DEF in, t
<1>4. in[1] = bools1 /\ in[2] = bools2 /\ Stage(bools1, bools2, First(in))
  <2>1. Opens(in, bools1, bools2, t)
    BY <1>2, <1>3, Zenon DEF Opens
  <2> QED BY ONLY <2>1, ReadStages
<1>5. PICK g : /\ g[0] = First(in)
               /\ \A i \in 1..14 : g[i]
                    = Meta!readProperty(Started(in[1], in[2]), g[i - 1], Meta!FillOrder[i])
               /\ r = [ok |-> g[14].ok, rest |-> g[14].rest,
                       meta |-> [b1 |-> in[1], b2 |-> in[2], field |-> g[14].field]]
  BY ReadPick, Zenon
<1> HIDE DEF r
<1> DEFINE T == {i \in Nat : Stage(bools1, bools2, g[i])}
<1>6. 0 \in T
  BY <1>4, <1>5
<1>7. \A i \in 1..14 : i - 1 \in T => i \in T
  <2> SUFFICES ASSUME NEW i \in 1..14, i - 1 \in T PROVE i \in T
    OBVIOUS
  <2>1. Stage(bools1, bools2, g[i - 1]) /\ i \in Nat
    OBVIOUS
  <2>2. Meta!FillOrder[i] \in Meta!Property
    BY OrdersAre
  <2>3. g[i] = Meta!readProperty(Started(bools1, bools2), g[i - 1], Meta!FillOrder[i])
    BY <1>4, <1>5, Zenon
  <2>4. Stage(bools1, bools2, g[i])
    BY <2>1, <2>2, <2>3, StageStep, Zenon
  <2> QED BY <2>1, <2>4, Zenon
<1>8. Stage(bools1, bools2, g[14])
  <2> HIDE DEF T
  <2>1. \A i \in 0..14 : i \in T
    BY <1>6, <1>7, Upward
  <2>2. 14 \in T
    BY <2>1
  <2> QED BY <2>2 DEF T
<1>9. bools1' = bools1 /\ bools2' = bools2 /\ field' = g[14].field
  <2>1. r.meta.b1 = in[1] /\ r.meta.b2 = in[2] /\ r.meta.field = g[14].field
    BY <1>5
  <2> QED BY <1>1, <1>4, <2>1, Zenon
<1>10. Announced(bools1', bools2', field')
  BY <1>8, <1>9, Zenon DEF Stage
<1>11. metaCalls' \in 0..MetaMax
  BY <1>1, <1>2, MetaAssumption
<1> QED BY <1>10, <1>11 DEF Setting

\* Every step keeps the properties announced.
LEMMA SettingNext == ASSUME Setting, Meta!Next PROVE Setting'
  BY SettingSet, SettingPersistent, SettingForward DEF Meta!Next

\* The sequences from the i-th on.
From(a, i) == SubSeq(a, i, Len(a))

\* The sequence from its i-th element on.
LEMMA FromIs ==
  ASSUME NEW S, NEW a, NEW i, a \in Seq(S), i \in 1..(Len(a) + 1)
  PROVE  /\ From(a, i) \in Seq(S) /\ Len(From(a, i)) = Len(a) - i + 1
         /\ \A j \in 1..(Len(a) - i + 1) : From(a, i)[j] = a[i + j - 1]
<1> DEFINE n == Len(a)
           b == From(a, i)
<1>1. n \in 0..Len(a) /\ i \in Nat \ {0} /\ n \in Nat
  OBVIOUS
<1>2. SubSeq(a, i, n) = b
  BY DEF From
<1> HIDE DEF n, b
<1>3. /\ b \in Seq(S) /\ Len(b) = (IF i <= n THEN n - i + 1 ELSE 0)
      /\ \A j \in 1..(n - i + 1) : b[j] = a[i + j - 1]
  BY ONLY a \in Seq(S), <1>1, <1>2, SubType
<1>4. i \in 1..(n + 1)
  BY DEF n
<1>5. Len(b) = n - i + 1
  BY ONLY <1>1, <1>3, <1>4
<1> QED BY <1>3, <1>5 DEF n, b

\* All from the i-th on begins with the i-th.
LEMMA AllFrom ==
  ASSUME NEW S, NEW a, NEW i, a \in Seq(Seq(S)), i \in 1..Len(a)
  PROVE  /\ Fields!All(From(a, i)) = a[i] \o Fields!All(From(a, i + 1))
         /\ Fields!All(From(a, i + 1)) \in Seq(S) /\ a[i] \in Seq(S)
<1> DEFINE t == From(a, i)
           s == From(a, i + 1)
           x == a[i]
           n == Len(a)
           Q == Seq(S)
<1>0. a \in Seq(Q)
  OBVIOUS
<1>1. i \in 1..(n + 1) /\ i + 1 \in 1..(n + 1) /\ n \in Nat /\ i \in 1..n
  OBVIOUS
<1>2. x \in Seq(S)
  OBVIOUS
<1>3. /\ t \in Seq(Seq(S)) /\ Len(t) = n - i + 1
      /\ \A j \in 1..(n - i + 1) : t[j] = a[i + j - 1]
  <2> DEFINE k == i
  <2>1. k \in 1..(n + 1)
    BY <1>1
  <2> HIDE DEF k, Q
  <2>2. /\ From(a, k) \in Seq(Q) /\ Len(From(a, k)) = Len(a) - k + 1
        /\ \A j \in 1..(Len(a) - k + 1) : From(a, k)[j] = a[k + j - 1]
    BY ONLY <1>0, <2>1, FromIs
  <2> QED BY <2>2 DEF k, Q
<1>4. /\ s \in Seq(Seq(S)) /\ Len(s) = n - (i + 1) + 1
      /\ \A j \in 1..(n - (i + 1) + 1) : s[j] = a[i + 1 + j - 1]
  <2> DEFINE k == i + 1
  <2>1. k \in 1..(n + 1)
    BY <1>1
  <2> HIDE DEF k, Q
  <2>2. /\ From(a, k) \in Seq(Q) /\ Len(From(a, k)) = Len(a) - k + 1
        /\ \A j \in 1..(Len(a) - k + 1) : From(a, k)[j] = a[k + j - 1]
    BY ONLY <1>0, <2>1, FromIs
  <2> QED BY <2>2 DEF k, Q
<1> HIDE DEF s, t, x, n
<1>5. Len(t) = Len(s) + 1
  BY <1>1, <1>3, <1>4
<1>6. t[1] = x
  <2>1. 1 \in 1..(n - i + 1) /\ i + 1 - 1 = i
    BY <1>1
  <2> QED BY <1>3, <2>1 DEF x
<1>7. ASSUME NEW j \in 1..Len(s) PROVE t[j + 1] = s[j]
  <2>1. j + 1 \in 1..(n - i + 1) /\ j \in 1..(n - (i + 1) + 1) /\ i + (j + 1) - 1 = i + 1 + j - 1
    BY <1>1, <1>4
  <2>2. t[j + 1] = a[i + (j + 1) - 1]
    BY <1>3, <2>1
  <2> QED BY <1>4, <2>1, <2>2
<1>8. Fields!All(t) = x \o Fields!All(s)
  BY ONLY <1>2, <1>3, <1>4, <1>5, <1>6, <1>7, AllCons
<1>9. Fields!All(s) \in Seq(S)
  BY <1>4, AllType
<1> QED BY <1>2, <1>8, <1>9 DEF s, t, x

\* From the first on it is all, and after the last it is nothing.
LEMMA FromAll ==
  ASSUME NEW S, NEW a, a \in Seq(S)
  PROVE  From(a, 1) = a /\ Len(From(a, Len(a) + 1)) = 0 /\ Fields!All(From(a, Len(a) + 1)) = <<>>
<1> DEFINE n == Len(a)
           m == n + 1
           b == From(a, 1)
<1>1. n \in Nat /\ 1 \in 1..(n + 1) /\ m \in 1..(n + 1)
  OBVIOUS
<1>2. b \in Seq(S) /\ Len(b) = n - 1 + 1 /\ \A j \in 1..(n - 1 + 1) : b[j] = a[1 + j - 1]
  BY <1>1, FromIs
<1>3. Len(b) = Len(a) /\ \A j \in 1..Len(a) : b[j] = a[j]
  BY <1>1, <1>2
<1> HIDE DEF b
<1>4. b = a
  BY <1>2, <1>3, SeqEqual
<1>5. Len(From(a, m)) = n - m + 1
  <2> HIDE DEF m
  <2> QED BY <1>1, FromIs
<1>6. Len(From(a, m)) = 0
  BY <1>1, <1>5
<1> HIDE DEF m
<1>7. Fields!All(From(a, m)) = <<>>
  BY <1>6, AllEmpty
<1> QED BY <1>4, <1>6, <1>7 DEF b, m

\* The octets of the properties that follow the first i.
After(i) == Fields!All(From(MetaRows, i + 1))

\* The octets after i - 1 properties begin with those of the i-th.
LEMMA AfterStep ==
  ASSUME Setting, NEW i \in 1..14
  PROVE  After(i - 1) = MetaRow(Meta!FillOrder[i]) \o After(i) /\ After(i) \in Seq(Octets)
<1> DEFINE a == MetaRows
           k == i
<1>1. a \in Seq(Seq(Octets)) /\ Len(a) = 14 /\ a[i] = MetaRow(Meta!FillOrder[i])
  BY MetaRowsType
<1>2. k \in 1..Len(a) /\ i - 1 + 1 = k /\ i = k
  BY <1>1
<1> HIDE DEF a, k
<1>3. Fields!All(From(a, k)) = a[k] \o Fields!All(From(a, k + 1))
      /\ Fields!All(From(a, k + 1)) \in Seq(Octets)
  BY ONLY <1>1, <1>2, AllFrom, ZenonT(60)
<1> QED BY <1>1, <1>2, <1>3, Zenon DEF After, a

\* After the fourteenth nothing is left; before the first, all is.
LEMMA AfterEnds == ASSUME Setting PROVE After(14) = <<>> /\ After(0) = Fields!All(MetaRows)
<1> DEFINE a == MetaRows
           Q == Seq(Octets)
<1>1. a \in Seq(Q) /\ Len(a) = 14
  BY MetaRowsType
<1> HIDE DEF a, Q
<1>2. From(a, 1) = a /\ Fields!All(From(a, Len(a) + 1)) = <<>>
  BY ONLY <1>1, FromAll
<1>3. 0 + 1 = 1
  OBVIOUS
<1> QED BY <1>1, <1>2, <1>3, Zenon DEF After, a

\* A value of a property fits what announces its size.
LEMMA MetaTold ==
  ASSUME Setting, Meta!Short, NEW p \in Meta!Property
  PROVE  Told(Meta!Kind[p], field[p]) /\ Meta!Kind[p] \in Classes
<1> DEFINE k == Meta!Kind[p]
           v == field[p]
<1>1. k = "ShortString" \/ k = "Nested" \/ k = "UOctet" \/ k = "Timestamp"
  BY PropertiesAre
<1>2. Valued(p, v)
  BY Zenon DEF Setting, Announced
<1>3. k = "ShortString" => Len(v) <= 255
  BY Zenon DEF Meta!Short
<1>4. /\ k \in Classes /\ (k \in Fields!Numeric <=> k = "UOctet" \/ k = "Timestamp")
      /\ (k \in Sized <=> k = "ShortString" \/ k = "Nested") /\ k # "Decimal" /\ k # "BooleanSet"
      /\ k \notin Fields!Signed
  <2> HIDE DEF k
  <2> QED BY <1>1, KindOf, Zenon
<1>5. CASE k \in Fields!Numeric
  <2>1. v \in Nat /\ v < Fields!Base(Fields!Width[k])
    BY <1>2, <1>5, Zenon DEF Valued
  <2>2. v \in Int /\ 0 <= v
    BY <2>1
  <2>3. InRange(k, v)
    BY <1>4, <2>1, <2>2, Zenon DEF InRange
  <2> QED BY <1>4, <1>5, <2>3, Zenon DEF Told
<1>6. CASE k \in Sized
  <2>1. v \in Seq(Octets) /\ Len(v) < Fields!Base(LongWidth) /\ k \notin Fields!Numeric
    <3>1. k \notin Fields!Numeric
      <4> HIDE DEF k
      <4> QED BY <1>4, <1>6
    <3> QED BY <1>2, <1>4, <1>6, <3>1, Zenon DEF Valued
  <2>2. Len(v) < Fields!Base(Prefix(k))
    <3>1. CASE k = "ShortString"
      <4>1. Fields!Base(Prefix(k)) = 256
        BY <3>1, PrefixOf, BaseIs
      <4>2. Len(v) \in Nat /\ Len(v) <= 255
        BY <1>3, <2>1, <3>1
      <4> HIDE DEF v, k
      <4> QED BY <4>1, <4>2
    <3>2. CASE k = "Nested"
      <4>1. Fields!Base(Prefix(k)) = Fields!Base(LongWidth)
        BY <3>2, PrefixOf
      <4> QED BY <4>1, <2>1
    <3> QED BY <1>4, <1>6, <3>1, <3>2, Zenon
  <2> QED BY <1>4, <1>6, <2>1, <2>2, Zenon DEF Told
<1> QED BY <1>1, <1>4, <1>5, <1>6, Zenon

\* After i properties have been read, those announced among them have their values and the
\* octets of the others are left.
Done(i, w) ==
  /\ w.ok /\ w.rest = After(i) /\ w.field = [q \in Meta!Property |-> w.field[q]]
  /\ \A j \in 1..i : Bit(bools1, bools2, Meta!FillOrder[j])
       => w.field[Meta!FillOrder[j]] = field[Meta!FillOrder[j]]

\* Reading the i-th property gives its value and leaves what was written after it.
LEMMA DoneStep ==
  ASSUME Setting, Meta!Short, NEW i \in 1..14, NEW w, Done(i - 1, w)
  PROVE  Done(i, Meta!readProperty(Started(bools1, bools2), w, Meta!FillOrder[i]))
<1> DEFINE p == Meta!FillOrder[i]
           s == Started(bools1, bools2)
           r == Meta!read(Meta!Kind[p], w.rest)
           n == Meta!readProperty(s, w, p)
<1>1. /\ w.ok /\ w.rest = After(i - 1) /\ w.field = [q \in Meta!Property |-> w.field[q]]
      /\ \A j \in 1..(i - 1) : Bit(bools1, bools2, Meta!FillOrder[j]) =>
                                w.field[Meta!FillOrder[j]] = field[Meta!FillOrder[j]]
  BY Zenon DEF Done
<1>2. p \in Meta!Property /\ \A j \in 1..14 : Meta!FillOrder[j] = p => j = i
  BY OrdersAre
<1>3. n = IF ~w.ok \/ ~Meta!has(s, p) THEN w
          ELSE IF ~r.ok THEN [w EXCEPT !.ok = FALSE]
          ELSE [ok |-> TRUE, field |-> [w.field EXCEPT ![p] = r.value], rest |-> r.rest]
  BY Zenon DEF Meta!readProperty
<1>4. Meta!has(s, p) <=> Bit(bools1, bools2, p)
  BY HasStarted, Zenon
<1>5. After(i - 1) = MetaRow(p) \o After(i) /\ After(i) \in Seq(Octets)
  BY AfterStep
<1>6. \A j \in 1..i : j = i \/ (j \in 1..(i - 1) /\ j \in 1..14)
  OBVIOUS
<1>7. MetaField(p).kind = Meta!Kind[p] /\ MetaField(p).value = field[p]
  BY <1>2, MetaFieldIs, Zenon
<1>8. Told(Meta!Kind[p], field[p]) /\ Meta!Kind[p] \in Classes
  BY <1>2, MetaTold, Zenon
<1>9. r = Fields!read(Meta!Kind[p], w.rest)
  BY SameFields, Zenon
<1> HIDE DEF n, r, s, p
<1>10. CASE ~Bit(bools1, bools2, p)
  <2>1. n = w
    BY <1>3, <1>4, <1>10, Zenon
  <2>2. MetaRow(p) = <<>>
    BY <1>10, Zenon DEF MetaRow
  <2>3. After(i - 1) = After(i)
    BY ONLY <1>5, <2>2
  <2>4. ASSUME NEW j \in 1..i, Bit(bools1, bools2, Meta!FillOrder[j])
        PROVE  w.field[Meta!FillOrder[j]] = field[Meta!FillOrder[j]]
    BY <1>1, <1>6, <1>10, <2>4, Zenon DEF p
  <2>5. Done(i, w)
    BY <1>1, <2>3, <2>4, Zenon DEF Done
  <2> QED BY <2>1, <2>5, Zenon DEF n, s, p
<1>11. CASE Bit(bools1, bools2, p)
  <2> DEFINE f == MetaField(p)
             rest == After(i)
             in == w.rest
             v == field[p]
             g == [w.field EXCEPT ![p] = v]
  <2>1. MetaRow(p) = Fields!fill(f)
    BY <1>11, Zenon DEF MetaRow
  <2>2. f.kind \in Classes /\ Told(f.kind, f.value) /\ rest \in Seq(Octets) /\ in = Fields!fill(f) \o rest
    BY <1>1, <1>5, <1>7, <1>8, <2>1, Zenon
  <2> HIDE DEF f, rest, in, v
  <2>3. Fields!read(f.kind, in) = Fields!Got(f.value, rest)
    BY ONLY <2>2, FieldReads
  <2>4. r = Fields!Got(v, rest)
    BY <1>7, <1>9, <2>3, Zenon DEF f, in, v
  <2>5. r.ok /\ r.value = v /\ r.rest = rest
    BY <2>4 DEF Fields!Got
  <2>6. n = [ok |-> TRUE, field |-> g, rest |-> rest]
    BY <1>1, <1>3, <1>4, <1>11, <2>5, Zenon
  <2>7. g = [q \in Meta!Property |-> g[q]] /\ g[p] = v /\ \A q \in Meta!Property : q # p => g[q] = w.field[q]
    BY <1>1, <1>2
  <2> HIDE DEF g
  <2>8. n.ok /\ n.field = g /\ n.rest = rest
    BY <2>6
  <2>9. ASSUME NEW j \in 1..i, Bit(bools1, bools2, Meta!FillOrder[j])
        PROVE  g[Meta!FillOrder[j]] = field[Meta!FillOrder[j]]
    <3>1. CASE j = i
      BY <2>7, <3>1, Zenon DEF p, v
    <3>2. CASE j # i
      <4>1. j \in 1..(i - 1) /\ j \in 1..14
        BY <1>6, <3>2, Zenon
      <4>2. Meta!FillOrder[j] # p /\ Meta!FillOrder[j] \in Meta!Property
        BY <1>2, <3>2, <4>1, OrdersAre, Zenon
      <4> QED BY <1>1, <2>7, <2>9, <4>1, <4>2, Zenon
    <3> QED BY <3>1, <3>2
  <2>10. Done(i, n)
    BY <2>7, <2>8, <2>9, Zenon DEF Done, rest
  <2> QED BY <2>10 DEF n, s, p
<1> QED BY <1>10, <1>11

\* What was set is read as it was written, unless a string is longer than its prefix says.
LEMMA MetaRoundTrip == ASSUME Setting PROVE Meta!RoundTrip
<1> SUFFICES ASSUME Meta!Short PROVE Meta!RoundTrip
  BY Zenon DEF Meta!RoundTrip
<1> DEFINE in == Meta!metaFill(Meta!Meta)
           t == Fields!All(MetaRows)
           r == Meta!metaRead(in)
<1>1. bools1 \in Octets /\ bools2 \in Octets
  BY Zenon DEF Setting, Announced
<1>2. in = <<bools1, bools2>> \o t /\ t \in Seq(Octets)
  BY MetaFillIs, MetaRowsType, AllType
<1> HIDE DEF in
<1>3. in[1] = bools1 /\ in[2] = bools2 /\ First(in).ok /\ First(in).rest = t
  <2> HIDE DEF t
  <2>1. Opens(in, bools1, bools2, t)
    BY <1>1, <1>2, Zenon DEF Opens
  <2> QED BY ONLY <2>1, ReadStages
<1>4. PICK g : /\ g[0] = First(in)
               /\ \A i \in 1..14 : g[i]
                    = Meta!readProperty(Started(in[1], in[2]), g[i - 1], Meta!FillOrder[i])
               /\ r = [ok |-> g[14].ok, rest |-> g[14].rest,
                       meta |-> [b1 |-> in[1], b2 |-> in[2], field |-> g[14].field]]
  BY ReadPick, Zenon
<1> HIDE DEF r
<1> DEFINE T == {i \in Nat : Done(i, g[i])}
<1>5. 0 \in T
  <2>1. First(in).field = [q \in Meta!Property |-> First(in).field[q]]
    BY DEF First, Defaults
  <2>2. ~(\E j \in 1..0 : TRUE)
    OBVIOUS
  <2>3. Done(0, First(in))
    BY <1>3, <2>1, <2>2, AfterEnds, Zenon DEF Done
  <2> QED BY <1>4, <2>3
<1>6. \A i \in 1..14 : i - 1 \in T => i \in T
  <2> SUFFICES ASSUME NEW i \in 1..14, i - 1 \in T PROVE i \in T
    OBVIOUS
  <2>1. Done(i - 1, g[i - 1]) /\ i \in Nat
    OBVIOUS
  <2>2. g[i] = Meta!readProperty(Started(bools1, bools2), g[i - 1], Meta!FillOrder[i])
    BY <1>3, <1>4, Zenon
  <2>3. Done(i, g[i])
    BY <2>1, <2>2, DoneStep, Zenon
  <2> QED BY <2>1, <2>3, Zenon
<1>7. Done(14, g[14])
  <2> HIDE DEF T
  <2>1. \A i \in 0..14 : i \in T
    BY <1>5, <1>6, Upward
  <2>2. 14 \in T
    BY <2>1
  <2> QED BY <2>2 DEF T
<1>8. /\ r.ok = g[14].ok /\ r.rest = g[14].rest
      /\ r.meta.b1 = in[1] /\ r.meta.b2 = in[2] /\ r.meta.field = g[14].field
  BY <1>4
<1>9. r.ok /\ r.rest = <<>>
  BY <1>7, <1>8, AfterEnds, Zenon DEF Done
<1>10. ASSUME NEW p \in Meta!Property
       PROVE  /\ Meta!has(r.meta, p) <=> Meta!has(Meta!Meta, p)
              /\ Meta!has(Meta!Meta, p) => r.meta.field[p] = field[p]
  <2>1. Meta!has(r.meta, p) <=> Bit(bools1, bools2, p)
    BY <1>3, <1>8, HasIs, Zenon
  <2>2. Meta!has(Meta!Meta, p) <=> Bit(bools1, bools2, p)
    BY MetaFieldIs, Zenon
  <2>3. PICK j \in 1..14 : Meta!FillOrder[j] = p
    BY OrdersAre
  <2>4. Bit(bools1, bools2, p) => g[14].field[p] = field[p]
    BY <1>7, <2>3, Zenon DEF Done
  <2> QED BY <1>8, <2>1, <2>2, <2>4, Zenon
<1>11. Meta!persistent(r.meta) <=> Meta!persistent(Meta!Meta)
  <2>1. "deliveryMode" \in Meta!Property
    BY PropertiesAre
  <2>2. Meta!Meta.field = field
    BY DEF Meta!Meta
  <2> QED BY <1>10, <2>1, <2>2, Zenon DEF Meta!persistent
<1> QED BY <1>9, <1>10, <1>11, Zenon DEF Meta!RoundTrip, r, in

-----------------------------------------------------------------------------
(* Tables of fields.                                                       *)

\* The C++ types of integers.
Ints == {"uint8", "int8", "uint16", "int16", "uint32", "int32", "uint64", "int64"}

\* The class that is selected for each C++ type, by Table::set and by the proxies alike.
LEMMA SelectedKinds ==
  /\ DOMAIN Fields!SetKind = Ints \cup {"bool", "string"}
  /\ DOMAIN Fields!ProxyKind = Ints \cup {"bool", "string", "decimal"}
  /\ \A c \in DOMAIN Fields!SetKind : c \in DOMAIN Fields!ProxyKind /\ Fields!SetKind[c] = Fields!ProxyKind[c]
  /\ Fields!ProxyKind["bool"] = "BooleanSet" /\ Fields!ProxyKind["string"] = "LongString"
  /\ Fields!ProxyKind["decimal"] = "Decimal"
  /\ \A c \in Ints : /\ Fields!ProxyKind[c] \in Fields!Numeric
                     /\ Fields!ProxyKind[c] \in Fields!Signed <=> c \in {"int8", "int16", "int32", "int64"}
<1>1. /\ DOMAIN Fields!SetKind = Ints \cup {"bool", "string"}
      /\ DOMAIN Fields!ProxyKind = Ints \cup {"bool", "string", "decimal"}
  BY DEF Fields!SetKind, Fields!ProxyKind, Ints
<1>2. /\ Fields!ProxyKind["bool"] = "BooleanSet" /\ Fields!ProxyKind["string"] = "LongString"
      /\ Fields!ProxyKind["decimal"] = "Decimal"
      /\ Fields!ProxyKind["uint8"] = "UOctet" /\ Fields!ProxyKind["int8"] = "Octet"
      /\ Fields!ProxyKind["uint16"] = "UShort" /\ Fields!ProxyKind["int16"] = "Short"
      /\ Fields!ProxyKind["uint32"] = "ULong" /\ Fields!ProxyKind["int32"] = "Long"
      /\ Fields!ProxyKind["uint64"] = "ULongLong" /\ Fields!ProxyKind["int64"] = "LongLong"
  BY DEF Fields!ProxyKind
<1>3. /\ Fields!SetKind["bool"] = "BooleanSet" /\ Fields!SetKind["string"] = "LongString"
      /\ Fields!SetKind["uint8"] = "UOctet" /\ Fields!SetKind["int8"] = "Octet"
      /\ Fields!SetKind["uint16"] = "UShort" /\ Fields!SetKind["int16"] = "Short"
      /\ Fields!SetKind["uint32"] = "ULong" /\ Fields!SetKind["int32"] = "Long"
      /\ Fields!SetKind["uint64"] = "ULongLong" /\ Fields!SetKind["int64"] = "LongLong"
  BY DEF Fields!SetKind
<1>4. ASSUME NEW c \in DOMAIN Fields!SetKind
      PROVE  c \in DOMAIN Fields!ProxyKind /\ Fields!SetKind[c] = Fields!ProxyKind[c]
  BY <1>1, <1>2, <1>3 DEF Ints
<1>5. ASSUME NEW c \in Ints
      PROVE  /\ Fields!ProxyKind[c] \in Fields!Numeric
             /\ Fields!ProxyKind[c] \in Fields!Signed <=> c \in {"int8", "int16", "int32", "int64"}
  BY <1>2, KindsAre DEF Ints, Fields!Signed
<1> QED BY <1>1, <1>2, <1>4, <1>5, Zenon

\* A number is in the range of the class that is selected for its type.
LEMMA IntInRange ==
  ASSUME NEW c, NEW v, c \in Ints, Fields!IsValue(c, v) PROVE InRange(Fields!ProxyKind[c], v)
<1> DEFINE k == Fields!ProxyKind[c]
           n == Fields!Width[k]
<1>1. /\ k \in Fields!Numeric /\ (k \in Fields!Signed <=> c \in {"int8", "int16", "int32", "int64"})
      /\ Fields!SetKind[c] = k
  BY SelectedKinds
<1>2. n \in Nat \ {0}
  BY <1>1, KindsAre
<1>3. c # "bool" /\ c # "string" /\ c # "decimal"
  BY DEF Ints
<1>4. Half(n) \in Nat /\ Fields!Base(n) \in Nat /\ Half(n) = 128 * Fields!Base(n - 1)
  BY <1>2, HalfIs DEF Half
<1>5. CASE c \in {"int8", "int16", "int32", "int64"}
  <2>1. c \notin {"uint8", "uint16", "uint32", "uint64"}
    BY <1>5
  <2>2. v \in (-(128 * Fields!Base(n - 1)))..(128 * Fields!Base(n - 1) - 1)
    BY <1>1, <1>3, <1>5, <2>1, Zenon DEF Fields!IsValue
  <2>3. v \in (-Half(n))..(Half(n) - 1)
    BY <1>4, <2>2, Zenon
  <2> HIDE DEF n
  <2>4. v \in Int /\ -Half(n) <= v /\ v < Half(n)
    BY <1>4, <2>3
  <2> QED BY <1>1, <1>5, <2>4, Zenon DEF InRange, n
<1>6. CASE c \in {"uint8", "uint16", "uint32", "uint64"}
  <2>1. c \notin {"int8", "int16", "int32", "int64"}
    BY <1>6
  <2>2. v \in 0..(Fields!Base(n) - 1)
    BY <1>1, <1>3, <1>6, <2>1, Zenon DEF Fields!IsValue
  <2> HIDE DEF n
  <2>3. v \in Int /\ 0 <= v /\ v < Fields!Base(n)
    BY <1>4, <2>2
  <2> QED BY <1>1, <2>1, <2>3, Zenon DEF InRange, n
<1> QED BY <1>5, <1>6 DEF Ints

\* A cast to the type of a number leaves it alone.
LEMMA CastIs ==
  ASSUME NEW k, NEW v, k \in Fields!Numeric, InRange(k, v) PROVE Fields!cast(k, v) = v
<1> DEFINE n == Fields!Width[k]
           u == v % Fields!Base(n)
<1>1. v = IF k \in Fields!Signed THEN SignedOf(u, n) ELSE u
  <2> HIDE DEF u
  <2>1. u = v % Fields!Base(Fields!Width[k])
    BY DEF u
  <2> QED BY <2>1, SignKept
<1>2. Fields!cast(k, v) = IF k \in Fields!Signed
      /\ u >= 128 * Fields!Base(n - 1) THEN u - Fields!Base(n) ELSE u
  BY Zenon DEF Fields!cast
<1> HIDE DEF u, n
<1> QED BY <1>1, <1>2, Zenon DEF SignedOf, Half

\* A boolean is the rightmost bit of an octet.
LEMMA BooleanIs ==
  ASSUME NEW v \in BOOLEAN
  PROVE  Fields!BooleanSet(v) \in Octets /\ Fields!getBit(Fields!BooleanSet(v), 0) = v
<1>1. 2 ^ 0 = 1
  BY SMT
<1>2. CASE v = TRUE
  <2>1. ~Fields!getBit(0, 0)
    BY <1>1 DEF Fields!getBit
  <2>2. Fields!BooleanSet(TRUE) = 1
    BY <1>1, <2>1 DEF Fields!BooleanSet, Fields!setBit
  <2>3. Fields!getBit(1, 0) = TRUE
    BY <1>1 DEF Fields!getBit
  <2>4. 1 \in Octets
    BY DEF Octets
  <2> QED BY <1>2, <2>2, <2>3, <2>4, Zenon
<1>3. CASE v = FALSE
  <2>1. Fields!getBit(0, 0) = FALSE
    BY <1>1 DEF Fields!getBit
  <2>2. Fields!BooleanSet(FALSE) = 0
    BY <2>1 DEF Fields!BooleanSet, Fields!setBit
  <2>4. 0 \in Octets
    BY DEF Octets
  <2> QED BY <1>3, <2>1, <2>2, <2>4, Zenon
<1> QED BY <1>2, <1>3

\* A field other than an array: its value is one that its class can write, and one that is
\* read back unless it is a string that is too long.
Plain(f) ==
  /\ f = [kind |-> f.kind, value |-> f.value]
  /\ f.kind \in Classes /\ f.kind \in DOMAIN Fields!TypeID /\ f.kind # "Array" /\ Holds(f.kind, f.value)
  /\ (f.kind = "LongString" => Len(f.value) < Fields!Base(LongWidth)) => Told(f.kind, f.value)

\* The type identifiers.
LEMMA Identifiers ==
  /\ DOMAIN Fields!TypeID = (Classes \cup {"Array"}) \ {"Nested"}
  /\ \A k \in DOMAIN Fields!TypeID : Fields!TypeID[k] \in Octets
  /\ \A j, k \in DOMAIN Fields!TypeID : Fields!TypeID[j] = Fields!TypeID[k] => j = k
<1>1. DOMAIN Fields!TypeID = {"Octet", "UOctet", "Short", "UShort", "Long", "ULong", "LongLong", "ULongLong",
                              "Timestamp", "ShortString", "LongString", "Decimal", "BooleanSet", "Array"}
  BY DEF Fields!TypeID
<1>2. /\ Fields!TypeID["Octet"] = 98 /\ Fields!TypeID["UOctet"] = 66 /\ Fields!TypeID["Short"] = 85
      /\ Fields!TypeID["UShort"] = 117 /\ Fields!TypeID["Long"] = 73 /\ Fields!TypeID["ULong"] = 105
      /\ Fields!TypeID["LongLong"] = 76 /\ Fields!TypeID["ULongLong"] = 108 /\ Fields!TypeID["Timestamp"] = 84
      /\ Fields!TypeID["ShortString"] = 115 /\ Fields!TypeID["LongString"] = 83
      /\ Fields!TypeID["Decimal"] = 68 /\ Fields!TypeID["BooleanSet"] = 116 /\ Fields!TypeID["Array"] = 65
  BY DEF Fields!TypeID
<1>3. DOMAIN Fields!TypeID = (Classes \cup {"Array"}) \ {"Nested"}
  BY <1>1, KindsAre DEF Classes, Sized
<1>4. ASSUME NEW k \in DOMAIN Fields!TypeID PROVE Fields!TypeID[k] \in Octets
  BY <1>1, <1>2 DEF Octets
<1>5. ASSUME NEW j \in DOMAIN Fields!TypeID, NEW k \in DOMAIN Fields!TypeID,
             Fields!TypeID[j] = Fields!TypeID[k]
      PROVE  j = k
  BY <1>1, <1>2, <1>5
<1> QED BY <1>3, <1>4, <1>5

\* The identifier that is written for a kind is read as the kind.
LEMMA KindForIs ==
  ASSUME NEW k, k \in DOMAIN Fields!TypeID PROVE Fields!KindFor(Fields!TypeID[k]) = k
<1> DEFINE id == Fields!TypeID[k]
           D == DOMAIN Fields!TypeID
<1>1. \A j \in D : Fields!TypeID[j] = id => j = k
  BY Identifiers
<1>2. k \in D /\ Fields!TypeID[k] = id
  OBVIOUS
<1> HIDE DEF id, D
<1>3. (CHOOSE j \in D : Fields!TypeID[j] = id) = k
  BY <1>1, <1>2
<1> QED BY <1>3 DEF id, D, Fields!KindFor

\* The field that is made of a value.
LEMMA ValueIs ==
  ASSUME NEW k, NEW v, NEW f, f = Fields!Value(k, v)
  PROVE  /\ f.kind = k /\ f = [kind |-> f.kind, value |-> f.value]
         /\ f.value = IF k = "BooleanSet" THEN Fields!BooleanSet(v) ELSE v
<1> DEFINE x == IF k = "BooleanSet" THEN Fields!BooleanSet(v) ELSE v
<1>1. f = [kind |-> k, value |-> x]
  BY Zenon DEF Fields!Value
<1> HIDE DEF x
<1>2. f.kind = k /\ f.value = x
  BY <1>1
<1> QED BY <1>1, <1>2, Zenon DEF x

\* What a program stores is a field that is read as the value that it stored.
LEMMA StoredPlain ==
  ASSUME NEW c, NEW v, NEW f, c \in DOMAIN Fields!ProxyKind, Fields!IsValue(c, v),
         f = Fields!Value(Fields!ProxyKind[c], v)
  PROVE  Plain(f) /\ Fields!ReadAs(c, f) = v
<1> DEFINE k == Fields!ProxyKind[c]
<1>1. /\ f.kind = k /\ f = [kind |-> f.kind, value |-> f.value]
      /\ f.value = IF k = "BooleanSet" THEN Fields!BooleanSet(v) ELSE v
  <2> HIDE DEF k
  <2>1. f = Fields!Value(k, v)
    BY DEF k
  <2> QED BY ONLY <2>1, ValueIs
<1>2. CASE c \in Ints
  <2>1. k \in Fields!Numeric /\ Fields!SetKind[c] = k
    BY <1>2, SelectedKinds
  <2>2. c # "bool" /\ c \notin {"string", "decimal", "Array"}
    BY <1>2 DEF Ints
  <2>3. InRange(k, v)
    BY <1>2, IntInRange, Zenon
  <2> HIDE DEF k
  <2>4. /\ k # "BooleanSet" /\ k \notin Sized /\ k # "Decimal" /\ k # "Array" /\ k # "LongString"
        /\ k # "Nested" /\ k \in Classes
    BY <2>1, KindsAre DEF Sized, Classes
  <2>5. f.value = v
    BY <1>1, <2>4, Zenon
  <2>6. Told(k, v) /\ Holds(k, v)
    BY <2>1, <2>3, <2>4, Zenon DEF Told, Holds, InRange
  <2>7. k \in DOMAIN Fields!TypeID
    BY <2>4, Identifiers
  <2>8. Plain(f)
    BY <1>1, <2>4, <2>5, <2>6, <2>7, Zenon DEF Plain
  <2>9. Fields!ReadAs(c, f) = Fields!cast(k, v)
    <3>1. f.kind \in Fields!Numeric
      BY <1>1, <2>1 DEF k
    <3>2. c # "bool" /\ c # "decimal" /\ c # "string" /\ c # "Array"
      BY <2>2
    <3>3. Fields!Converted(c, f) = Fields!cast(Fields!SetKind[c], f.value)
      BY <3>1, <3>2, Zenon DEF Fields!Converted
    <3> QED BY <2>1, <2>5, <3>2, <3>3, Zenon DEF Fields!ReadAs
  <2> QED BY <2>1, <2>3, <2>8, <2>9, CastIs, Zenon
<1>3. CASE c = "bool"
  <2>1. k = "BooleanSet"
    BY <1>3, SelectedKinds
  <2>2. v \in BOOLEAN
    BY <1>3, Zenon DEF Fields!IsValue
  <2>3. f.value \in Octets /\ Fields!getBit(f.value, 0) = v
    BY <1>1, <2>1, <2>2, BooleanIs, Zenon
  <2> HIDE DEF k
  <2>4. k \notin Fields!Numeric /\ k \notin Sized /\ k # "Decimal" /\ k # "Array" /\ k # "LongString"
        /\ k \in Classes
        /\ k # "Nested"
    BY <2>1, KindsAre DEF Sized, Classes
  <2>5. k \in DOMAIN Fields!TypeID
    BY <2>4, Identifiers
  <2>6. Told(k, f.value) /\ Holds(k, f.value)
    BY <2>3, <2>4, Zenon DEF Told, Holds
  <2>7. Plain(f)
    BY <1>1, <2>4, <2>5, <2>6, Zenon DEF Plain
  <2>8. Fields!ReadAs(c, f) = Fields!getBit(f.value, 0)
    BY <1>3, Zenon DEF Fields!ReadAs
  <2> QED BY <2>3, <2>7, <2>8, Zenon
<1>4. CASE c = "string"
  <2>1. k = "LongString"
    BY <1>4, SelectedKinds
  <2>2. v \in Seq(Octets)
    <3>1. c # "bool"
      BY <1>4
    <3> QED BY <1>4, <3>1, SameWire, Zenon DEF Fields!IsValue
  <2> HIDE DEF k
  <2>4. k \notin Fields!Numeric /\ k \in Sized /\ k # "Decimal" /\ k # "Array" /\ k # "BooleanSet"
        /\ k \in Classes
        /\ k # "Nested"
    BY <2>1, KindsAre DEF Sized, Classes
  <2>5. k \in DOMAIN Fields!TypeID
    BY <2>4, Identifiers
  <2>6. f.value = v /\ Holds(k, v)
    BY <1>1, <2>2, <2>4, Zenon DEF Holds
  <2>7. Len(v) < Fields!Base(LongWidth) => Told(k, v)
    BY <2>1, <2>2, <2>4, PrefixOf, Zenon DEF Told
  <2>8. Plain(f)
    BY <1>1, <2>1, <2>4, <2>5, <2>6, <2>7, Zenon DEF Plain
  <2>9. c # "bool" /\ c # "decimal"
    BY <1>4
  <2>10. Fields!ReadAs(c, f) = f.value
    <3>1. f.kind \in {"ShortString", "LongString"}
      BY <1>1, <2>1
    <3>2. Fields!Converted(c, f) = f.value
      BY <1>4, <3>1, Zenon DEF Fields!Converted
    <3> QED BY <2>9, <3>2, Zenon DEF Fields!ReadAs
  <2> QED BY <2>6, <2>8, <2>10, Zenon
<1>5. CASE c = "decimal"
  <2>1. k = "Decimal"
    BY <1>5, SelectedKinds
  <2>2. v \in [places : Octets, number : 0..(Fields!Base(LongWidth) - 1)]
    <3>1. c # "bool" /\ c # "string"
      BY <1>5
    <3> QED BY <1>5, <3>1, SameWire, Zenon DEF Fields!IsValue
  <2> HIDE DEF k
  <2>4. k \notin Fields!Numeric /\ k \notin Sized /\ k # "LongString" /\ k # "Array" /\ k # "BooleanSet"
        /\ k \in Classes
        /\ k # "Nested"
    BY <2>1, KindsAre DEF Sized, Classes
  <2>5. k \in DOMAIN Fields!TypeID
    BY <2>4, Identifiers
  <2>6. v.places \in Octets /\ v.number \in 0..(Fields!Base(LongWidth) - 1)
        /\ v = [places |-> v.places, number |-> v.number]
    BY <2>2
  <2>7. InRange("UOctet", v.places)
    BY <2>6, OctetInRange, Zenon
  <2>8. InRange("ULong", v.number)
    <3>1. "ULong" \notin Fields!Signed
      BY DEF Fields!Signed
    <3>2. Fields!Width["ULong"] = LongWidth /\ Fields!Base(LongWidth) \in Nat
      BY KindsAre, OneOctet
    <3> DEFINE x == v.number
               b == Fields!Base(LongWidth)
    <3>3. x \in 0..(b - 1) /\ b \in Nat
      BY <2>6, <3>2
    <3> HIDE DEF x, b
    <3>4. x \in Int /\ 0 <= x /\ x < b
      BY ONLY <3>3
    <3> QED BY <3>1, <3>2, <3>4, Zenon DEF InRange, x, b
  <2>9. f.value = v /\ Holds(k, v)
    <3>1. v.places \in Int /\ v.number \in Int
      BY <2>7, <2>8, Zenon DEF InRange
    <3> QED BY <1>1, <2>4, <3>1, Zenon DEF Holds
  <2>10. Told(k, v)
    BY <2>4, <2>6, <2>7, <2>8, Zenon DEF Told
  <2>11. Plain(f)
    BY <1>1, <2>4, <2>5, <2>9, <2>10, Zenon DEF Plain
  <2>12. c # "bool"
    BY <1>5
  <2>13. Fields!ReadAs(c, f) = f.value
    BY <1>5, <2>12, Zenon DEF Fields!ReadAs
  <2> QED BY <2>9, <2>11, <2>13, Zenon
<1> QED BY <1>2, <1>3, <1>4, <1>5, SelectedKinds

\* Array::set, at an index up to the end, replaces the field at the index and keeps the others.
LEMMA ArraySetIs ==
  ASSUME NEW S, NEW a, NEW i, NEW f, a \in Seq(S), i \in 0..Len(a), f \in S
  PROVE  /\ Fields!arraySet(a, i, f) = SubSeq(a, 1, i) \o <<f>> \o SubSeq(a, i + 2, Len(a))
         /\ Fields!arraySet(a, i, f) \in Seq(S)
         /\ Len(Fields!arraySet(a, i, f)) <= Len(a) \/ Len(Fields!arraySet(a, i, f)) <= i + 1
<1> DEFINE n == Len(a)
           x == SubSeq(a, 1, i)
           y == <<f>>
           z == SubSeq(a, i + 2, n)
           b == Fields!arraySet(a, i, f)
           c == x \o y
           d == c \o z
           m == i + 2
<1>1. n \in Nat /\ i \in 0..n /\ 1 \in Nat \ {0} /\ m \in Nat \ {0} /\ n \in 0..n
  OBVIOUS
<1>2. /\ x \in Seq(S) /\ Len(x) = (IF 1 <= i THEN i - 1 + 1 ELSE 0)
      /\ \A j \in 1..(i - 1 + 1) : x[j] = a[1 + j - 1]
  BY <1>1, SubType
<1>3. /\ z \in Seq(S) /\ Len(z) = (IF m <= n THEN n - m + 1 ELSE 0)
      /\ \A j \in 1..(n - m + 1) : z[j] = a[m + j - 1]
  <2> HIDE DEF m
  <2>1. /\ SubSeq(a, m, n) \in Seq(S) /\ Len(SubSeq(a, m, n)) = (IF m <= n THEN n - m + 1 ELSE 0)
        /\ \A j \in 1..(n - m + 1) : SubSeq(a, m, n)[j] = a[m + j - 1]
    BY <1>1, SubType
  <2> QED BY <2>1 DEF m
<1>4. y \in Seq(S) /\ Len(y) = 1 /\ y[1] = f
  OBVIOUS
<1> HIDE DEF x, y, z
<1>5. /\ c \in Seq(S) /\ Len(c) = Len(x) + Len(y)
      /\ \A j \in 1..Len(x) : c[j] = x[j]
      /\ \A j \in 1..Len(y) : c[Len(x) + j] = y[j]
  <2>1. x \in Seq(S) /\ y \in Seq(S)
    BY <1>2, <1>4
  <2> QED BY ONLY <2>1, CatType
<1> HIDE DEF c
<1>6. /\ d \in Seq(S) /\ Len(d) = Len(c) + Len(z)
      /\ \A j \in 1..Len(c) : d[j] = c[j]
      /\ \A j \in 1..Len(z) : d[Len(c) + j] = z[j]
  <2>1. c \in Seq(S) /\ z \in Seq(S)
    BY <1>3, <1>5
  <2> QED BY ONLY <2>1, CatType
<1> HIDE DEF d
<1>7. Len(x) = i /\ (\A j \in 1..i : x[j] = a[j]) /\ Len(c) = i + 1
  BY <1>1, <1>2, <1>4, <1>5
<1>8. d[i + 1] = f /\ \A j \in 1..i : d[j] = a[j]
  <2>1. i + 1 \in 1..Len(c) /\ 1 \in 1..Len(y) /\ Len(x) + 1 = i + 1
    BY <1>1, <1>4, <1>7
  <2>2. d[i + 1] = f
    BY <1>4, <1>5, <1>6, <1>7, <2>1
  <2>3. ASSUME NEW j \in 1..i PROVE d[j] = a[j]
    <3>1. j \in 1..Len(c) /\ j \in 1..Len(x)
      BY <1>1, <1>7
    <3> QED BY <1>5, <1>6, <1>7, <3>1
  <2> QED BY <2>2, <2>3
<1>9. ASSUME NEW j \in (i + 2)..n PROVE d[j] = a[j]
  <2> DEFINE e == j - (i + 1)
  <2>1. e \in 1..Len(z) /\ e \in 1..(n - m + 1) /\ Len(c) + e = j /\ m + e - 1 = j
    BY <1>1, <1>3, <1>7
  <2> HIDE DEF e, m
  <2> QED BY <1>3, <1>6, <2>1
<1>10. Len(d) = i + 1 + (IF i + 2 <= n THEN n - (i + 1) ELSE 0)
  <2>1. Len(d) = Len(c) + Len(z) /\ Len(c) = i + 1
    BY <1>6, <1>7
  <2>2. Len(z) = IF i + 2 <= n THEN n - (i + 2) + 1 ELSE 0
    BY <1>3
  <2> HIDE DEF n
  <2> QED BY ONLY <1>1, <2>1, <2>2
<1>11. CASE i >= n
  <2>1. b = Append(a, f)
    BY <1>11 DEF Fields!arraySet
  <2>2. i = n /\ Len(d) = n + 1
    <3> HIDE DEF n, m
    <3> QED BY ONLY <1>1, <1>11, <1>10
  <2>3. b \in Seq(S) /\ Len(b) = n + 1 /\ b[n + 1] = f /\ \A j \in 1..n : b[j] = a[j]
    BY <2>1, AppendProperties
  <2> HIDE DEF b
  <2>4. Len(b) = Len(d) /\ \A j \in 1..Len(b) : b[j] = d[j]
    BY <1>1, <1>8, <2>2, <2>3
  <2>5. b = d
    BY <1>6, <2>3, <2>4, SeqEqual
  <2> QED BY <1>1, <2>2, <2>3, <2>5 DEF b, c, d, x, y, z
<1>12. CASE ~(i >= n)
  <2>1. b = [a EXCEPT ![i + 1] = f]
    BY <1>12 DEF Fields!arraySet
  <2>2. i < n /\ i + 1 \in 1..n /\ Len(d) = n
    <3> HIDE DEF n, m
    <3> QED BY ONLY <1>1, <1>12, <1>10
  <2>3. b \in Seq(S) /\ Len(b) = n /\ b[i + 1] = f /\ \A j \in 1..n : j # i + 1 => b[j] = a[j]
    BY <2>1, <2>2, ExceptSeq
  <2> HIDE DEF b
  <2>4. Len(b) = Len(d) /\ \A j \in 1..Len(b) : b[j] = d[j]
    BY <1>1, <1>8, <1>9, <2>2, <2>3
  <2>5. b = d
    BY <1>6, <2>3, <2>4, SeqEqual
  <2> QED BY <1>1, <2>2, <2>3, <2>5 DEF b, c, d, x, y, z
<1> QED BY <1>11, <1>12

\* An array of such fields, and a field that holds one.
Arrayed(a) == \E S : a \in Seq(S) /\ \A f \in S : Plain(f)

\* A field that is an array.
Listed(f) == f.kind = "Array" /\ f = [kind |-> f.kind, value |-> f.value] /\ Arrayed(f.value)

\* A field of a table, and what was stored in it: a type, and a value of it.
Stored(f, w) == (Plain(f) \/ Listed(f)) /\ Fields!ReadAs(w[1], f) = w[2]

\* The state of the table and of the array.
Storing ==
  /\ tableCalls \in 0..TableMax
  /\ DOMAIN table \subseteq Fields!NameSet /\ DOMAIN wrote = DOMAIN table
  /\ \A n \in DOMAIN table : Stored(table[n], wrote[n])
  /\ Arrayed(array) /\ Len(array) <= MaxIndex + 1 /\ want = array

\* At the beginning the table is empty.
LEMMA StoringInit == ASSUME Fields!Init PROVE Storing
<1>1. table = <<>> /\ array = <<>> /\ wrote = <<>> /\ want = <<>> /\ tableCalls = 0
  BY DEF Fields!Init
<1>2. tableCalls \in 0..TableMax /\ MaxIndex \in Nat
  BY <1>1, FieldsAssumption
<1>3. DOMAIN table = {} /\ DOMAIN wrote = {}
  BY <1>1
<1>4. array \in Seq({}) /\ Len(array) <= MaxIndex + 1
  BY <1>1, <1>2
<1>5. Arrayed(array)
  <2> DEFINE E == {}
  <2>1. array \in Seq(E) /\ \A f \in E : Plain(f)
    BY <1>4
  <2> HIDE DEF E
  <2> QED BY <2>1 DEF Arrayed
<1>6. \A n \in DOMAIN table : Stored(table[n], wrote[n])
  BY <1>3
<1> QED BY <1>1, <1>2, <1>3, <1>4, <1>5, <1>6 DEF Storing

\* A field of a table is overwritten, the others are kept.
LEMMA StoringPut ==
  ASSUME Storing, NEW n, NEW f, NEW w, n \in Fields!NameSet, Stored(f, w),
         table' = Fields!Put(table, n, f), wrote' = Fields!Put(wrote, n, w), array' = array, want' = want,
         Fields!Count
  PROVE  Storing'
<1>1. /\ tableCalls \in 0..TableMax
      /\ DOMAIN table \subseteq Fields!NameSet /\ DOMAIN wrote = DOMAIN table
      /\ \A m \in DOMAIN table : Stored(table[m], wrote[m])
      /\ Arrayed(array) /\ Len(array) <= MaxIndex + 1 /\ want = array
  BY Zenon DEF Storing
<1>2. tableCalls < TableMax /\ tableCalls' = tableCalls + 1
  BY DEF Fields!Count
<1>3. tableCalls' \in 0..TableMax
  BY <1>1, <1>2, FieldsAssumption
<1>4. DOMAIN table' = DOMAIN table \cup {n}
      /\ \A m \in DOMAIN table' : table'[m] = IF m = n THEN f ELSE table[m]
  BY DEF Fields!Put
<1>5. DOMAIN wrote' = DOMAIN table \cup {n}
      /\ \A m \in DOMAIN wrote' : wrote'[m] = IF m = n THEN w ELSE wrote[m]
  BY <1>1 DEF Fields!Put
<1>6. DOMAIN wrote' = DOMAIN table' /\ DOMAIN table' \subseteq Fields!NameSet
  BY <1>1, <1>4, <1>5, Zenon
<1>7. ASSUME NEW m \in DOMAIN table' PROVE Stored(table'[m], wrote'[m])
  <2>1. CASE m = n
    BY <1>4, <1>5, <1>6, <2>1, Zenon
  <2>2. CASE m # n
    BY <1>1, <1>4, <1>5, <1>6, <2>2, Zenon
  <2> QED BY <2>1, <2>2
<1>8. Arrayed(array') /\ Len(array') <= MaxIndex + 1 /\ want' = array'
  BY <1>1, Zenon
<1> QED BY <1>3, <1>6, <1>7, <1>8, Zenon DEF Storing

\* table.set(name, v) and table[name] = v.
LEMMA StoringAssign ==
  ASSUME Storing, NEW n, NEW c, NEW v, n \in Fields!NameSet, c \in DOMAIN ValuesOf, v \in ValuesOf[c],
         Fields!SetField(n, c, v) \/ Fields!AssignField(n, c, v)
  PROVE  Storing'
<1> DEFINE f == Fields!Value(Fields!ProxyKind[c], v)
           w == <<c, v>>
<1>1. c \in DOMAIN Fields!ProxyKind
      /\ (c \in DOMAIN Fields!SetKind => Fields!SetKind[c] = Fields!ProxyKind[c])
  BY SelectedKinds, Zenon DEF Fields!SetField, Fields!AssignField
<1>2. Fields!IsValue(c, v)
  BY FieldsAssumption, Zenon
<1>3. /\ Fields!Count /\ array' = array /\ want' = want
      /\ table' = Fields!Put(table, n, f) /\ wrote' = Fields!Put(wrote, n, w)
  <2>1. CASE Fields!SetField(n, c, v)
    BY <1>1, <2>1, SMT DEF Fields!SetField
  <2>2. CASE Fields!AssignField(n, c, v)
    BY <2>2, SMT DEF Fields!AssignField
  <2> QED BY <2>1, <2>2
<1>4. Plain(f) /\ Fields!ReadAs(c, f) = v
  <2> DEFINE g == f
  <2>1. g = Fields!Value(Fields!ProxyKind[c], v)
    OBVIOUS
  <2> HIDE DEF g
  <2>2. Plain(g) /\ Fields!ReadAs(c, g) = v
    BY <1>1, <1>2, <2>1, StoredPlain, Zenon
  <2> QED BY <2>2 DEF g
<1>5. w[1] = c /\ w[2] = v
  OBVIOUS
<1> HIDE DEF f, w
<1>6. Stored(f, w)
  BY <1>4, <1>5, Zenon DEF Stored
<1> QED BY <1>3, <1>6, StoringPut, Zenon

\* table[name] = array.
LEMMA StoringArray ==
  ASSUME Storing, NEW n, n \in Fields!NameSet, Fields!AssignArray(n) PROVE Storing'
<1> DEFINE f == [kind |-> "Array", value |-> array]
           w == <<"Array", want>>
<1>1. /\ Fields!Count /\ array' = array /\ want' = want
      /\ table' = Fields!Put(table, n, f) /\ wrote' = Fields!Put(wrote, n, w)
  BY SMT DEF Fields!AssignArray
<1>2. Arrayed(array) /\ want = array
  BY Zenon DEF Storing
<1>3. f.kind = "Array" /\ f.value = array /\ f = [kind |-> f.kind, value |-> f.value]
  OBVIOUS
<1>4. w[1] = "Array" /\ w[2] = want
  OBVIOUS
<1> HIDE DEF f, w
<1>5. Listed(f)
  BY <1>2, <1>3, Zenon DEF Listed
<1>6. Fields!ReadAs("Array", f) = f.value
  <2>1. "Array" # "bool" /\ "Array" # "decimal" /\ "Array" # "string"
    OBVIOUS
  <2>2. Fields!Converted("Array", f) = f.value
    BY <1>3, <2>1, Zenon DEF Fields!Converted
  <2> QED BY <2>1, <2>2, Zenon DEF Fields!ReadAs
<1>7. Stored(f, w)
  BY <1>2, <1>3, <1>4, <1>5, <1>6, Zenon DEF Stored
<1> QED BY <1>1, <1>7, StoringPut, Zenon

\* array[i] = v.
LEMMA StoringElement ==
  ASSUME Storing, NEW i, NEW c, NEW v, i \in 0..MaxIndex, c \in DOMAIN ValuesOf, v \in ValuesOf[c],
         Fields!AssignElement(i, c, v)
  PROVE  Storing'
<1> DEFINE f == Fields!Value(Fields!ProxyKind[c], v)
<1>1. /\ tableCalls \in 0..TableMax
      /\ DOMAIN table \subseteq Fields!NameSet /\ DOMAIN wrote = DOMAIN table
      /\ \A m \in DOMAIN table : Stored(table[m], wrote[m])
      /\ Arrayed(array) /\ Len(array) <= MaxIndex + 1 /\ want = array
  BY Zenon DEF Storing
<1>2. /\ Fields!Count /\ c \in DOMAIN Fields!ProxyKind /\ i <= Len(array) /\ table' = table /\ wrote' = wrote
      /\ array' = Fields!arraySet(array, i, f)
      /\ want' = SubSeq(want, 1, i) \o <<f>> \o SubSeq(want, i + 2, Len(want))
  BY SMT DEF Fields!AssignElement
<1>3. tableCalls' \in 0..TableMax
  <2>1. tableCalls < TableMax /\ tableCalls' = tableCalls + 1
    BY <1>2 DEF Fields!Count
  <2> QED BY <1>1, <2>1, FieldsAssumption
<1>4. Plain(f)
  <2>1. Fields!IsValue(c, v)
    BY FieldsAssumption, Zenon
  <2> DEFINE g == f
  <2>2. g = Fields!Value(Fields!ProxyKind[c], v)
    OBVIOUS
  <2> HIDE DEF g
  <2>3. Plain(g)
    BY <1>2, <2>1, <2>2, StoredPlain, Zenon
  <2> QED BY <2>3 DEF g
<1> HIDE DEF f
<1>5. PICK S : array \in Seq(S) /\ \A x \in S : Plain(x)
  BY <1>1, Zenon DEF Arrayed
<1> DEFINE R == S \cup {f}
           a == array
           b == Fields!arraySet(a, i, f)
<1>6. a \in Seq(R) /\ f \in R /\ \A x \in R : Plain(x)
  <2>1. \A x \in S : x \in R
    OBVIOUS
  <2>2. f \in R /\ \A x \in R : Plain(x)
    BY <1>4, <1>5
  <2> HIDE DEF R
  <2>3. a \in Seq(R)
    <3>1. Len(a) \in Nat /\ a = [j \in 1..Len(a) |-> a[j]] /\ \A j \in 1..Len(a) : a[j] \in S
      BY <1>5
    <3>2. \A j \in 1..Len(a) : a[j] \in R
      BY <2>1, <3>1
    <3> QED BY <3>1, <3>2, IsASeq
  <2> QED BY <2>2, <2>3
<1>7. i \in 0..Len(a)
  BY <1>2, <1>5
<1> HIDE DEF R, a
<1>8. /\ b = SubSeq(a, 1, i) \o <<f>> \o SubSeq(a, i + 2, Len(a)) /\ b \in Seq(R)
      /\ Len(b) <= Len(a) \/ Len(b) <= i + 1
  BY ONLY <1>6, <1>7, ArraySetIs
<1>9. array' = b /\ want' = b
  BY <1>1, <1>2, <1>8, Zenon DEF a
<1> HIDE DEF b
<1>10. Arrayed(b)
  BY <1>6, <1>8, Zenon DEF Arrayed
<1>11. Len(b) <= MaxIndex + 1
  <2>1. Len(b) \in Nat /\ Len(a) \in Nat
    <3>1. a \in Seq(R) /\ b \in Seq(R)
      BY <1>6, <1>8
    <3> QED BY ONLY <3>1
  <2>2. Len(a) <= MaxIndex + 1
    BY <1>1 DEF a
  <2>3. MaxIndex \in Nat /\ i \in 0..MaxIndex
    BY FieldsAssumption
  <2>4. Len(b) <= Len(a) \/ Len(b) <= i + 1
    BY <1>8
  <2> QED BY ONLY <2>1, <2>2, <2>3, <2>4
<1>12. \A m \in DOMAIN table' : Stored(table'[m], wrote'[m])
  BY <1>1, <1>2, Zenon
<1>13. DOMAIN table' \subseteq Fields!NameSet /\ DOMAIN wrote' = DOMAIN table'
  BY <1>1, <1>2, Zenon
<1>14. Arrayed(array') /\ Len(array') <= MaxIndex + 1 /\ want' = array'
  BY <1>9, <1>10, <1>11, Zenon
<1> QED BY <1>3, <1>12, <1>13, <1>14, Zenon DEF Storing

\* Every step keeps the table and its arrays.
LEMMA StoringNext == ASSUME Storing, Fields!Next PROVE Storing'
<1>1. CASE \E n \in Fields!NameSet : \E c \in DOMAIN ValuesOf : \E v \in ValuesOf[c] :
             Fields!SetField(n, c, v) \/ Fields!AssignField(n, c, v)
  BY <1>1, StoringAssign, Zenon
<1>2. CASE \E n \in Fields!NameSet : Fields!AssignArray(n)
  BY <1>2, StoringArray, Zenon
<1>3. CASE \E c \in DOMAIN ValuesOf : \E v \in ValuesOf[c] : \E i \in 0..MaxIndex : Fields!AssignElement(i, c, v)
  BY <1>3, StoringElement, Zenon
<1> QED BY <1>1, <1>2, <1>3, Zenon DEF Fields!Next, Fields!CType

\* The elements of an array are what was put into it.
LEMMA StoringType == ASSUME Storing PROVE Fields!TypeOK /\ Fields!ElementsKept
<1>1. /\ tableCalls \in 0..TableMax
      /\ DOMAIN table \subseteq Fields!NameSet /\ DOMAIN wrote = DOMAIN table
      /\ \A m \in DOMAIN table : Stored(table[m], wrote[m])
      /\ Arrayed(array) /\ Len(array) <= MaxIndex + 1 /\ want = array
  BY Zenon DEF Storing
<1>2. ASSUME NEW n \in DOMAIN table
      PROVE  /\ table[n].kind \in DOMAIN Fields!TypeID
             /\ table[n].kind = "BooleanSet" => table[n].value \in Fields!Octet
  <2> DEFINE f == table[n]
  <2>1. Plain(f) \/ Listed(f)
    BY <1>1, Zenon DEF Stored
  <2> HIDE DEF f
  <2>2. CASE Plain(f)
    <3>1. f.kind \in DOMAIN Fields!TypeID /\ Holds(f.kind, f.value)
      BY <2>2, Zenon DEF Plain
    <3>2. f.kind = "BooleanSet" => f.value \in Fields!Octet
      BY <3>1, SameWire, Zenon DEF Holds
    <3> QED BY <3>1, <3>2 DEF f
  <2>3. CASE Listed(f)
    <3>1. f.kind = "Array"
      BY <2>3, Zenon DEF Listed
    <3>2. f.kind \in DOMAIN Fields!TypeID /\ f.kind # "BooleanSet"
      BY <3>1 DEF Fields!TypeID
    <3> QED BY <3>2 DEF f
  <2> QED BY <2>1, <2>2, <2>3
<1>3. ASSUME NEW i \in 1..Len(array) PROVE array[i].kind \in DOMAIN Fields!TypeID \ {"Array"}
  <2>1. PICK S : array \in Seq(S) /\ \A f \in S : Plain(f)
    BY <1>1, Zenon DEF Arrayed
  <2>2. array[i] \in S
    BY <2>1
  <2>3. array[i].kind \in DOMAIN Fields!TypeID /\ array[i].kind # "Array"
    BY <2>1, <2>2, Zenon DEF Plain
  <2> QED BY <2>3
<1> QED BY <1>1, <1>2, <1>3, Zenon DEF Fields!TypeOK, Fields!ElementsKept

\* The octets of an element of an array, and of its elements.
ElementRow(f) == <<Fields!TypeID[f.kind]>> \o Fields!fill(f)
\* All that an array writes, element by element.
ArrayRows(a) == [i \in 1..Len(a) |-> ElementRow(a[i])]

\* Functions that are sequences.
LEMMA RowsAre ==
  ASSUME NEW S, NEW r, NEW n \in Nat, r \in [1..n -> S] PROVE r \in Seq(S) /\ Len(r) = n
  OBVIOUS

\* A field that is not an array writes as many octets as size() says.
LEMMA PlainFill ==
  ASSUME NEW f, Plain(f)
  PROVE  Fields!fill(f) \in Seq(Octets) /\ Len(Fields!fill(f)) = Fields!size(f) /\ Fields!size(f) \in Nat
<1>1. f.kind \in Classes /\ Holds(f.kind, f.value)
  BY Zenon DEF Plain
<1> QED BY <1>1, FillType, Zenon

\* The identifier of a kind is one octet.
LEMMA IdentifierRow ==
  ASSUME NEW k, k \in DOMAIN Fields!TypeID
  PROVE  /\ <<Fields!TypeID[k]>> \in Seq(Octets) /\ Len(<<Fields!TypeID[k]>>) = 1
         /\ <<Fields!TypeID[k]>>[1] = Fields!TypeID[k]
<1> DEFINE x == Fields!TypeID[k]
<1>1. x \in Octets
  BY Identifiers
<1> HIDE DEF x
<1>2. <<x>> \in Seq(Octets) /\ Len(<<x>>) = 1 /\ <<x>>[1] = x
  BY <1>1
<1> QED BY <1>2 DEF x

\* An element writes its identifier and its value.
LEMMA ElementRowType ==
  ASSUME NEW f, Plain(f)
  PROVE  /\ ElementRow(f) \in Seq(Octets) /\ Len(ElementRow(f)) = 1 + Fields!size(f)
         /\ 1 + Fields!size(f) \in Nat
<1> DEFINE x == <<Fields!TypeID[f.kind]>>
           y == Fields!fill(f)
<1>1. f.kind \in DOMAIN Fields!TypeID
  BY Zenon DEF Plain
<1>2. x \in Seq(Octets) /\ Len(x) = 1
  BY <1>1, IdentifierRow, Zenon
<1>3. y \in Seq(Octets) /\ Len(y) = Fields!size(f) /\ Fields!size(f) \in Nat
  BY PlainFill
<1>4. ElementRow(f) = x \o y
  BY DEF ElementRow
<1> HIDE DEF x, y
<1>5. x \o y \in Seq(Octets) /\ Len(x \o y) = Len(x) + Len(y)
  <2>1. x \in Seq(Octets) /\ y \in Seq(Octets)
    BY <1>2, <1>3
  <2> QED BY ONLY <2>1, CatType
<1>6. Len(x \o y) = 1 + Fields!size(f) /\ 1 + Fields!size(f) \in Nat
  BY ONLY <1>2, <1>3, <1>5
<1> QED BY <1>4, <1>5, <1>6, Zenon

\* The octets after those that tell how many they are.
LEMMA PrefixedType ==
  ASSUME NEW o, o \in Seq(Octets)
  PROVE  /\ Fields!Prefixed(o) \in Seq(Octets) /\ Len(Fields!Prefixed(o)) = LongWidth + Len(o)
         /\ Fields!Prefixed(o) = Fields!add(Len(o), LongWidth) \o o
<1> DEFINE x == Fields!add(Len(o), LongWidth)
<1>1. Len(o) \in Int /\ LongWidth \in Nat
  BY WireAssumption
<1>2. x \in Seq(Octets) /\ Len(x) = LongWidth
  BY <1>1, AddOctets, Zenon
<1>3. Fields!Prefixed(o) = x \o o
  BY Zenon DEF Fields!Prefixed
<1> HIDE DEF x
<1>4. x \o o \in Seq(Octets) /\ Len(x \o o) = Len(x) + Len(o)
  <2>1. x \in Seq(Octets) /\ o \in Seq(Octets)
    BY <1>2
  <2> QED BY ONLY <2>1, CatType
<1> QED BY <1>2, <1>3, <1>4, Zenon DEF x

\* An array is a sequence of plain fields.
LEMMA ArrayedIs ==
  ASSUME NEW a, Arrayed(a)
  PROVE  /\ Len(a) \in Nat /\ \A i \in 1..Len(a) : Plain(a[i])
<1>1. PICK S : a \in Seq(S) /\ \A f \in S : Plain(f)
  BY Zenon DEF Arrayed
<1>2. Len(a) \in Nat /\ \A i \in 1..Len(a) : a[i] \in S
  BY <1>1
<1> QED BY <1>1, <1>2, Zenon

\* The elements of an array are sequences of octets.
LEMMA ArrayRowsType ==
  ASSUME NEW a, Arrayed(a)
  PROVE  /\ ArrayRows(a) \in Seq(Seq(Octets)) /\ Len(ArrayRows(a)) = Len(a)
         /\ \A i \in 1..Len(a) : ArrayRows(a)[i] = ElementRow(a[i])
         /\ Fields!All(ArrayRows(a)) \in Seq(Octets)
         /\ Fields!arrayFill(a) = Fields!Prefixed(Fields!All(ArrayRows(a)))
<1> DEFINE n == Len(a)
           r == ArrayRows(a)
           Q == Seq(Octets)
<1>1. n \in Nat /\ \A i \in 1..n : Plain(a[i])
  BY ArrayedIs
<1>2. \A i \in 1..n : ElementRow(a[i]) \in Q
  BY <1>1, ElementRowType
<1> HIDE DEF n, Q
<1>3. r \in [1..n -> Q] /\ \A i \in 1..n : r[i] = ElementRow(a[i])
  BY <1>2 DEF ArrayRows, n
<1> HIDE DEF r
<1>4. r \in Seq(Q) /\ Len(r) = n
  BY <1>1, <1>3, RowsAre
<1>5. Fields!All(r) \in Seq(Octets)
  BY <1>4, AllType DEF Q
<1>6. Fields!arrayFill(a) = Fields!Prefixed(Fields!All(ArrayRows(a)))
  BY Zenon DEF Fields!arrayFill, ArrayRows, ElementRow
<1> QED BY <1>3, <1>4, <1>5, <1>6 DEF r, n, Q

\* An array writes its prefix and the elements, as many octets as size() says.
LEMMA ArrayFillType ==
  ASSUME NEW a, Arrayed(a)
  PROVE  /\ Fields!arrayFill(a) \in Seq(Octets)
         /\ Len(Fields!arrayFill(a)) = LongWidth + Fields!Total([i \in 1..Len(a) |-> 1 + Fields!size(a[i])])
<1> DEFINE r == ArrayRows(a)
           n == Len(a)
           t == [i \in 1..n |-> 1 + Fields!size(a[i])]
           o == Fields!All(r)
<1>1. r \in Seq(Seq(Octets)) /\ Len(r) = n /\ (\A i \in 1..n : r[i] = ElementRow(a[i]))
      /\ o \in Seq(Octets) /\ Fields!arrayFill(a) = Fields!Prefixed(o)
  BY ArrayRowsType
<1>2. n \in Nat /\ \A i \in 1..n : Plain(a[i])
  BY ArrayedIs
<1>3. \A i \in 1..n : Len(ElementRow(a[i])) = 1 + Fields!size(a[i]) /\ 1 + Fields!size(a[i]) \in Nat
  BY <1>2, ElementRowType
<1> HIDE DEF n
<1>4. t \in [1..n -> Nat] /\ \A i \in 1..n : t[i] = 1 + Fields!size(a[i])
  BY <1>3
<1>5. t \in Seq(Nat) /\ Len(t) = n
  <2> HIDE DEF t
  <2> QED BY <1>2, <1>4, RowsAre
<1> HIDE DEF t, r
<1>6. Len(o) = Fields!Total(t)
  <2>1. Len(t) = Len(r) /\ \A i \in 1..Len(r) : Len(r[i]) = t[i]
    BY <1>1, <1>3, <1>4, <1>5, Zenon
  <2>2. r \in Seq(Seq(Octets)) /\ t \in Seq(Nat)
    BY <1>1, <1>5
  <2> QED BY ONLY <2>1, <2>2, LenAll
<1>7. Fields!Prefixed(o) \in Seq(Octets) /\ Len(Fields!Prefixed(o)) = LongWidth + Len(o)
  <2> HIDE DEF o
  <2> QED BY <1>1, PrefixedType
<1> QED BY <1>1, <1>6, <1>7, Zenon DEF t, n

\* Every field writes as many octets as size() says.
LEMMA FieldFillType ==
  ASSUME NEW f, Plain(f) \/ Listed(f)
  PROVE  /\ Fields!fieldFill(f) \in Seq(Octets) /\ Len(Fields!fieldFill(f)) = Fields!fieldSize(f)
         /\ Fields!fieldSize(f) \in Nat /\ f.kind \in DOMAIN Fields!TypeID
<1>1. CASE Plain(f)
  <2>1. f.kind # "Array" /\ f.kind \in DOMAIN Fields!TypeID
    BY <1>1, Zenon DEF Plain
  <2>2. Fields!fieldFill(f) = Fields!fill(f) /\ Fields!fieldSize(f) = Fields!size(f)
    BY <2>1, Zenon DEF Fields!fieldFill, Fields!fieldSize
  <2> QED BY <1>1, <2>1, <2>2, PlainFill, Zenon
<1>2. CASE Listed(f)
  <2> DEFINE a == f.value
  <2>1. f.kind = "Array" /\ Arrayed(a)
    BY <1>2, Zenon DEF Listed
  <2>2. f.kind \in DOMAIN Fields!TypeID
    BY <2>1, Identifiers
  <2>3. /\ Fields!fieldFill(f) = Fields!arrayFill(a)
        /\ Fields!fieldSize(f) = LongWidth + Fields!Total([i \in 1..Len(a) |-> 1 + Fields!size(a[i])])
    BY <2>1, Zenon DEF Fields!fieldFill, Fields!fieldSize
  <2>4. /\ Fields!arrayFill(a) \in Seq(Octets)
        /\ Len(Fields!arrayFill(a)) = LongWidth + Fields!Total([i \in 1..Len(a) |-> 1 + Fields!size(a[i])])
    <3> HIDE DEF a
    <3> QED BY <2>1, ArrayFillType
  <2>5. Len(Fields!arrayFill(a)) \in Nat
    BY <2>4
  <2> QED BY <2>2, <2>3, <2>4, <2>5, Zenon
<1> QED BY <1>1, <1>2

\* The octets of a field of a table, after its name, and how many they are.
NameField(n) == [kind |-> "ShortString", value |-> n]
\* What the table writes of a name, what size() counts for it, and all that it writes.
TableRow(n) == IF n \notin DOMAIN table THEN <<>>
               ELSE Fields!fill(NameField(n)) \o <<Fields!TypeID[table[n].kind]>>
               \o Fields!fieldFill(table[n])
TableLen(n) == IF n \notin DOMAIN table THEN 0
               ELSE Fields!size(NameField(n)) + 1 + Fields!fieldSize(table[n])
TableRows == [i \in 1..Len(Names) |-> TableRow(Names[i])]

\* The names are octets, each once.
LEMMA NamesAre ==
  /\ Len(Names) \in Nat /\ \A i \in 1..Len(Names) : Names[i] \in Seq(Octets)
  /\ \A i, j \in 1..Len(Names) : Names[i] = Names[j] => i = j
<1>1. Names \in Seq(Seq(Octets))
  BY FieldsAssumption, SameWire, Zenon
<1>2. Len(Names) \in Nat /\ DOMAIN Names = 1..Len(Names) /\ \A i \in 1..Len(Names) : Names[i] \in Seq(Octets)
  BY <1>1
<1> QED BY <1>2, FieldsAssumption, Zenon

\* A name is written as a short string.
LEMMA NameFill ==
  ASSUME NEW n, n \in Seq(Octets)
  PROVE  /\ Fields!fill(NameField(n)) \in Seq(Octets)
         /\ Len(Fields!fill(NameField(n))) = Fields!size(NameField(n)) /\ Fields!size(NameField(n)) \in Nat
         /\ Fields!fill(NameField(n)) = Fields!add(Len(n), Prefix("ShortString")) \o n
<1> DEFINE f == NameField(n)
<1>1. f.kind = "ShortString" /\ f.value = n
  BY DEF NameField
<1> HIDE DEF f
<1>2. f.kind \in Sized /\ f.kind \notin Fields!Numeric /\ f.kind # "Decimal" /\ f.kind # "BooleanSet"
      /\ f.kind \in Classes
  BY <1>1, KindsAre DEF Sized, Classes
<1>3. Holds(f.kind, f.value)
  BY <1>1, <1>2, Zenon DEF Holds
<1>4. Fields!fill(f) \in Seq(Octets) /\ Len(Fields!fill(f)) = Fields!size(f) /\ Fields!size(f) \in Nat
  BY <1>2, <1>3, FillType, Zenon
<1>5. Fields!fill(f) = Fields!add(Len(n), Prefix("ShortString")) \o n
  BY <1>1, <1>2, ClassOf, Zenon DEF Fields!stringFill, Prefix
<1> QED BY <1>4, <1>5 DEF f

\* A row of a field that the table has.
LEMMA TableRowParts ==
  ASSUME Storing, NEW n, n \in Seq(Octets), n \in DOMAIN table
  PROVE  /\ Plain(table[n]) \/ Listed(table[n])
         /\ Fields!fill(NameField(n)) \in Seq(Octets) /\ Len(Fields!fill(NameField(n))) \in Nat
         /\ Fields!fieldFill(table[n]) \in Seq(Octets)
         /\ <<Fields!TypeID[table[n].kind]>> \in Seq(Octets) /\ table[n].kind \in DOMAIN Fields!TypeID
         /\ TableRow(n) = (Fields!fill(NameField(n)) \o <<Fields!TypeID[table[n].kind]>>)
              \o Fields!fieldFill(table[n])
<1>1. Plain(table[n]) \/ Listed(table[n])
  BY Zenon DEF Storing, Stored
<1>2. Fields!fieldFill(table[n]) \in Seq(Octets) /\ table[n].kind \in DOMAIN Fields!TypeID
  BY <1>1, FieldFillType, Zenon
<1>3. <<Fields!TypeID[table[n].kind]>> \in Seq(Octets)
  BY <1>2, IdentifierRow, Zenon
<1>4. Fields!fill(NameField(n)) \in Seq(Octets) /\ Len(Fields!fill(NameField(n))) \in Nat
  BY NameFill, Zenon
<1>5. TableRow(n) = (Fields!fill(NameField(n)) \o <<Fields!TypeID[table[n].kind]>>)
      \o Fields!fieldFill(table[n])
  BY Zenon DEF TableRow
<1> QED BY <1>1, <1>2, <1>3, <1>4, <1>5, Zenon

\* A name and its field are written in as many octets as are counted for them.
LEMMA TableRowType ==
  ASSUME Storing, NEW n, n \in Seq(Octets)
  PROVE  TableRow(n) \in Seq(Octets) /\ Len(TableRow(n)) = TableLen(n) /\ TableLen(n) \in Nat
<1>1. CASE n \notin DOMAIN table
  <2>1. TableRow(n) = <<>> /\ TableLen(n) = 0
    BY <1>1, Zenon DEF TableRow, TableLen
  <2>2. <<>> \in Seq(Octets) /\ Len(<<>>) = 0 /\ 0 \in Nat
    OBVIOUS
  <2> QED BY <2>1, <2>2, Zenon
<1>2. CASE n \in DOMAIN table
  <2> DEFINE x == Fields!fill(NameField(n))
             y == <<Fields!TypeID[table[n].kind]>>
             z == Fields!fieldFill(table[n])
             a == Fields!size(NameField(n))
             b == Fields!fieldSize(table[n])
  <2>1. TableRow(n) = (x \o y) \o z /\ x \in Seq(Octets) /\ y \in Seq(Octets) /\ z \in Seq(Octets)
    BY <1>2, TableRowParts, Zenon
  <2>2. Len(y) = 1
    OBVIOUS
  <2>3. Len(x) = a /\ a \in Nat
    BY NameFill, Zenon
  <2>4. Len(z) = b /\ b \in Nat
    BY <1>2, TableRowParts, FieldFillType, Zenon
  <2>5. TableLen(n) = a + 1 + b
    BY <1>2, Zenon DEF TableLen
  <2> HIDE DEF x, y, z, a, b
  <2> DEFINE c == x \o y
  <2>6. c \in Seq(Octets) /\ Len(c) = Len(x) + Len(y)
    <3>1. x \in Seq(Octets) /\ y \in Seq(Octets)
      BY <2>1
    <3> QED BY ONLY <3>1, CatType
  <2> HIDE DEF c
  <2>7. c \o z \in Seq(Octets) /\ Len(c \o z) = Len(c) + Len(z)
    <3>1. c \in Seq(Octets) /\ z \in Seq(Octets)
      BY <2>1, <2>6
    <3> QED BY ONLY <3>1, CatType
  <2>8. Len(c \o z) = a + 1 + b /\ a + 1 + b \in Nat
    BY ONLY <2>2, <2>3, <2>4, <2>6, <2>7
  <2>9. TableRow(n) = c \o z
    BY <2>1 DEF c
  <2> QED BY <2>5, <2>7, <2>8, <2>9, Zenon
<1> QED BY <1>1, <1>2

\* The fields of the table are sequences of octets.
LEMMA TableRowsType ==
  ASSUME Storing
  PROVE  /\ TableRows \in Seq(Seq(Octets)) /\ Len(TableRows) = Len(Names)
         /\ \A i \in 1..Len(Names) : TableRows[i] = TableRow(Names[i])
         /\ Fields!All(TableRows) \in Seq(Octets)
         /\ Fields!tableFill(table) = Fields!Prefixed(Fields!All(TableRows))
<1> DEFINE n == Len(Names)
           r == TableRows
           Q == Seq(Octets)
<1>1. n \in Nat /\ \A i \in 1..n : TableRow(Names[i]) \in Q
  BY NamesAre, TableRowType
<1> HIDE DEF n, Q
<1>2. r \in [1..n -> Q] /\ \A i \in 1..n : r[i] = TableRow(Names[i])
  BY <1>1 DEF TableRows, n
<1> HIDE DEF r
<1>3. r \in Seq(Q) /\ Len(r) = n
  BY <1>1, <1>2, RowsAre
<1>4. Fields!All(r) \in Seq(Octets)
  BY <1>3, AllType DEF Q
<1>5. Fields!tableFill(table) = Fields!Prefixed(Fields!All(TableRows))
  BY Zenon DEF Fields!tableFill, TableRows, TableRow, NameField
<1> QED BY <1>2, <1>3, <1>4, <1>5 DEF r, n, Q

\* What size() is, for a table, and that fill() writes as many octets.
LEMMA TableLength ==
  ASSUME Storing
  PROVE  Fields!FillsExactly /\ Fields!tableSize(table) = LongWidth + Len(Fields!All(TableRows))
<1> DEFINE n == Len(Names)
           r == TableRows
           t == [i \in 1..n |-> TableLen(Names[i])]
           o == Fields!All(r)
<1>1. r \in Seq(Seq(Octets)) /\ Len(r) = n /\ (\A i \in 1..n : r[i] = TableRow(Names[i]))
      /\ o \in Seq(Octets) /\ Fields!tableFill(table) = Fields!Prefixed(o)
  BY TableRowsType
<1>2. n \in Nat /\ \A i \in 1..n : Names[i] \in Seq(Octets)
  BY NamesAre
<1>3. \A i \in 1..n : Len(TableRow(Names[i])) = TableLen(Names[i]) /\ TableLen(Names[i]) \in Nat
  BY <1>2, TableRowType
<1>4. Fields!tableSize(table) = LongWidth + Fields!Total(t)
  BY Zenon DEF Fields!tableSize, TableLen, NameField
<1> HIDE DEF n
<1>5. t \in [1..n -> Nat] /\ \A i \in 1..n : t[i] = TableLen(Names[i])
  BY <1>3
<1>6. t \in Seq(Nat) /\ Len(t) = n
  <2> HIDE DEF t
  <2> QED BY <1>2, <1>5, RowsAre
<1> HIDE DEF t, r
<1>7. Len(o) = Fields!Total(t)
  <2>1. Len(t) = Len(r) /\ \A i \in 1..Len(r) : Len(r[i]) = t[i]
    BY <1>1, <1>3, <1>5, <1>6, Zenon
  <2>2. r \in Seq(Seq(Octets)) /\ t \in Seq(Nat)
    BY <1>1, <1>6
  <2> QED BY ONLY <2>1, <2>2, LenAll
<1>8. Len(Fields!Prefixed(o)) = LongWidth + Len(o)
  <2> HIDE DEF o
  <2> QED BY <1>1, PrefixedType
<1> QED BY <1>1, <1>4, <1>7, <1>8, Zenon DEF Fields!FillsExactly, r

\* Octets that begin with one.
LEMMA FirstOctet ==
  ASSUME NEW x, NEW t, NEW in, x \in Octets, t \in Seq(Octets), in = <<x>> \o t
  PROVE  in[1] = x /\ Tail(in) = t /\ in # <<>> /\ in \in Seq(Octets)
<1> DEFINE a == <<x>>
<1>1. a \in Seq(Octets) /\ Len(a) = 1 /\ a[1] = x
  OBVIOUS
<1>2. in = a \o t
  OBVIOUS
<1> HIDE DEF a
<1>3. /\ a \o t \in Seq(Octets) /\ Len(a \o t) = Len(a) + Len(t) /\ Len(t) \in Nat
      /\ \A i \in 1..Len(a) : (a \o t)[i] = a[i]
      /\ \A i \in 1..Len(t) : (a \o t)[Len(a) + i] = t[i]
  <2>1. a \in Seq(Octets) /\ t \in Seq(Octets)
    BY <1>1
  <2> QED BY ONLY <2>1, CatType
<1> DEFINE c == a \o t
<1> HIDE DEF c
<1>4. /\ c \in Seq(Octets) /\ Len(c) = 1 + Len(t) /\ c[1] = x /\ \A i \in 1..Len(t) : c[1 + i] = t[i]
  <2>1. 1 \in 1..Len(a)
    BY <1>1
  <2> QED BY <1>1, <1>3, <2>1, Zenon DEF c
<1>5. c # <<>>
  BY <1>3, <1>4
<1>6. Tail(c) \in Seq(Octets) /\ Len(Tail(c)) = Len(c) - 1 /\ \A i \in 1..Len(Tail(c)) : Tail(c)[i] = c[i + 1]
  BY <1>4, <1>5, HeadTailProperties
<1>7. Tail(c) = t
  <2> DEFINE d == Tail(c)
  <2> HIDE DEF d
  <2>1. Len(d) = Len(t)
    BY <1>3, <1>4, <1>6 DEF d
  <2>2. ASSUME NEW i \in 1..Len(d) PROVE d[i] = t[i]
    <3>1. i + 1 = 1 + i /\ i \in 1..Len(t)
      BY <2>1
    <3>2. d[i] = c[i + 1]
      BY <1>6 DEF d
    <3> QED BY <1>4, <3>1, <3>2
  <2>3. d \in Seq(Octets)
    BY <1>6 DEF d
  <2>4. d = t
    BY <2>1, <2>2, <2>3, SeqEqual
  <2> QED BY <2>4 DEF d
<1> QED BY <1>2, <1>4, <1>5, <1>7 DEF c

\* A field whose octets are few enough is read back.
LEMMA PlainTold ==
  ASSUME NEW f, Plain(f), Fields!size(f) < Fields!Base(LongWidth) PROVE Told(f.kind, f.value)
<1>1. /\ f.kind \in Classes /\ Holds(f.kind, f.value)
      /\ (f.kind = "LongString" => Len(f.value) < Fields!Base(LongWidth)) => Told(f.kind, f.value)
  BY Zenon DEF Plain
<1>2. ASSUME f.kind = "LongString" PROVE Len(f.value) < Fields!Base(LongWidth)
  <2>1. f.kind \in Sized
    BY <1>2 DEF Sized
  <2>2. Fields!size(f) = Fields!Width[Fields!SizeOf[f.kind]] + Len(f.value)
    BY <2>1, ClassOf, Zenon
  <2>3. f.value \in Seq(Octets)
    BY <1>1, <2>1, Zenon DEF Holds
  <2>4. Len(f.value) \in Nat
    BY <2>3
  <2>5. Fields!Width[Fields!SizeOf[f.kind]] = LongWidth /\ LongWidth \in Nat
    BY <1>2, KindsAre, WireAssumption
  <2>6. Fields!Base(LongWidth) \in Nat
    BY OneOctet
  <2> DEFINE l == Len(f.value)
             s == Fields!size(f)
             b == Fields!Base(LongWidth)
  <2>7. l \in Nat /\ s = LongWidth + l /\ LongWidth \in Nat /\ b \in Nat /\ s < b
    BY <2>2, <2>4, <2>5, <2>6
  <2> HIDE DEF l, s, b
  <2>8. l < b
    BY ONLY <2>7
  <2> QED BY <2>8 DEF l, b
<1> QED BY <1>1, <1>2, Zenon

\* An element is read as it was written, with what follows it left.
LEMMA ElementReads ==
  ASSUME NEW f, NEW rest, NEW in, Plain(f), Told(f.kind, f.value), rest \in Seq(Octets),
         in = <<Fields!TypeID[f.kind]>> \o (Fields!fill(f) \o rest)
  PROVE  Fields!readElement(in) = Fields!Got(f, rest) /\ Fields!readField(in) = Fields!Got(f, rest)
<1> DEFINE k == f.kind
           x == Fields!TypeID[k]
           y == Fields!fill(f) \o rest
           v == f.value
<1>1. k \in Classes /\ k \in DOMAIN Fields!TypeID /\ k # "Array" /\ f = [kind |-> k, value |-> v]
  BY Zenon DEF Plain
<1>2. Fields!KindFor(x) = k /\ x \in Octets
  BY <1>1, KindForIs, Identifiers, Zenon
<1>3. y \in Seq(Octets)
  <2> DEFINE z == Fields!fill(f)
  <2>1. z \in Seq(Octets)
    BY PlainFill, Zenon
  <2> HIDE DEF z
  <2>2. z \o rest \in Seq(Octets)
    BY <2>1, CatType
  <2> QED BY <2>2 DEF z
<1>4. in[1] = x /\ Tail(in) = y
  <2>1. in = <<x>> \o y
    OBVIOUS
  <2> HIDE DEF x, y
  <2> QED BY ONLY <1>2, <1>3, <2>1, FirstOctet
<1>5. Fields!read(k, y) = Fields!Got(v, rest)
  <2> HIDE DEF y
  <2>1. y = Fields!fill(f) \o rest
    BY DEF y
  <2> QED BY <1>1, <2>1, FieldReads, Zenon
<1>6. Fields!readElement(in) = Fields!Typed(k, Fields!Got(v, rest))
  BY <1>2, <1>4, <1>5, Zenon DEF Fields!readElement
<1> HIDE DEF v, k, x
<1>7. Fields!Typed(k, Fields!Got(v, rest)) = Fields!Got([kind |-> k, value |-> v], rest)
  BY DEF Fields!Typed, Fields!Got
<1>8. Fields!readElement(in) = Fields!Got(f, rest)
  BY <1>1, <1>6, <1>7, Zenon
<1>9. Fields!readField(in) = Fields!readElement(in)
  BY <1>1, <1>2, <1>4, Zenon DEF Fields!readField
<1> QED BY <1>8, <1>9, Zenon

\* The loop that reads the fields of an array.
Fresh(all) == [got |-> <<>>, rest |-> all]

\* g reads the elements of all one after the other, up to the n-th.
IsElements(g, all, n) == g = [i \in 0..n |-> IF i = 0 THEN Fresh(all) ELSE Fields!nextElement(g[i - 1])]

\* Such a g exists for every number of elements.
LEMMA ElementsExist ==
  ASSUME NEW all PROVE \A n \in Nat : \E g : IsElements(g, all, n)
<1> DEFINE Step(w) == Fields!nextElement(w)
           T == {n \in Nat : \E g : IsElements(g, all, n)}
<1>1. 0 \in T
  <2> DEFINE g == [i \in 0..0 |-> Fresh(all)]
  <2>1. g = [i \in 0..0 |-> IF i = 0 THEN Fresh(all) ELSE Step(g[i - 1])]
    OBVIOUS
  <2> QED BY <2>1 DEF IsElements
<1>2. ASSUME NEW n \in Nat \ {0}, n - 1 \in T PROVE n \in T
  <2>1. PICK g : g = [i \in 0..(n - 1) |-> IF i = 0 THEN Fresh(all) ELSE Step(g[i - 1])]
    BY <1>2 DEF IsElements
  <2> HIDE DEF Step
  <2> DEFINE h == [i \in 0..n |-> IF i = n THEN Step(g[n - 1]) ELSE g[i]]
  <2>2. ASSUME NEW i \in 0..n PROVE h[i] = IF i = 0 THEN Fresh(all) ELSE Step(h[i - 1])
    <3>1. CASE i = n
      BY <3>1
    <3>2. CASE i # n
      BY <3>2, <2>1
    <3> QED BY <3>1, <3>2
  <2>3. h = [i \in 0..n |-> IF i = 0 THEN Fresh(all) ELSE Step(h[i - 1])]
    BY <2>2
  <2> QED BY <2>3 DEF IsElements, Step
<1>3. ASSUME NEW n \in Nat PROVE n \in T
  <2>1. \A i \in 1..n : i - 1 \in T => i \in T
    BY <1>2
  <2> HIDE DEF T
  <2>2. \A i \in 0..n : i \in T
    BY <1>1, <2>1, Upward
  <2> QED BY <2>2
<1> QED BY <1>3

\* The constructor reads one element after the other: its steps, without the recursive
\* function.
LEMMA ElementsPick ==
  ASSUME NEW all, Len(all) \in Nat
  PROVE  \E g : /\ Fields!Elements(all) = g[Len(all)].got /\ g[0] = Fresh(all)
                /\ \A i \in 1..Len(all) : g[i] = Fields!nextElement(g[i - 1])
<1>1. PICK g : IsElements(g, all, Len(all)) /\ Fields!Elements(all) = g[Len(all)].got
  <2>1. \E g : IsElements(g, all, Len(all))
    BY ElementsExist
  <2>2. Fields!Elements(all) = (CHOOSE g : IsElements(g, all, Len(all)))[Len(all)].got
    BY Zenon DEF Fields!Elements, IsElements, Fresh
  <2> QED BY <2>1, <2>2, Zenon
<1> DEFINE n == Len(all)
<1>2. n \in Nat
  OBVIOUS
<1> HIDE DEF n
<1>3. g = [i \in 0..n |-> IF i = 0 THEN Fresh(all) ELSE Fields!nextElement(g[i - 1])]
  BY <1>1 DEF IsElements, n
<1>4. \A i \in 0..n : g[i] = IF i = 0 THEN Fresh(all) ELSE Fields!nextElement(g[i - 1])
  BY <1>3
<1>5. 0 \in 0..n /\ \A i \in 1..n : i \in 0..n /\ i # 0
  BY <1>2
<1>6. g[0] = Fresh(all) /\ \A i \in 1..n : g[i] = Fields!nextElement(g[i - 1])
  BY <1>4, <1>5, Zenon
<1> QED BY <1>1, <1>6, Zenon DEF n

\* Where the reading of an array is after i fields of it, of octets that are n in all.
Heard(i, w, a, n, S) ==
  /\ i + Len(Fields!All(From(ArrayRows(a), i + 1))) <= n
  /\ w.rest = Fields!All(From(ArrayRows(a), i + 1))
  /\ w.got \in Seq(S) /\ Len(w.got) = i /\ \A j \in 1..i : w.got[j] = a[j]

\* Reading the i-th element gives it and leaves what was written after it.
LEMMA HeardStep ==
  ASSUME NEW a, NEW n, NEW S, NEW i, NEW w, Arrayed(a), a \in Seq(S), n \in Nat, n < Fields!Base(LongWidth),
         i \in 1..Len(a), Heard(i - 1, w, a, n, S)
  PROVE  Heard(i, Fields!nextElement(w), a, n, S)
<1> DEFINE r == ArrayRows(a)
           f == a[i]
           t == Fields!All(From(r, i + 1))
           o == Fields!All(From(r, i))
           k == i
           x == <<Fields!TypeID[f.kind]>>
           y == Fields!fill(f)
           z == Fields!nextElement(w)
<1>1. Len(a) \in Nat /\ Plain(f)
  BY ArrayedIs
<1>2. r \in Seq(Seq(Octets)) /\ Len(r) = Len(a) /\ r[i] = ElementRow(f)
  BY ArrayRowsType
<1>3. o = r[i] \o t /\ t \in Seq(Octets)
  <2> HIDE DEF r, k
  <2>1. k \in 1..Len(r) /\ r \in Seq(Seq(Octets))
    BY <1>2 DEF k
  <2>2. /\ Fields!All(From(r, k)) = r[k] \o Fields!All(From(r, k + 1))
        /\ Fields!All(From(r, k + 1)) \in Seq(Octets)
    BY ONLY <2>1, AllFrom
  <2> QED BY <2>2 DEF k
<1>4. /\ i - 1 + Len(o) <= n /\ w.rest = o
      /\ w.got \in Seq(S) /\ Len(w.got) = i - 1 /\ \A j \in 1..(i - 1) : w.got[j] = a[j]
  <2>1. i - 1 + 1 = i
    OBVIOUS
  <2> QED BY <2>1, Zenon DEF Heard
<1>5. x \in Seq(Octets) /\ y \in Seq(Octets) /\ Len(x) = 1 /\ Len(y) = Fields!size(f)
      /\ Fields!size(f) \in Nat
      /\ f.kind \in DOMAIN Fields!TypeID
  <2>1. f.kind \in DOMAIN Fields!TypeID
    BY <1>1, Zenon DEF Plain
  <2> QED BY <1>1, <2>1, IdentifierRow, PlainFill, Zenon
<1>6. r[i] = x \o y
  BY <1>2, Zenon DEF ElementRow
<1> HIDE DEF r, t, o, x, y, f
<1>7. o = x \o (y \o t)
  <2>1. o = (x \o y) \o t /\ x \in Seq(Octets) /\ y \in Seq(Octets) /\ t \in Seq(Octets)
    BY ONLY <1>3, <1>5, <1>6
  <2>2. (x \o y) \o t = x \o (y \o t)
    BY ONLY <2>1, CatAssoc, SMTT(60)
  <2> QED BY ONLY <2>1, <2>2
<1>8. /\ Len(o) = Len(x) + Len(y \o t) /\ Len(y \o t) = Len(y) + Len(t) /\ Len(t) \in Nat
  <2> DEFINE u == y \o t
  <2>1. u \in Seq(Octets) /\ Len(u) = Len(y) + Len(t) /\ Len(t) \in Nat
    <3>1. y \in Seq(Octets) /\ t \in Seq(Octets)
      BY <1>3, <1>5
    <3> QED BY ONLY <3>1, CatType
  <2> HIDE DEF u
  <2>2. Len(x \o u) = Len(x) + Len(u)
    <3>1. x \in Seq(Octets) /\ u \in Seq(Octets)
      BY <1>5, <2>1
    <3> QED BY ONLY <3>1, CatType
  <2> QED BY <1>7, <2>1, <2>2 DEF u
<1>9. /\ i + Len(t) <= n /\ Fields!size(f) < Fields!Base(LongWidth) /\ Len(o) # 0
  <2> DEFINE lt == Len(t)
             lo == Len(o)
             ls == Fields!size(f)
             b == Fields!Base(LongWidth)
  <2>1. lt \in Nat /\ ls \in Nat /\ lo = 1 + (ls + lt) /\ b \in Nat /\ n \in Nat /\ n < b
        /\ i - 1 + lo <= n
    BY <1>4, <1>5, <1>8, OneOctet
  <2>2. i \in Nat \ {0}
    BY <1>1
  <2> HIDE DEF lt, lo, ls, b
  <2>3. i + lt <= n /\ ls < b /\ lo # 0
    BY ONLY <2>1, <2>2
  <2> QED BY <2>3 DEF lt, lo, ls, b
<1>10. o # <<>>
  BY <1>9
<1>11. Fields!readElement(w.rest) = Fields!Got(f, t)
  <2>1. Told(f.kind, f.value)
    BY <1>1, <1>9, PlainTold, Zenon
  <2> DEFINE in == o
  <2>2. in = <<Fields!TypeID[f.kind]>> \o (Fields!fill(f) \o t)
    BY <1>7 DEF x, y
  <2> HIDE DEF in
  <2>3. Fields!readElement(in) = Fields!Got(f, t)
    BY ONLY <1>1, <1>3, <2>1, <2>2, ElementReads
  <2> QED BY <1>4, <2>3, Zenon DEF in
<1> DEFINE q == Fields!readElement(w.rest)
<1>12. q.value = f /\ q.rest = t
  BY <1>11 DEF Fields!Got
<1>13. z = [got |-> Append(w.got, q.value), rest |-> q.rest]
  BY <1>4, <1>10, Zenon DEF Fields!nextElement
<1> HIDE DEF q, z
<1>14. z.got = Append(w.got, f) /\ z.rest = t
  BY <1>12, <1>13
<1>15. z.got \in Seq(S) /\ Len(z.got) = i /\ \A j \in 1..i : z.got[j] = a[j]
  <2> DEFINE h == w.got
             b == Append(h, f)
  <2>1. f \in S
    BY DEF f
  <2>2. h \in Seq(S) /\ Len(h) = i - 1 /\ \A j \in 1..(i - 1) : h[j] = a[j]
    BY <1>4
  <2>3. i \in Nat \ {0} /\ f = a[i]
    BY <1>1 DEF f
  <2> HIDE DEF h
  <2>4. b \in Seq(S) /\ Len(b) = Len(h) + 1 /\ b[Len(h) + 1] = f /\ \A j \in 1..Len(h) : b[j] = h[j]
    BY <2>1, <2>2, AppendProperties
  <2> HIDE DEF b
  <2>5. Len(b) = i /\ \A j \in 1..i : b[j] = a[j]
    <3>1. Len(b) = i /\ b[i] = a[i]
      BY ONLY <2>2, <2>3, <2>4
    <3>2. ASSUME NEW j \in 1..(i - 1) PROVE b[j] = a[j]
      BY ONLY <2>2, <2>4, <3>2
    <3>3. \A j \in 1..i : j \in 1..(i - 1) \/ j = i
      BY ONLY <2>3
    <3> QED BY ONLY <3>1, <3>2, <3>3, Zenon
  <2> QED BY <1>14, <2>4, <2>5 DEF b, h
<1> QED BY <1>9, <1>14, <1>15, Zenon DEF Heard, t, z, r

\* An array is read back from its octets.
LEMMA ArrayReads ==
  ASSUME NEW a, Arrayed(a), NEW o, o = Fields!All(ArrayRows(a)), Len(o) < Fields!Base(LongWidth)
  PROVE  Fields!Elements(o) = a
<1> DEFINE r == ArrayRows(a)
           l == Len(a)
           n == Len(o)
           Q == Seq(Octets)
<1>1. PICK S : a \in Seq(S)
  BY Zenon DEF Arrayed
<1>2. r \in Seq(Q) /\ Len(r) = l /\ o \in Seq(Octets) /\ l \in Nat
  BY ArrayRowsType, ArrayedIs
<1>3. n \in Nat /\ n < Fields!Base(LongWidth)
  BY <1>2
<1>4. From(r, 1) = r /\ Fields!All(From(r, l + 1)) = <<>>
  <2> HIDE DEF r, Q
  <2>1. From(r, 1) = r /\ Fields!All(From(r, Len(r) + 1)) = <<>>
    BY <1>2, FromAll
  <2> QED BY <1>2, <2>1
<1>5. PICK g : /\ Fields!Elements(o) = g[n].got /\ g[0] = Fresh(o)
               /\ \A i \in 1..n : g[i] = Fields!nextElement(g[i - 1])
  BY <1>3, ElementsPick
<1> HIDE DEF n, l
<1> DEFINE T == {i \in Nat : Heard(i, g[i], a, n, S)}
<1>6. 0 \in T
  <2>1. Fresh(o).got = <<>> /\ Fresh(o).rest = o
    BY DEF Fresh
  <2>2. <<>> \in Seq(S) /\ Len(<<>>) = 0 /\ 0 + n <= n /\ 0 + 1 = 1 /\ 0 \in Nat
    BY <1>3
  <2>3. Fields!All(From(r, 0 + 1)) = o /\ 0 + Len(o) <= n
    BY <1>4, <2>2, Zenon DEF n
  <2>4. ~(\E j \in 1..0 : TRUE)
    OBVIOUS
  <2>5. Heard(0, Fresh(o), a, n, S)
    BY <2>1, <2>2, <2>3, <2>4, Zenon DEF Heard
  <2> QED BY <1>5, <2>2, <2>5, Zenon
<1>7. ASSUME NEW i \in 1..l, i - 1 \in T PROVE i \in T
  <2>1. Heard(i - 1, g[i - 1], a, n, S) /\ i \in Nat
    BY <1>2, <1>7
  <2>2. Heard(i, Fields!nextElement(g[i - 1]), a, n, S)
    BY <1>1, <1>3, <2>1, HeardStep, Zenon DEF l
  <2>3. i \in 1..n
    <3> DEFINE t == Fields!All(From(r, i + 1))
    <3>1. i + Len(t) <= n
      BY <2>2, Zenon DEF Heard
    <3>2. Len(t) \in Nat
      <4>1. i \in 1..Len(r)
        BY <1>2
      <4> DEFINE k == i
      <4>2. k \in 1..Len(r) /\ r \in Seq(Seq(Octets))
        BY <1>2, <4>1
      <4> HIDE DEF k, r
      <4>3. Fields!All(From(r, k + 1)) \in Seq(Octets)
        BY ONLY <4>2, AllFrom
      <4>4. Len(Fields!All(From(r, k + 1))) \in Nat
        BY ONLY <4>3
      <4> QED BY <4>4 DEF k
    <3> HIDE DEF t
    <3> QED BY <1>2, <1>3, <3>1, <3>2
  <2>4. g[i] = Fields!nextElement(g[i - 1])
    BY <1>5, <2>3, Zenon
  <2> QED BY <2>1, <2>2, <2>4, Zenon
<1>8. Heard(l, g[l], a, n, S)
  <2>1. \A i \in 1..l : i - 1 \in T => i \in T
    BY <1>7
  <2> HIDE DEF T
  <2>2. \A i \in 0..l : i \in T
    BY <1>2, <1>6, <2>1, Upward
  <2>3. l \in T
    BY <1>2, <2>2
  <2> QED BY <2>3 DEF T
<1>9. /\ g[l].rest = <<>> /\ g[l].got \in Seq(S) /\ Len(g[l].got) = l /\ (\A j \in 1..l : g[l].got[j] = a[j])
      /\ l <= n
  <2>1. /\ l + Len(Fields!All(From(r, l + 1))) <= n /\ g[l].rest = Fields!All(From(r, l + 1))
        /\ g[l].got \in Seq(S) /\ Len(g[l].got) = l /\ \A j \in 1..l : g[l].got[j] = a[j]
    BY <1>8, Zenon DEF Heard
  <2>2. Len(<<>>) = 0
    OBVIOUS
  <2>3. l + 0 <= n
    BY <1>4, <2>1, <2>2, Zenon
  <2>4. l <= n
    BY <1>2, <2>3
  <2> QED BY <1>4, <2>1, <2>4, Zenon
<1>10. g[l].got = a
  <2> DEFINE h == g[l].got
  <2>1. h \in Seq(S) /\ Len(h) = Len(a) /\ \A j \in 1..Len(h) : h[j] = a[j]
    BY <1>9 DEF l
  <2> HIDE DEF h
  <2>2. h = a
    BY <1>1, <2>1, SeqEqual
  <2> QED BY <2>2 DEF h
<1>11. g[n] = g[l]
  <2> DEFINE U == {i \in Nat : g[l + i] = g[l]}
             m == n - l
  <2>1. m \in Nat /\ l + m = n /\ l + 0 = l
    BY <1>2, <1>3, <1>9
  <2>2. 0 \in U
    BY <2>1
  <2>3. ASSUME NEW i \in 1..m, i - 1 \in U PROVE i \in U
    <3> DEFINE e == l + i
    <3>1. e \in 1..n /\ e - 1 = l + (i - 1) /\ i \in Nat
      BY <1>2, <1>3, <2>1
    <3>2. g[l + (i - 1)] = g[l]
      BY <2>3
    <3> HIDE DEF e
    <3>3. g[e] = Fields!nextElement(g[l])
      <4>1. e \in 1..n /\ g[e - 1] = g[l]
        BY <3>1, <3>2, Zenon
      <4>2. g[e] = Fields!nextElement(g[e - 1])
        BY <1>5, <4>1
      <4>3. g[e] = Fields!nextElement(g[l])
        BY <4>1, <4>2, Zenon
      <4> QED BY <4>3
    <3>4. Fields!nextElement(g[l]) = g[l]
      BY <1>9, Zenon DEF Fields!nextElement
    <3> QED BY <3>1, <3>3, <3>4, Zenon DEF e
  <2>4. \A i \in 1..m : i - 1 \in U => i \in U
    BY <2>3
  <2> HIDE DEF U, m
  <2>5. \A i \in 0..m : i \in U
    BY <2>1, <2>2, <2>4, Upward
  <2>6. m \in U
    BY <2>1, <2>5
  <2> QED BY <2>1, <2>6 DEF U
<1> QED BY <1>5, <1>10, <1>11, Zenon DEF n

\* A string that is not too long is told by its class.
LEMMA SizedFits ==
  ASSUME NEW k, NEW v, k \in Sized, v \in Seq(Octets), Len(v) < Fields!Base(Prefix(k)) PROVE Told(k, v)
<1>1. k \notin Fields!Numeric /\ k # "Decimal" /\ k # "BooleanSet"
  BY KindsAre DEF Sized
<1> QED BY <1>1, Zenon DEF Told

\* A field of a table, an array or another, is read back.
LEMMA StoredReads ==
  ASSUME NEW f, NEW rest, NEW in, Plain(f) \/ Listed(f), Fields!fieldSize(f) < Fields!Base(LongWidth),
         rest \in Seq(Octets), in = <<Fields!TypeID[f.kind]>> \o (Fields!fieldFill(f) \o rest)
  PROVE  Fields!readField(in) = Fields!Got(f, rest)
<1>1. CASE Plain(f)
  <2>1. f.kind # "Array"
    BY <1>1, Zenon DEF Plain
  <2>2. Fields!fieldFill(f) = Fields!fill(f) /\ Fields!fieldSize(f) = Fields!size(f)
    BY <2>1, Zenon DEF Fields!fieldFill, Fields!fieldSize
  <2>3. Told(f.kind, f.value)
    BY <1>1, <2>2, PlainTold, Zenon
  <2>4. in = <<Fields!TypeID[f.kind]>> \o (Fields!fill(f) \o rest) /\ rest \in Seq(Octets)
    BY <2>2, Zenon
  <2> QED BY ONLY <1>1, <2>3, <2>4, ElementReads
<1>2. CASE Listed(f)
  <2> DEFINE a == f.value
             o == Fields!All(ArrayRows(a))
             x == Fields!TypeID[f.kind]
             p == Fields!add(Len(o), LongWidth)
             y == (p \o o) \o rest
             k == "Nested"
  <2>1. f.kind = "Array" /\ f = [kind |-> f.kind, value |-> a] /\ Arrayed(a)
    BY <1>2, Zenon DEF Listed
  <2>2. f.kind \in DOMAIN Fields!TypeID
    BY <2>1, Identifiers
  <2>3. x \in Octets /\ Fields!KindFor(x) = "Array"
    BY <2>1, <2>2, Identifiers, KindForIs, Zenon
  <2>4. /\ o \in Seq(Octets) /\ Fields!fieldFill(f) = Fields!Prefixed(o)
    <3>1. o \in Seq(Octets) /\ Fields!arrayFill(a) = Fields!Prefixed(o)
      <4> HIDE DEF a
      <4> QED BY <2>1, ArrayRowsType, Zenon
    <3>2. Fields!fieldFill(f) = Fields!arrayFill(a)
      BY <2>1, Zenon DEF Fields!fieldFill
    <3> QED BY <3>1, <3>2, Zenon
  <2>5. Fields!Prefixed(o) = p \o o /\ Len(Fields!Prefixed(o)) = LongWidth + Len(o)
    <3> HIDE DEF o
    <3> QED BY <2>4, PrefixedType
  <2>6. Len(o) < Fields!Base(LongWidth)
    <3>1. Len(Fields!fieldFill(f)) = Fields!fieldSize(f)
      BY FieldFillType, Zenon
    <3> DEFINE l == Len(o)
               s == Fields!fieldSize(f)
               b == Fields!Base(LongWidth)
    <3>2. l \in Nat /\ s = LongWidth + l /\ LongWidth \in Nat /\ b \in Nat /\ s < b
      <4>1. l \in Nat
        <5> HIDE DEF o
        <5> QED BY <2>4
      <4> QED BY <2>4, <2>5, <3>1, <4>1, OneOctet, WireAssumption
    <3> HIDE DEF l, s, b
    <3>3. l < b
      BY ONLY <3>2
    <3> QED BY <3>3 DEF l, b
  <2>7. Fields!Elements(o) = a
    <3> DEFINE all == o
    <3>1. all = Fields!All(ArrayRows(a)) /\ Len(all) < Fields!Base(LongWidth)
      BY <2>6
    <3> HIDE DEF all, a
    <3>2. Fields!Elements(all) = a
      BY ONLY <2>1, <3>1, ArrayReads
    <3> QED BY <3>2 DEF all, a
  <2> HIDE DEF a, o, x
  <2>8. y \in Seq(Octets) /\ in = <<x>> \o y
    <3>1. in = <<x>> \o y
      BY <2>4, <2>5, Zenon DEF x
    <3>2. p \in Seq(Octets)
      <4>1. Len(o) \in Int /\ LongWidth \in Nat
        BY <2>4, WireAssumption
      <4> QED BY <4>1, AddOctets, Zenon
    <3> HIDE DEF p
    <3>3. p \o o \in Seq(Octets)
      BY <2>4, <3>2, CatType
    <3> DEFINE u == p \o o
    <3> HIDE DEF u
    <3>4. u \o rest \in Seq(Octets)
      BY <3>3, CatType DEF u
    <3> QED BY <3>1, <3>4 DEF u
  <2>9. in[1] = x /\ Tail(in) = y
    <3> HIDE DEF y
    <3> QED BY ONLY <2>3, <2>8, FirstOctet
  <2>10. k \in Sized /\ Prefix(k) = LongWidth
    BY PrefixOf DEF Sized
  <2>11. Fields!readString(k, y) = Fields!Got(o, rest)
    <3> HIDE DEF k
    <3>1. Told(k, o)
      BY <2>4, <2>6, <2>10, SizedFits, Zenon
    <3> DEFINE q == y
    <3>2. q = (Fields!add(Len(o), Prefix(k)) \o o) \o rest /\ rest \in Seq(Octets)
      BY <2>10, Zenon
    <3> HIDE DEF q
    <3>3. Fields!readString(k, q) = Fields!Got(o, rest)
      BY ONLY <2>10, <3>1, <3>2, SizedReads
    <3> QED BY <3>3 DEF q
  <2> HIDE DEF y
  <2>12. Fields!readArray(y) = Fields!Got(a, rest)
    <3>1. Fields!Got(o, rest).value = o /\ Fields!Got(o, rest).rest = rest
      BY DEF Fields!Got
    <3> QED BY <2>7, <2>11, <3>1, Zenon DEF Fields!readArray, Fields!ArrayIn
  <2>13. Fields!readField(in) = Fields!Typed("Array", Fields!Got(a, rest))
    BY <2>3, <2>9, <2>12, Zenon DEF Fields!readField
  <2>14. Fields!Typed("Array", Fields!Got(a, rest)) = Fields!Got([kind |-> "Array", value |-> a], rest)
    BY DEF Fields!Typed, Fields!Got
  <2> QED BY <2>1, <2>13, <2>14, Zenon
<1> QED BY <1>1, <1>2

\* The loop that reads the fields of a table.
IsTable(g, all, n) == g = [i \in 0..n |-> IF i = 0 THEN Fresh(all) ELSE Fields!nextField(g[i - 1])]

\* The recursive function behind Fields exists for every number of fields.
LEMMA TableExists ==
  ASSUME NEW all PROVE \A n \in Nat : \E g : IsTable(g, all, n)
<1> DEFINE Step(w) == Fields!nextField(w)
           T == {n \in Nat : \E g : IsTable(g, all, n)}
<1>1. 0 \in T
  <2> DEFINE g == [i \in 0..0 |-> Fresh(all)]
  <2>1. g = [i \in 0..0 |-> IF i = 0 THEN Fresh(all) ELSE Step(g[i - 1])]
    OBVIOUS
  <2> QED BY <2>1 DEF IsTable
<1>2. ASSUME NEW n \in Nat \ {0}, n - 1 \in T PROVE n \in T
  <2>1. PICK g : g = [i \in 0..(n - 1) |-> IF i = 0 THEN Fresh(all) ELSE Step(g[i - 1])]
    BY <1>2 DEF IsTable
  <2> HIDE DEF Step
  <2> DEFINE h == [i \in 0..n |-> IF i = n THEN Step(g[n - 1]) ELSE g[i]]
  <2>2. ASSUME NEW i \in 0..n PROVE h[i] = IF i = 0 THEN Fresh(all) ELSE Step(h[i - 1])
    <3>1. CASE i = n
      BY <3>1
    <3>2. CASE i # n
      BY <3>2, <2>1
    <3> QED BY <3>1, <3>2
  <2>3. h = [i \in 0..n |-> IF i = 0 THEN Fresh(all) ELSE Step(h[i - 1])]
    BY <2>2
  <2> QED BY <2>3 DEF IsTable, Step
<1>3. ASSUME NEW n \in Nat PROVE n \in T
  <2>1. \A i \in 1..n : i - 1 \in T => i \in T
    BY <1>2
  <2> HIDE DEF T
  <2>2. \A i \in 0..n : i \in T
    BY <1>1, <2>1, Upward
  <2> QED BY <2>2
<1> QED BY <1>3

\* The constructor reads one field after the other: its steps, without the recursive
\* function.
LEMMA TablePick ==
  ASSUME NEW all, Len(all) \in Nat
  PROVE  \E g : /\ Fields!Fields(all) = g[Len(all)].got /\ g[0] = Fresh(all)
                /\ \A i \in 1..Len(all) : g[i] = Fields!nextField(g[i - 1])
<1>1. PICK g : IsTable(g, all, Len(all)) /\ Fields!Fields(all) = g[Len(all)].got
  <2>1. \E g : IsTable(g, all, Len(all))
    BY TableExists
  <2>2. Fields!Fields(all) = (CHOOSE g : IsTable(g, all, Len(all)))[Len(all)].got
    BY Zenon DEF Fields!Fields, IsTable, Fresh
  <2> QED BY <2>1, <2>2, Zenon
<1> DEFINE n == Len(all)
<1>2. n \in Nat
  OBVIOUS
<1> HIDE DEF n
<1>3. g = [i \in 0..n |-> IF i = 0 THEN Fresh(all) ELSE Fields!nextField(g[i - 1])]
  BY <1>1 DEF IsTable, n
<1>4. \A i \in 0..n : g[i] = IF i = 0 THEN Fresh(all) ELSE Fields!nextField(g[i - 1])
  BY <1>3
<1>5. 0 \in 0..n /\ \A i \in 1..n : i \in 0..n /\ i # 0
  BY <1>2
<1>6. g[0] = Fresh(all) /\ \A i \in 1..n : g[i] = Fields!nextField(g[i - 1])
  BY <1>4, <1>5, Zenon
<1> QED BY <1>1, <1>6, Zenon DEF n

\* What has been read is the part of the table with the first i names.
Gathered(i, w) ==
  /\ w.rest = Fields!All(From(TableRows, i + 1))
  /\ \A x : x \in DOMAIN w.got <=> x \in DOMAIN table /\ \E j \in 1..i : Names[j] = x
  /\ \A x \in DOMAIN w.got : w.got[x] = table[x]

\* What is written from the i-th name on begins with it.
LEMMA RestAfter ==
  ASSUME Storing, NEW i, i \in 1..Len(Names)
  PROVE  /\ Fields!All(From(TableRows, i)) = TableRow(Names[i]) \o Fields!All(From(TableRows, i + 1))
         /\ Fields!All(From(TableRows, i + 1)) \in Seq(Octets) /\ i - 1 + 1 = i /\ i \in Nat
<1> DEFINE r == TableRows
           k == i
<1>1. r \in Seq(Seq(Octets)) /\ Len(r) = Len(Names) /\ r[i] = TableRow(Names[i]) /\ Len(Names) \in Nat
  BY TableRowsType, NamesAre
<1>2. i - 1 + 1 = i /\ i \in Nat
  BY <1>1
<1>3. k \in 1..Len(r)
  BY <1>1
<1> HIDE DEF r, k
<1>4. /\ Fields!All(From(r, k)) = r[k] \o Fields!All(From(r, k + 1))
      /\ Fields!All(From(r, k + 1)) \in Seq(Octets)
  BY ONLY <1>1, <1>3, AllFrom
<1> QED BY <1>1, <1>2, <1>4 DEF r, k

\* A name that the table does not have leaves no octets.
LEMMA GatheredNone ==
  ASSUME Storing, NEW i, i \in 1..Len(Names), NEW w, Gathered(i - 1, w), Names[i] \notin DOMAIN table
  PROVE  Gathered(i, w)
<1>1. /\ Fields!All(From(TableRows, i)) = TableRow(Names[i]) \o Fields!All(From(TableRows, i + 1))
      /\ Fields!All(From(TableRows, i + 1)) \in Seq(Octets) /\ i - 1 + 1 = i /\ i \in Nat
  BY RestAfter
<1>2. TableRow(Names[i]) = <<>>
  BY Zenon DEF TableRow
<1>3. Fields!All(From(TableRows, i)) = Fields!All(From(TableRows, i + 1))
  <2> DEFINE t == Fields!All(From(TableRows, i + 1))
  <2>1. t \in Seq(Octets) /\ Fields!All(From(TableRows, i)) = <<>> \o t
    BY <1>1, <1>2, Zenon
  <2> HIDE DEF t
  <2>2. Fields!All(From(TableRows, i)) = t
    BY ONLY <2>1
  <2> QED BY <2>2 DEF t
<1>4. /\ w.rest = Fields!All(From(TableRows, i))
      /\ \A x : x \in DOMAIN w.got <=> x \in DOMAIN table /\ \E j \in 1..(i - 1) : Names[j] = x
      /\ \A x \in DOMAIN w.got : w.got[x] = table[x]
  BY <1>1, Zenon DEF Gathered
<1>5. \A j : j \in 1..i <=> j \in 1..(i - 1) \/ j = i
  BY <1>1
<1>6. ASSUME NEW x PROVE x \in DOMAIN w.got <=> x \in DOMAIN table /\ \E j \in 1..i : Names[j] = x
  BY <1>4, <1>5, Zenon
<1> QED BY <1>3, <1>4, <1>6, Zenon DEF Gathered

\* A name that it has is read with its field.
LEMMA GatheredOne ==
  ASSUME Storing, NEW i, i \in 1..Len(Names), NEW w, Gathered(i - 1, w), Names[i] \in DOMAIN table,
         Len(Names[i]) < Fields!Base(1), Len(w.rest) < Fields!Base(LongWidth)
  PROVE  /\ Gathered(i, Fields!nextField(w))
         /\ Len(Fields!All(From(TableRows, i + 1))) < Len(w.rest)
<1> DEFINE n == Names[i]
           f == table[n]
           t == Fields!All(From(TableRows, i + 1))
           x == Fields!fill(NameField(n))
           y == <<Fields!TypeID[f.kind]>>
           z == Fields!fieldFill(f)
           u == z \o t
           v == y \o u
           in == w.rest
           k == "ShortString"
           s == Fields!nextField(w)
<1>1. /\ Fields!All(From(TableRows, i)) = TableRow(n) \o t
      /\ t \in Seq(Octets) /\ i - 1 + 1 = i /\ i \in Nat
  BY RestAfter
<1>2. /\ in = TableRow(n) \o t
      /\ \A q : q \in DOMAIN w.got <=> q \in DOMAIN table /\ \E j \in 1..(i - 1) : Names[j] = q
      /\ \A q \in DOMAIN w.got : w.got[q] = table[q]
  BY <1>1, Zenon DEF Gathered
<1>3. n \in Seq(Octets)
  BY NamesAre
<1>4. /\ Plain(f) \/ Listed(f)
      /\ x \in Seq(Octets) /\ z \in Seq(Octets) /\ y \in Seq(Octets)
      /\ TableRow(n) = (x \o y) \o z
  <2> HIDE DEF n
  <2>1. n \in DOMAIN table
    BY DEF n
  <2> QED BY <1>3, <2>1, TableRowParts, Zenon
<1>5. x = Fields!add(Len(n), Prefix(k)) \o n
  BY <1>3, NameFill, Zenon
<1>6. Len(z) = Fields!fieldSize(f) /\ Len(y) = 1
  BY <1>4, FieldFillType, Zenon
<1> HIDE DEF t, x, y, z, in
<1>7. u \in Seq(Octets) /\ Len(u) = Len(z) + Len(t) /\ Len(t) \in Nat /\ Len(z) \in Nat
  <2>1. z \in Seq(Octets) /\ t \in Seq(Octets)
    BY <1>1, <1>4
  <2> QED BY ONLY <2>1, CatType
<1>8. in = x \o v
  <2>1. in = ((x \o y) \o z) \o t
    BY <1>2, <1>4, Zenon
  <2>2. x \o y \in Seq(Octets) /\ x \in Seq(Octets) /\ y \in Seq(Octets) /\ z \in Seq(Octets)
        /\ t \in Seq(Octets)
    <3>1. x \in Seq(Octets) /\ y \in Seq(Octets) /\ z \in Seq(Octets) /\ t \in Seq(Octets)
      BY <1>1, <1>4
    <3> QED BY <3>1, CatType
  <2> DEFINE c == x \o y
  <2> HIDE DEF c
  <2>3. (c \o z) \o t = c \o (z \o t)
    <3>1. c \in Seq(Octets) /\ z \in Seq(Octets) /\ t \in Seq(Octets)
      BY <2>2 DEF c
    <3> QED BY ONLY <3>1, CatAssoc, SMTT(60)
  <2> HIDE DEF u
  <2>4. (x \o y) \o u = x \o (y \o u)
    <3>1. x \in Seq(Octets) /\ y \in Seq(Octets) /\ u \in Seq(Octets)
      BY <1>7, <2>2
    <3> QED BY ONLY <3>1, CatAssoc, SMTT(60)
  <2> QED BY <2>1, <2>3, <2>4, Zenon DEF c, u
<1> HIDE DEF u
<1>9. v \in Seq(Octets) /\ Len(v) = Len(y) + Len(u)
  <2>1. y \in Seq(Octets) /\ u \in Seq(Octets)
    BY <1>4, <1>7
  <2> QED BY ONLY <2>1, CatType
<1> HIDE DEF v
<1>10. Len(in) = Len(x) + Len(v) /\ Len(x) \in Nat
  <2>1. x \in Seq(Octets) /\ v \in Seq(Octets)
    BY <1>4, <1>9
  <2>2. Len(x \o v) = Len(x) + Len(v) /\ Len(x) \in Nat
    BY ONLY <2>1, CatType
  <2> QED BY <1>8, <2>2, Zenon
<1>11. Len(t) < Len(in) /\ Fields!fieldSize(f) < Fields!Base(LongWidth) /\ Len(in) # 0
  <2> DEFINE li == Len(in)
             lx == Len(x)
             lz == Len(z)
             lt == Len(t)
             b == Fields!Base(LongWidth)
  <2>1. lx \in Nat /\ lz \in Nat /\ lt \in Nat /\ b \in Nat /\ li = lx + (1 + (lz + lt)) /\ li < b
    BY <1>6, <1>7, <1>9, <1>10, OneOctet DEF in
  <2> HIDE DEF li, lx, lz, lt, b
  <2>2. lt < li /\ lz < b /\ li # 0
    BY ONLY <2>1
  <2> QED BY <1>6, <2>2 DEF li, lz, lt, b
<1>12. in # <<>>
  BY <1>11
<1>13. k \in Sized /\ Prefix(k) = 1
  BY PrefixOf DEF Sized
<1> HIDE DEF n
<1>14. Fields!readString(k, in) = Fields!Got(n, v)
  <2> HIDE DEF k
  <2>1. Told(k, n)
    BY <1>3, <1>13, SizedFits, Zenon DEF n
  <2>2. in = (Fields!add(Len(n), Prefix(k)) \o n) \o v
    BY <1>5, <1>8, Zenon
  <2> QED BY ONLY <1>9, <1>13, <2>1, <2>2, SizedReads
<1>15. Fields!readField(v) = Fields!Got(f, t)
  <2> HIDE DEF f
  <2>1. v = <<Fields!TypeID[f.kind]>> \o (Fields!fieldFill(f) \o t)
    BY Zenon DEF v, u, y, z
  <2> QED BY ONLY <1>1, <1>4, <1>11, <2>1, StoredReads
<1> DEFINE a == Fields!readString("ShortString", w.rest)
           c == Fields!readField(a.rest)
<1>16. a.value = n /\ a.rest = v
  <2>1. a = Fields!Got(n, v)
    BY <1>14, Zenon DEF in
  <2> QED BY <2>1 DEF Fields!Got
<1>17. c.value = f /\ c.rest = t
  <2>1. c = Fields!Got(f, t)
    BY <1>15, <1>16, Zenon
  <2> QED BY <2>1 DEF Fields!Got
<1>18. s = [got |-> Fields!Put(w.got, a.value, c.value), rest |-> c.rest]
  BY <1>12, Zenon DEF Fields!nextField, in
<1> HIDE DEF a, c, s
<1>19. s.got = Fields!Put(w.got, n, f) /\ s.rest = t
  <2> HIDE DEF f
  <2> QED BY <1>16, <1>17, <1>18
<1> DEFINE h == w.got
<1>20. DOMAIN s.got = DOMAIN h \cup {n} /\ \A q \in DOMAIN s.got : s.got[q] = IF q = n THEN f ELSE h[q]
  <2> HIDE DEF h, f
  <2>1. s.got = Fields!Put(h, n, f)
    BY <1>19 DEF h
  <2> QED BY <2>1 DEF Fields!Put
<1>21. \A j : j \in 1..i <=> j \in 1..(i - 1) \/ j = i
  BY <1>1
<1>22. ASSUME NEW q PROVE q \in DOMAIN s.got <=> q \in DOMAIN table /\ \E j \in 1..i : Names[j] = q
  <2>1. q \in DOMAIN s.got <=> q \in DOMAIN h \/ q = n
    BY <1>20
  <2>2. n \in DOMAIN table /\ n = Names[i]
    BY DEF n
  <2> QED BY <1>2, <1>21, <2>1, <2>2, Zenon
<1>23. ASSUME NEW q \in DOMAIN s.got PROVE s.got[q] = table[q]
  <2>1. CASE q = n
    BY <1>20, <2>1, Zenon
  <2>2. CASE q # n
    <3>1. q \in DOMAIN h
      BY <1>20, <2>2
    <3> QED BY <1>2, <1>20, <2>2, <3>1, Zenon
  <2> QED BY <2>1, <2>2
<1>24. Gathered(i, s)
  BY <1>19, <1>22, <1>23, Zenon DEF Gathered, t
<1> QED BY <1>11, <1>24 DEF s, t, in

\* After some rounds of the loop, no more than there are octets, the fields with the first i
\* names have been read.
Reached(i, g, n) ==
  \E m \in 0..n : Gathered(i, g[m]) /\ m + Len(Fields!All(From(TableRows, i + 1))) <= n

\* Once all names before the i-th are read, so is the i-th.
LEMMA ReachedStep ==
  ASSUME Storing, NEW n, n \in Nat, n < Fields!Base(LongWidth),
         \A q \in DOMAIN table : Len(q) < Fields!Base(1),
         NEW g, \A j \in 1..n : g[j] = Fields!nextField(g[j - 1]),
         NEW i, i \in 1..Len(Names), Reached(i - 1, g, n)
  PROVE  Reached(i, g, n)
<1> DEFINE t == Fields!All(From(TableRows, i + 1))
           o == Fields!All(From(TableRows, i))
<1>1. o = TableRow(Names[i]) \o t /\ t \in Seq(Octets) /\ i - 1 + 1 = i /\ i \in Nat
  BY RestAfter
<1>2. PICK m \in 0..n : Gathered(i - 1, g[m]) /\ m + Len(o) <= n
  BY <1>1, Zenon DEF Reached
<1>3. g[m].rest = o
  BY <1>1, <1>2, Zenon DEF Gathered
<1>4. CASE Names[i] \notin DOMAIN table
  <2>1. Gathered(i, g[m])
    BY <1>2, <1>4, GatheredNone, Zenon
  <2>2. g[m].rest = t
    BY <2>1, Zenon DEF Gathered
  <2>3. m + Len(t) <= n
    BY <1>2, <1>3, <2>2, Zenon
  <2> QED BY <2>1, <2>3, Zenon DEF Reached
<1>5. CASE Names[i] \in DOMAIN table
  <2>0. Len(t) \in Nat /\ Len(o) \in Nat
    <3>1. Len(t) \in Nat
      <4> HIDE DEF t
      <4> QED BY <1>1
    <3>2. TableRow(Names[i]) \in Seq(Octets)
      BY NamesAre, TableRowType
    <3> DEFINE x == TableRow(Names[i])
    <3> HIDE DEF x, t, o
    <3>3. x \o t \in Seq(Octets)
      BY <1>1, <3>2, CatType DEF x
    <3>4. o \in Seq(Octets)
      BY <1>1, <3>3 DEF x
    <3> QED BY <3>1, <3>4
  <2> HIDE DEF o
  <2>1. Len(o) < Fields!Base(LongWidth)
    <3> DEFINE l == Len(o)
               b == Fields!Base(LongWidth)
    <3>1. l \in Nat /\ b \in Nat /\ m \in 0..n /\ n \in Nat /\ m + l <= n /\ n < b
      BY <1>2, <2>0, OneOctet
    <3> HIDE DEF l, b
    <3>2. l < b
      BY ONLY <3>1
    <3> QED BY <3>2 DEF l, b
  <2>2. Gathered(i, Fields!nextField(g[m])) /\ Len(t) < Len(o)
    BY <1>2, <1>3, <1>5, <2>1, GatheredOne, Zenon
  <2> DEFINE k == m + 1
  <2>3. k \in 1..n /\ k \in 0..n /\ k - 1 = m /\ k + Len(t) <= n
    <3> HIDE DEF t
    <3> QED BY <1>2, <2>0, <2>2
  <2> HIDE DEF k
  <2>4. g[k] = Fields!nextField(g[m])
    BY <2>3, Zenon
  <2> QED BY <2>2, <2>3, <2>4, Zenon DEF Reached
<1> QED BY <1>4, <1>5

\* A table that is not too large is read back.
LEMMA TableReads ==
  ASSUME Storing, Fields!Fits
  PROVE  /\ DOMAIN Fields!readTable(Fields!tableFill(table)) = DOMAIN table
         /\ \A q \in DOMAIN table : Fields!readTable(Fields!tableFill(table))[q] = table[q]
<1> DEFINE r == TableRows
           o == Fields!All(r)
           n == Len(o)
           l == Len(Names)
           in == Fields!tableFill(table)
           Q == Seq(Octets)
<1>1. /\ r \in Seq(Q) /\ Len(r) = l /\ o \in Seq(Octets)
      /\ in = Fields!Prefixed(o) /\ l \in Nat
  BY TableRowsType, NamesAre
<1>2. Fields!tableSize(table) < Fields!Base(LongWidth) /\ \A q \in DOMAIN table : Len(q) < Fields!Base(1)
  BY Zenon DEF Fields!Fits
<1>3. n \in Nat /\ n < Fields!Base(LongWidth)
  <2>1. Fields!tableSize(table) = LongWidth + n
    BY TableLength, Zenon
  <2> HIDE DEF o
  <2> DEFINE b == Fields!Base(LongWidth)
             s == Fields!tableSize(table)
  <2>2. n \in Nat
    BY <1>1
  <2>3. s = LongWidth + n /\ LongWidth \in Nat /\ b \in Nat /\ s < b
    BY <1>2, <2>1, OneOctet, WireAssumption
  <2> HIDE DEF b, s, n
  <2>4. n < b
    BY ONLY <2>2, <2>3
  <2> QED BY <2>2, <2>4 DEF b
<1>4. From(r, 1) = r /\ Fields!All(From(r, l + 1)) = <<>>
  <2> HIDE DEF r, Q, l
  <2>1. From(r, 1) = r /\ Fields!All(From(r, Len(r) + 1)) = <<>>
    BY <1>1, FromAll
  <2> QED BY <1>1, <2>1
<1>5. Fields!readString("Nested", in).value = o
  <2> DEFINE k == "Nested"
             e == <<>>
             p == Fields!add(Len(o), LongWidth)
  <2>1. k \in Sized /\ Prefix(k) = LongWidth
    BY PrefixOf DEF Sized
  <2>2. e \in Seq(Octets)
    OBVIOUS
  <2>3. in = p \o o /\ p \o o \in Seq(Octets)
    <3> HIDE DEF o, in
    <3>1. Fields!Prefixed(o) = p \o o /\ Fields!Prefixed(o) \in Seq(Octets)
      BY <1>1, PrefixedType
    <3> QED BY <1>1, <3>1, Zenon
  <2> HIDE DEF in, k, o
  <2>4. in = (p \o o) \o e
    <3> DEFINE c == p \o o
    <3>1. in = c /\ c \in Seq(Octets)
      BY <2>3
    <3> HIDE DEF c
    <3>2. in = c \o e
      BY ONLY <3>1
    <3> QED BY <3>2 DEF c
  <2> HIDE DEF e
  <2>5. Told(k, o)
    BY <1>1, <1>3, <2>1, SizedFits, Zenon
  <2>6. in = (Fields!add(Len(o), Prefix(k)) \o o) \o e
    BY <2>1, <2>4, Zenon
  <2>7. Fields!readString(k, in) = Fields!Got(o, e)
    BY ONLY <2>1, <2>2, <2>5, <2>6, SizedReads
  <2> DEFINE s == Fields!readString(k, in)
  <2>8. s = Fields!Got(o, e)
    BY <2>7
  <2> HIDE DEF s
  <2>9. s.value = o
    BY <2>8 DEF Fields!Got
  <2> QED BY <2>9 DEF s, k
<1>6. Fields!readTable(in) = Fields!Fields(o)
  BY <1>5, Zenon DEF Fields!readTable
<1> HIDE DEF in, o
<1>7. PICK g : /\ Fields!Fields(o) = g[n].got /\ g[0] = Fresh(o)
               /\ \A i \in 1..n : g[i] = Fields!nextField(g[i - 1])
  BY <1>3, TablePick
<1> HIDE DEF n, l
<1> DEFINE T == {i \in Nat : Reached(i, g, n)}
<1>8. 0 \in T
  <2>1. Fresh(o).got = <<>> /\ Fresh(o).rest = o /\ DOMAIN <<>> = {}
    BY DEF Fresh
  <2>2. 0 \in 0..n /\ 0 + n <= n /\ 0 + 1 = 1 /\ 0 \in Nat
    BY <1>3
  <2>3. Fields!All(From(TableRows, 0 + 1)) = o /\ 0 + Len(o) <= n
    BY <1>4, <2>2, Zenon DEF n, o
  <2>4. ~(\E j \in 1..0 : TRUE)
    OBVIOUS
  <2>5. Gathered(0, Fresh(o))
    BY <2>1, <2>3, <2>4, Zenon DEF Gathered
  <2>6. Reached(0, g, n)
    BY <1>7, <2>2, <2>3, <2>5, Zenon DEF Reached
  <2> QED BY <2>2, <2>6, Zenon
<1>9. ASSUME NEW i \in 1..l, i - 1 \in T PROVE i \in T
  <2>1. Reached(i - 1, g, n) /\ i \in Nat /\ i \in 1..Len(Names)
    BY <1>1, <1>9 DEF l
  <2>2. Reached(i, g, n)
    BY <1>2, <1>3, <1>7, <2>1, ReachedStep, Zenon
  <2> QED BY <2>1, <2>2, Zenon
<1>10. Reached(l, g, n)
  <2>1. \A i \in 1..l : i - 1 \in T => i \in T
    BY <1>9
  <2> HIDE DEF T
  <2>2. \A i \in 0..l : i \in T
    BY <1>1, <1>8, <2>1, Upward
  <2>3. l \in T
    BY <1>1, <2>2
  <2> QED BY <2>3 DEF T
<1>11. PICK m \in 0..n : Gathered(l, g[m])
  BY <1>10, Zenon DEF Reached
<1>12. /\ g[m].rest = <<>>
       /\ \A x : x \in DOMAIN g[m].got <=> x \in DOMAIN table /\ \E j \in 1..l : Names[j] = x
       /\ \A x \in DOMAIN g[m].got : g[m].got[x] = table[x]
  BY <1>4, <1>11, Zenon DEF Gathered
<1>13. g[n] = g[m]
  <2> DEFINE U == {i \in Nat : g[m + i] = g[m]}
             d == n - m
  <2>1. d \in Nat /\ m + d = n /\ m + 0 = m
    BY <1>3
  <2>2. 0 \in U
    BY <2>1
  <2>3. ASSUME NEW i \in 1..d, i - 1 \in U PROVE i \in U
    <3> DEFINE e == m + i
    <3>1. e \in 1..n /\ e - 1 = m + (i - 1) /\ i \in Nat
      BY <1>3, <2>1
    <3>2. g[m + (i - 1)] = g[m]
      BY <2>3
    <3> HIDE DEF e
    <3>3. g[e] = Fields!nextField(g[m])
      <4>1. e \in 1..n /\ g[e - 1] = g[m]
        BY <3>1, <3>2, Zenon
      <4>2. g[e] = Fields!nextField(g[e - 1])
        BY <1>7, <4>1
      <4> QED BY <4>1, <4>2, Zenon
    <3>4. Fields!nextField(g[m]) = g[m]
      BY <1>12, Zenon DEF Fields!nextField
    <3> QED BY <3>1, <3>3, <3>4, Zenon DEF e
  <2>4. \A i \in 1..d : i - 1 \in U => i \in U
    BY <2>3
  <2> HIDE DEF U, d
  <2>5. \A i \in 0..d : i \in U
    BY <2>1, <2>2, <2>4, Upward
  <2>6. d \in U
    BY <2>1, <2>5
  <2> QED BY <2>1, <2>6 DEF U
<1>14. Fields!readTable(in) = g[m].got
  BY <1>6, <1>7, <1>13, Zenon
<1>15. \A x : x \in DOMAIN g[m].got <=> x \in DOMAIN table
  <2>1. \A x \in DOMAIN table : \E j \in 1..l : Names[j] = x
    <3>1. DOMAIN table \subseteq Fields!NameSet
      BY Zenon DEF Storing
    <3> QED BY <3>1 DEF Fields!NameSet, l
  <2> QED BY <1>12, <2>1, Zenon
<1>16. DOMAIN g[m].got = DOMAIN table
  BY <1>15, Zenon
<1> QED BY <1>12, <1>14, <1>16, Zenon DEF in

\* A table is read as it was written, unless a string is longer than its prefix says.
LEMMA FieldsReadsBack == ASSUME Storing PROVE Fields!ReadsBack
<1> SUFFICES ASSUME Fields!Fits PROVE Fields!ReadsBack
  BY Zenon DEF Fields!ReadsBack
<1>1. /\ DOMAIN wrote = DOMAIN table
      /\ \A n \in DOMAIN table : Fields!ReadAs(wrote[n][1], table[n]) = wrote[n][2]
  BY Zenon DEF Storing, Stored
<1> QED BY <1>1, TableReads, Zenon DEF Fields!ReadsBack

-----------------------------------------------------------------------------
(* The whole.                                                              *)

\* The inductive invariant: the part that moves is in a state it can be in.
Parted == /\ part = "meta" => Setting
          /\ part = "fields" => Storing
          /\ part = "frame" => Sending /\ Coming
          /\ part = "texts" => Typing
          /\ part = "pairs" => Comparing
          /\ part = "settings" => Chosen /\ Found

\* At the beginning the part that moves is in its initial state.
LEMMA PartedInit == ASSUME Init PROVE Parted
<1>1. part = "frame" => Sending /\ Coming
  BY SendingInit, ComingInit DEF Init
<1>2. part = "texts" => Typing
  BY TypingInit DEF Init
<1>3. part = "pairs" => Comparing
  BY ComparingInit DEF Init
<1>4. part = "settings" => Chosen /\ Found
  BY ChosenInit, FoundInit DEF Init
<1>5. (part = "meta" => Setting) /\ (part = "fields" => Storing)
  BY SettingInit, StoringInit DEF Init
<1> QED BY <1>1, <1>2, <1>3, <1>4, <1>5 DEF Parted

\* Every step is one of the part that moves, and keeps its invariant.
LEMMA PartedNext == ASSUME Parted, [Next]_vars PROVE Parted'
<1>1. CASE part = "frame" /\ Frame!Next /\ part' = part
  <2>1. Sending /\ Coming
    BY <1>1 DEF Parted
  <2>2. Sending' /\ Coming'
    BY <1>1, <2>1, SendingNext, ComingNext
  <2> QED BY <1>1, <2>2 DEF Parted
<1>2. CASE part = "texts" /\ Texts!Next /\ part' = part
  <2>1. Typing'
    BY <1>2, TypingNext DEF Parted
  <2> QED BY <1>2, <2>1 DEF Parted
<1>3. CASE part = "pairs" /\ Pairs!Next /\ part' = part
  <2>1. Comparing'
    BY <1>3, ComparingNext DEF Parted
  <2> QED BY <1>3, <2>1 DEF Parted
<1>4. CASE part = "settings" /\ Settings!Next /\ part' = part
  <2>1. Chosen' /\ Found'
    BY <1>4, ChosenNext, FoundNext DEF Parted
  <2> QED BY <1>4, <2>1 DEF Parted
<1>5. CASE part = "meta" /\ Meta!Next /\ part' = part
  <2>1. Setting'
    BY <1>5, SettingNext DEF Parted
  <2> QED BY <1>5, <2>1 DEF Parted
<1>6. CASE part = "fields" /\ Fields!Next /\ part' = part
  <2>1. Storing'
    BY <1>6, StoringNext DEF Parted
  <2> QED BY <1>6, <2>1 DEF Parted
<1>7. CASE UNCHANGED vars
  <2>1. /\ UNCHANGED <<out, queue, blocks, double, made, ready, sent, plan, coming, buffer, parsed>>
        /\ UNCHANGED <<secure, text, kept, phase, cfg, given, hosts, seen, part>>
        /\ UNCHANGED <<bools1, bools2, field, metaCalls, table, array, wrote, want, tableCalls>>
    BY <1>7 DEF vars, metaVars, tableVars, frameVars, addressVars, configVars
  <2>2. Sending => Sending'
    BY <2>1 DEF Sending, Counts, Owner, Owners, Owned
  <2>3. Coming => Coming'
    BY <2>1 DEF Coming, Unparsed
  <2>4. (Typing => Typing') /\ (Comparing => Comparing')
    BY <2>1 DEF Typing, Comparing
  <2>5. (Chosen => Chosen') /\ (Found => Found')
    BY <2>1 DEF Chosen, Found
  <2>6. Setting => Setting'
    BY <2>1 DEF Setting
  <2>7. Storing => Storing'
    BY <2>1 DEF Storing
  <2> QED BY <2>1, <2>2, <2>3, <2>4, <2>5, <2>6, <2>7 DEF Parted
<1>8. part' = part
  BY DEF Next, vars
<1> QED BY <1>1, <1>2, <1>3, <1>4, <1>5, <1>6, <1>7, <1>8, Zenon DEF Next

\* The part that moves is always in a state it can be in.
LEMMA AlwaysParted == Spec => []Parted
  BY PartedInit, PartedNext, PTL DEF Spec

\* Every block that CopiedBuffer allocates has exactly one owner until it is freed, through
\* moves into the queue and back, and holds as many octets as were asked for
\* (src/include/amqpcpp/copiedbuffer.h).  For every number of frames.
THEOREM BlocksAreOwned == Spec => []BlocksOwned
<1>1. Parted => BlocksOwned
  BY SendingOwns DEF Parted, BlocksOwned
<1> QED BY <1>1, AlwaysParted, PTL

\* However the octets of the server are cut into pieces, ConnectionImpl::parse takes out
\* whole frames, in their order, and leaves the rest in the buffer
\* (src/include/amqpcpp/receivedframe.h:171-179, connectionimpl.h:336-352).
THEOREM FramesAreWhole == Spec => []FramesWhole
<1>1. Parted => FramesWhole
  BY ComingWhole DEF Parted, FramesWhole
<1> QED BY <1>1, AlwaysParted, PTL

\* What Address prints is parsed as the same address, and the order of addresses is total
\* (src/include/amqpcpp/address.h).  For every text.
THEOREM AddressesAreKept == Spec => []AddressesKept
<1>1. Parted => AddressesKept
  BY TypingReads, ComparingOrder DEF Parted, AddressesKept
<1> QED BY <1>1, AlwaysParted, PTL

\* For every option and every line of the file the last one counts, and ports have 16 bits
\* (src/config.cpp).  For every sequence of options and lines.
THEOREM LastWordsCount == Spec => []LastWordCounts
<1>1. Parted => LastWordCounts
  BY ChosenLast, FoundLast DEF Parted, LastWordCounts
<1> QED BY <1>1, AlwaysParted, PTL

\* fill() writes exactly the octets that size() announced, for the properties of a message and
\* for tables with arrays (src/include/amqpcpp/metadata.h, table.h, array.h): no frame is
\* shorter or longer than its header says.
THEOREM FillIsExact == Spec => []FillsExactly
<1>1. Parted => FillsExactly
  BY SettingType, MetaFillsExactly, StoringType, TableLength, SendingOwns, TypingReads,
     ComparingOrder, SettingsType
     DEF Parted, FillsExactly, TypeOK
<1> QED BY <1>1, AlwaysParted, PTL

\* What fill() writes, read() reads: the same properties and the same fields, unless a string
\* is longer than its prefix can say.  A field gives its value back when it is read as the
\* C++ type it was written as: numbers, strings and arrays through the conversions of the
\* proxy, a boolean or a decimal, to which the proxy does not convert, from the field itself
\* (src/include/amqpcpp/metadata.h:328-349, table.h:115-140, fieldproxy.h:69-263).
THEOREM TripIsRound == Spec => []RoundTrip
<1>1. Parted => RoundTrip
  BY SettingType, MetaRoundTrip, StoringType, FieldsReadsBack DEF Parted, RoundTrip
<1> QED BY <1>1, AlwaysParted, PTL

=============================================================================
