-------------------------------- MODULE Wire --------------------------------
(***************************************************************************)
(* The octets of AMQP fields: numericfield.h, decimalfield.h,              *)
(* stringfield.h, booleanset.h, and the output buffer of outbuffer.h.  A   *)
(* field is a record of its class and its value; strings are sequences of  *)
(* octets.  Integers of four and eight octets are cut down to LongWidth    *)
(* and LongLongWidth octets.  Floating point numbers are left out.  The    *)
(* reads of ReceivedFrame are not in the repository; they throw when too   *)
(* few octets are left.                                                    *)
(***************************************************************************)
EXTENDS Integers, Sequences

CONSTANTS LongWidth, LongLongWidth

Octet == 0..255

\* The number of values of n octets.
Base(n) == LET power[i \in 0..n] == IF i = 0 THEN 1 ELSE 256 * power[i - 1]
           IN  power[n]

\* Octets one after the other, and the sum of sizes.
All(seqs) == LET upto[i \in 0..Len(seqs)] == IF i = 0 THEN <<>> ELSE upto[i - 1] \o seqs[i]
             IN  upto[Len(seqs)]

Total(sizes) == LET upto[i \in 0..Len(sizes)] == IF i = 0 THEN 0 ELSE upto[i - 1] + sizes[i]
                IN  upto[Len(sizes)]

-----------------------------------------------------------------------------
(* Numbers.                                                                *)

Width == [Octet |-> 1, UOctet |-> 1, Short |-> 2, UShort |-> 2,
          Long |-> LongWidth, ULong |-> LongWidth,
          LongLong |-> LongLongWidth, ULongLong |-> LongLongWidth,
          Timestamp |-> LongLongWidth]

Signed == {"Octet", "Short", "Long", "LongLong"}

Numeric == DOMAIN Width

\* OutBuffer::add of an integer, in network byte order.
add(v, n) == [i \in 1..n |-> (v \div Base(n - i)) % 256]

\* nextUint8 and its kin.
nextUint(in, n) ==
  LET upto[i \in 0..n] == IF i = 0 THEN 0 ELSE upto[i - 1] * 256 + in[i]
  IN  upto[n]

\* nextInt8 and its kin.
nextInt(in, n) == LET u == nextUint(in, n)
                  IN  IF u >= 128 * Base(n - 1) THEN u - Base(n) ELSE u

numericFrom(kind, in) ==
  IF kind \in Signed THEN nextInt(in, Width[kind]) ELSE nextUint(in, Width[kind])

\* The casting operators of NumericField.
cast(kind, v) == LET u == v % Base(Width[kind])
                 IN  IF kind \in Signed /\ u >= 128 * Base(Width[kind] - 1)
                     THEN u - Base(Width[kind]) ELSE u

-----------------------------------------------------------------------------
(* The other classes.                                                      *)

SizeOf == [ShortString |-> "UOctet", LongString |-> "ULong", Nested |-> "ULong"]

\* BooleanSet: get and set, with the rightmost bit at index 0.
getBit(byte, i) == i <= 7 /\ (byte \div 2 ^ i) % 2 = 1

setBit(byte, i, value) ==
  IF i > 7 \/ getBit(byte, i) = value THEN byte
  ELSE IF value THEN byte + 2 ^ i ELSE byte - 2 ^ i

\* The constructor of a BooleanSet with its first boolean.
BooleanSet(first) == setBit(0, 0, first)

\* Mutant: the octet of the size is left out of a string's size.
SizeWithout(f) ==
  CASE f.kind \in Numeric       -> Width[f.kind]
    [] f.kind \in DOMAIN SizeOf -> Len(f.value)
    [] f.kind = "Decimal"       -> 1 + LongWidth
    [] f.kind = "BooleanSet"    -> 1

\* size() of each class.  Nested stands for the octets of a Table or an Array.
size(f) ==
  CASE f.kind \in Numeric       -> Width[f.kind]
    [] f.kind \in DOMAIN SizeOf -> Width[SizeOf[f.kind]] + Len(f.value)
    [] f.kind = "Decimal"       -> 1 + LongWidth
    [] f.kind = "BooleanSet"    -> 1

\* fill() of a number, a decimal, a string and a boolean set.
numericFill(f)  == add(f.value, Width[f.kind])
decimalFill(f)  == add(f.value.places, 1) \o add(f.value.number, LongWidth)
stringFill(f)   == add(Len(f.value), Width[SizeOf[f.kind]]) \o f.value
booleanFill(f)  == <<f.value>>

fill(f) == CASE f.kind \in Numeric       -> numericFill(f)
             [] f.kind \in DOMAIN SizeOf -> stringFill(f)
             [] f.kind = "Decimal"       -> decimalFill(f)
             [] f.kind = "BooleanSet"    -> booleanFill(f)

-----------------------------------------------------------------------------
(* Reading: a record of whether enough octets were left, the value, and    *)
(* the octets that follow.                                                 *)

Rest(in, n)      == SubSeq(in, n + 1, Len(in))
Bad              == [ok |-> FALSE, value |-> 0, rest |-> <<>>]
Got(value, rest) == [ok |-> TRUE, value |-> value, rest |-> rest]

readNumeric(kind, in) == IF Len(in) < Width[kind] THEN Bad
                         ELSE Got(numericFrom(kind, in), Rest(in, Width[kind]))

\* StringField(frame): the size, then that many octets.
Cut(s) == IF ~s.ok \/ Len(s.rest) < s.value THEN Bad
          ELSE Got(SubSeq(s.rest, 1, s.value), Rest(s.rest, s.value))

readString(kind, in) == Cut(readNumeric(SizeOf[kind], in))

\* DecimalField(frame).
readDecimal(in) ==
  LET p == readNumeric("UOctet", in)
      n == readNumeric("ULong", p.rest)
  IN  IF ~p.ok \/ ~n.ok THEN Bad
      ELSE Got([places |-> p.value, number |-> n.value], n.rest)

read(kind, in) == CASE kind \in Numeric       -> readNumeric(kind, in)
                    [] kind \in DOMAIN SizeOf -> readString(kind, in)
                    [] kind = "Decimal"       -> readDecimal(in)
                    [] kind = "BooleanSet"    -> readNumeric("UOctet", in)
=============================================================================
