------------------------------ MODULE MetaData ------------------------------
(***************************************************************************)
(* The properties of a message (metadata.h): which are set, their values,  *)
(* and how they are written into the header frame and read from it.  The   *)
(* program sets them on an envelope, or copies those of a message it       *)
(* received to an envelope that it sends on.                               *)
(***************************************************************************)
EXTENDS Wire

CONSTANTS Strings,    \* the strings the program uses, sequences of octets
          Numbers,    \* the numbers it uses
          MaxCalls    \* bound: calls of setters

VARIABLES bools1, bools2,   \* _bools1 and _bools2, octets
          field,            \* the value of each property
          calls

vars == <<bools1, bools2, field, calls>>

Kind == [contentType |-> "ShortString", contentEncoding |-> "ShortString",
         headers |-> "Nested", deliveryMode |-> "UOctet", priority |-> "UOctet",
         correlationID |-> "ShortString", replyTo |-> "ShortString",
         expiration |-> "ShortString", messageID |-> "ShortString",
         timestamp |-> "Timestamp", typeName |-> "ShortString",
         userID |-> "ShortString", appID |-> "ShortString",
         clusterID |-> "ShortString"]

Property == DOMAIN Kind

Values(p) == IF Kind[p] \in Numeric THEN {n \in Numbers : n < Base(Width[Kind[p]])} ELSE Strings

Default(p) == IF Kind[p] \in Numeric THEN 0 ELSE <<>>

Empty == [b1 |-> 0, b2 |-> 0, field |-> [p \in Property |-> Default(p)]]

Init == /\ bools1 = 0 /\ bools2 = 0
        /\ field = [p \in Property |-> Default(p)]
        /\ calls = 0

Meta == [b1 |-> bools1, b2 |-> bools2, field |-> field]

-----------------------------------------------------------------------------
(* Which properties are set.                                               *)

\* The boolean set and the index that the has-methods look at.
HasBit == [expiration |-> <<1, 0>>, replyTo |-> <<1, 1>>, correlationID |-> <<1, 2>>,
           priority |-> <<1, 3>>, deliveryMode |-> <<1, 4>>, headers |-> <<1, 5>>,
           contentEncoding |-> <<1, 6>>, contentType |-> <<1, 7>>,
           clusterID |-> <<2, 2>>, appID |-> <<2, 3>>, userID |-> <<2, 4>>,
           typeName |-> <<2, 5>>, timestamp |-> <<2, 6>>, messageID |-> <<2, 7>>]

\* Mutant: setUserID sets the bit of appID.
SetBitWrong == [expiration |-> <<1, 0>>, replyTo |-> <<1, 1>>, correlationID |-> <<1, 2>>,
           priority |-> <<1, 3>>, deliveryMode |-> <<1, 4>>, headers |-> <<1, 5>>,
           contentEncoding |-> <<1, 6>>, contentType |-> <<1, 7>>,
           clusterID |-> <<2, 2>>, appID |-> <<2, 3>>, userID |-> <<2, 3>>,
           typeName |-> <<2, 5>>, timestamp |-> <<2, 6>>, messageID |-> <<2, 7>>]

\* ... and the ones that the set-methods set.
SetBit == [expiration |-> <<1, 0>>, replyTo |-> <<1, 1>>, correlationID |-> <<1, 2>>,
           priority |-> <<1, 3>>, deliveryMode |-> <<1, 4>>, headers |-> <<1, 5>>,
           contentEncoding |-> <<1, 6>>, contentType |-> <<1, 7>>,
           clusterID |-> <<2, 2>>, appID |-> <<2, 3>>, userID |-> <<2, 4>>,
           typeName |-> <<2, 5>>, timestamp |-> <<2, 6>>, messageID |-> <<2, 7>>]

has(m, p) == getBit(IF HasBit[p][1] = 1 THEN m.b1 ELSE m.b2, HasBit[p][2])

persistent(m) == has(m, "deliveryMode") /\ m.field["deliveryMode"] = 2

-----------------------------------------------------------------------------
(* The calls of the program.                                               *)

Set(p, v) == /\ calls < MaxCalls /\ calls' = calls + 1
             /\ field' = [field EXCEPT ![p] = v]
             /\ bools1' = IF SetBit[p][1] = 1 THEN setBit(bools1, SetBit[p][2], TRUE) ELSE bools1
             /\ bools2' = IF SetBit[p][1] = 2 THEN setBit(bools2, SetBit[p][2], TRUE) ELSE bools2

setPersistent(value) == /\ calls < MaxCalls /\ calls' = calls + 1
                        /\ field' = [field EXCEPT !["deliveryMode"] = IF value THEN 2 ELSE 0]
                        /\ bools1' = setBit(bools1, 4, value)
                        /\ UNCHANGED bools2

-----------------------------------------------------------------------------
(* Writing and reading.                                                    *)

FieldOf(m, p) == [kind |-> Kind[p], value |-> m.field[p]]

\* The order in which size() adds the properties up.
SizeOrder == <<"expiration", "replyTo", "correlationID", "priority", "deliveryMode", "headers",
               "contentEncoding", "contentType", "clusterID", "appID", "userID", "typeName",
               "timestamp", "messageID">>

metaSize(m) == 2 + Total([i \in 1..Len(SizeOrder) |->
                            IF has(m, SizeOrder[i]) THEN size(FieldOf(m, SizeOrder[i])) ELSE 0])

\* Mutant: priority is written before deliveryMode.
FillSwapped == <<"contentType", "contentEncoding", "headers", "priority", "deliveryMode",
                 "correlationID", "replyTo", "expiration", "messageID", "timestamp",
                 "typeName", "userID", "appID", "clusterID">>

\* The order in which fill() writes the properties ...
FillOrder == <<"contentType", "contentEncoding", "headers", "deliveryMode", "priority",
               "correlationID", "replyTo", "expiration", "messageID", "timestamp",
               "typeName", "userID", "appID", "clusterID">>

\* ... and in which MetaData(frame) reads them.
ReadOrder == <<"contentType", "contentEncoding", "headers", "deliveryMode", "priority",
               "correlationID", "replyTo", "expiration", "messageID", "timestamp",
               "typeName", "userID", "appID", "clusterID">>

metaFill(m) ==
  <<m.b1, m.b2>> \o All([i \in 1..Len(FillOrder) |->
    IF has(m, FillOrder[i]) THEN fill(FieldOf(m, FillOrder[i])) ELSE <<>>])

\* One property, if the octets say that it comes and the ones before it could be read.
readProperty(start, was, p) ==
  LET r == read(Kind[p], was.rest)
  IN  IF ~was.ok \/ ~has(start, p) THEN was
      ELSE IF ~r.ok THEN [was EXCEPT !.ok = FALSE]
      ELSE [ok |-> TRUE, field |-> [was.field EXCEPT ![p] = r.value], rest |-> r.rest]

metaRead(in) ==
  LET start == [b1 |-> in[1], b2 |-> in[2], field |-> Empty.field]
      upto[i \in 0..Len(ReadOrder)] ==
        IF i = 0 THEN [ok |-> TRUE, field |-> Empty.field, rest |-> Rest(in, 2)]
        ELSE readProperty(start, upto[i - 1], ReadOrder[i])
      end == upto[Len(ReadOrder)]
  IN  [ok |-> end.ok, meta |-> [start EXCEPT !.field = end.field], rest |-> end.rest]

\* A message arrives with these properties, and the program copies them to a new
\* envelope: set(data).
Forward == /\ calls < MaxCalls /\ calls' = calls + 1
           /\ LET r == metaRead(metaFill(Meta))
              IN  /\ r.ok
                  /\ bools1' = r.meta.b1 /\ bools2' = r.meta.b2 /\ field' = r.meta.field

Next == \/ \E p \in Property : \E v \in Values(p) : Set(p, v)
        \/ \E b \in BOOLEAN : setPersistent(b)
        \/ Forward

Spec == Init /\ [][Next]_vars

-----------------------------------------------------------------------------
\* The type of the state.
TypeOK == /\ bools1 \in Octet /\ bools2 \in Octet /\ calls \in 0..MaxCalls
          /\ \A p \in Property : IF Kind[p] \in Numeric THEN field[p] \in Nat
                               ELSE \A i \in 1..Len(field[p]) : field[p][i] \in Octet

\* size() is the number of octets that fill() writes, for every combination of
\* properties: the buffer of a frame is allocated by the one and filled by the other
\* without a check (metadata.h:300-349, copiedbuffer.h:53-60).
FillsExactly == Len(metaFill(Meta)) = metaSize(Meta)

Short == \A p \in Property : Kind[p] = "ShortString" => Len(field[p]) <= 255

\* The receiver sees the properties that were set, with their values, and none
\* besides, as long as no string is longer than its size can tell
\* (metadata.h:142-161, 328-349; stringfield.h:60-67, 157-167).
RoundTrip == Short =>
  LET r == metaRead(metaFill(Meta))
  IN  /\ r.ok /\ r.rest = <<>>
      /\ \A p \in Property : /\ has(r.meta, p) <=> has(Meta, p)
                             /\ has(Meta, p) => r.meta.field[p] = field[p]
      /\ persistent(r.meta) <=> persistent(Meta)

\* A property whose value was set is announced, so a later size() and fill() have
\* it (metadata.h:216-246).
ValuesAnnounced == \A p \in Property : field[p] # Default(p) => has(Meta, p)
=============================================================================
