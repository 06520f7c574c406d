----------------------------- MODULE FieldTable -----------------------------
(***************************************************************************)
(* Tables and arrays of fields (table.h, array.h) and the proxies through  *)
(* which a program assigns to them and reads from them (fieldproxy.h): the *)
(* C++ type of a value selects the class of the field, the class its type  *)
(* identifier, its octets and what it converts to.  Field::decode and the fill() and size() of  *)
(* the containers are not in the repository; they are modelled after the   *)
(* wire format that the rest uses.                                         *)
(***************************************************************************)
EXTENDS Wire

CONSTANTS Names,     \* the names of fields, in the order of the map
          ValuesOf,  \* the values the program has, by C++ type
          MaxIndex,  \* bound: indexes of the array
          MaxCalls   \* bound: calls of the program

VARIABLES table,   \* _fields of a Table, by name
          array,   \* _fields of an Array
          wrote,   \* by name: the C++ type and the value last stored
          want,    \* the array as the calls say it should be
          calls

vars == <<table, array, wrote, want, calls>>

CType == DOMAIN ValuesOf

NameSet == {Names[i] : i \in 1..Len(Names)}

Init == /\ table = <<>> /\ array = <<>> /\ wrote = <<>> /\ want = <<>> /\ calls = 0

Put(f, x, v) == [y \in DOMAIN f \cup {x} |-> IF y = x THEN v ELSE f[y]]

-----------------------------------------------------------------------------
(* The class of field for each C++ type.                                   *)

Value(kind, v) == [kind |-> kind, value |-> IF kind = "BooleanSet" THEN BooleanSet(v) ELSE v]

\* Mutant: signed and unsigned are swapped.
SetKindSwapped == [bool |-> "BooleanSet", uint8 |-> "UOctet", int8 |-> "Octet", uint16 |-> "Short",
            int16 |-> "UShort", uint32 |-> "ULong", int32 |-> "Long",
            uint64 |-> "ULongLong", int64 |-> "LongLong", string |-> "LongString"]

\* Table::set and its aliases.
SetKind == [bool |-> "BooleanSet", uint8 |-> "UOctet", int8 |-> "Octet", uint16 |-> "UShort",
            int16 |-> "Short", uint32 |-> "ULong", int32 |-> "Long",
            uint64 |-> "ULongLong", int64 |-> "LongLong", string |-> "LongString"]

\* operator= of FieldProxy.
ProxyKind == [bool |-> "BooleanSet", uint8 |-> "UOctet", int8 |-> "Octet", uint16 |-> "UShort",
              int16 |-> "Short", uint32 |-> "ULong", int32 |-> "Long",
              uint64 |-> "ULongLong", int64 |-> "LongLong", decimal |-> "Decimal",
              string |-> "LongString"]

\* v is a value of the C++ type.
IsValue(c, v) ==
  LET n == Width[SetKind[c]]
  IN  CASE c = "bool"    -> v \in BOOLEAN
        [] c = "string"  -> v \in Seq(Octet)
        [] c = "decimal" -> v \in [places : Octet, number : 0..(Base(LongWidth) - 1)]
        [] c \in {"uint8", "uint16", "uint32", "uint64"} -> v \in 0..(Base(n) - 1)
        [] c \in {"int8", "int16", "int32", "int64"} ->
             v \in (-(128 * Base(n - 1)))..(128 * Base(n - 1) - 1)

-----------------------------------------------------------------------------
(* Calls.                                                                  *)

Count == calls < MaxCalls /\ calls' = calls + 1

\* table.set(name, v)
SetField(n, c, v) == /\ Count /\ c \in DOMAIN SetKind
                     /\ table' = Put(table, n, Value(SetKind[c], v))
                     /\ wrote' = Put(wrote, n, <<c, v>>)
                     /\ UNCHANGED <<array, want>>

\* table[name] = v
AssignField(n, c, v) == /\ Count /\ c \in DOMAIN ProxyKind
                        /\ table' = Put(table, n, Value(ProxyKind[c], v))
                        /\ wrote' = Put(wrote, n, <<c, v>>)
                        /\ UNCHANGED <<array, want>>

\* Mutant: a field is never overwritten.
ArraySetAppends(a, i, f) == Append(a, f)

\* Array::set, with indexes from 0: a larger index appends.
arraySet(a, i, f) == IF i >= Len(a) THEN Append(a, f) ELSE [a EXCEPT ![i + 1] = f]

\* array[i] = v; what it should give is stated for indexes up to the end.
AssignElement(i, c, v) ==
  LET f == Value(ProxyKind[c], v)
  IN  /\ Count /\ c \in DOMAIN ProxyKind /\ i <= Len(array)
      /\ array' = arraySet(array, i, f)
      /\ want' = SubSeq(want, 1, i) \o <<f>> \o SubSeq(want, i + 2, Len(want))
      /\ UNCHANGED <<table, wrote>>

\* table[name] = array: a clone.
AssignArray(n) == /\ Count
                  /\ table' = Put(table, n, [kind |-> "Array", value |-> array])
                  /\ wrote' = Put(wrote, n, <<"Array", want>>)
                  /\ UNCHANGED <<array, want>>

-----------------------------------------------------------------------------
(* The wire.                                                               *)

TypeID == [Octet |-> 98, UOctet |-> 66, Short |-> 85, UShort |-> 117, Long |-> 73,
           ULong |-> 105, LongLong |-> 76, ULongLong |-> 108, Timestamp |-> 84,
           ShortString |-> 115, LongString |-> 83, Decimal |-> 68, BooleanSet |-> 116,
           Array |-> 65]

Prefixed(octets) == add(Len(octets), LongWidth) \o octets

arrayFill(fs) == Prefixed(All([i \in 1..Len(fs) |-> <<TypeID[fs[i].kind]>> \o fill(fs[i])]))

fieldFill(f) == IF f.kind = "Array" THEN arrayFill(f.value) ELSE fill(f)

tableFill(t) ==
  Prefixed(All([i \in 1..Len(Names) |->
    IF Names[i] \notin DOMAIN t THEN <<>>
    ELSE fill([kind |-> "ShortString", value |-> Names[i]])
         \o <<TypeID[t[Names[i]].kind]>> \o fieldFill(t[Names[i]])]))

fieldSize(f) == IF f.kind # "Array" THEN size(f)
                ELSE LongWidth + Total([i \in 1..Len(f.value) |-> 1 + size(f.value[i])])

tableSize(t) == LongWidth + Total([i \in 1..Len(Names) |->
                  IF Names[i] \notin DOMAIN t THEN 0
                  ELSE size([kind |-> "ShortString", value |-> Names[i]])
                       + 1 + fieldSize(t[Names[i]])])

\* Field::decode: the class for a type identifier.
KindFor(id) == CHOOSE k \in DOMAIN TypeID : TypeID[k] = id

\* A field whose class is known, and what was read for it.
Typed(k, r) == Got([kind |-> k, value |-> r.value], r.rest)

readElement(in) == Typed(KindFor(in[1]), read(KindFor(in[1]), Tail(in)))

\* Fields until the octets of the array are used up; a field takes an octet or more, so
\* there are at most as many rounds as octets.
nextElement(was) == LET r == readElement(was.rest)
                    IN  IF was.rest = <<>> THEN was
                        ELSE [got |-> Append(was.got, r.value), rest |-> r.rest]

Elements(all) ==
  LET upto[i \in 0..Len(all)] == IF i = 0 THEN [got |-> <<>>, rest |-> all]
                                 ELSE nextElement(upto[i - 1])
  IN  upto[Len(all)].got

ArrayIn(octets) == Got(Elements(octets.value), octets.rest)

readArray(in) == ArrayIn(readString("Nested", in))

readField(in) == IF KindFor(in[1]) = "Array" THEN Typed("Array", readArray(Tail(in)))
                 ELSE readElement(in)

\* Names and fields until the octets of the table are used up.
nextField(was) == LET name == readString("ShortString", was.rest)
                      r    == readField(name.rest)
                  IN  IF was.rest = <<>> THEN was
                      ELSE [got |-> Put(was.got, name.value, r.value), rest |-> r.rest]

Fields(all) ==
  LET upto[i \in 0..Len(all)] == IF i = 0 THEN [got |-> <<>>, rest |-> all]
                                 ELSE nextField(upto[i - 1])
  IN  upto[Len(all)].got

readTable(in) == Fields(readString("Nested", in).value)

\* What a program gets when it reads a proxy as a value of a C++ type: the conversion of
\* the field's class, or the one of Field, which has nothing to give.  Nothing converts
\* to bool or to a DecimalField: such a read does not compile.
Converted(c, f) ==
  CASE c = "string" -> IF f.kind \in {"ShortString", "LongString"} THEN f.value ELSE <<>>
    [] c = "Array"  -> IF f.kind = "Array" THEN f.value ELSE <<>>
    [] OTHER        -> IF f.kind \in Numeric THEN cast(SetKind[c], f.value) ELSE 0

\* A boolean and a decimal are read from the field itself, which the program takes for
\* what it is: BooleanSet::get(0) and DecimalField::value().
ReadAs(c, f) == CASE c = "bool"    -> getBit(f.value, 0)
                  [] c = "decimal" -> f.value
                  [] OTHER         -> Converted(c, f)

Next == \/ \E n \in NameSet : \/ \E c \in CType : \E v \in ValuesOf[c] :
                                   SetField(n, c, v) \/ AssignField(n, c, v)
                              \/ AssignArray(n)
        \/ \E c \in CType : \E v \in ValuesOf[c] : \E i \in 0..MaxIndex : AssignElement(i, c, v)

Spec == Init /\ [][Next]_vars

-----------------------------------------------------------------------------
\* The type of the state.
TypeOK == /\ DOMAIN table \subseteq NameSet /\ DOMAIN wrote = DOMAIN table
          /\ \A n \in DOMAIN table : /\ table[n].kind \in DOMAIN TypeID
                                   /\ table[n].kind = "BooleanSet" => table[n].value \in Octet
          /\ \A i \in 1..Len(array) : array[i].kind \in DOMAIN TypeID \ {"Array"}
          /\ Len(array) <= MaxIndex + 1 /\ calls \in 0..MaxCalls

\* The octets that announce a size are enough for it: a string or a table with more
\* octets than a uint32_t counts, or a name longer than 255, is outside the format.
Fits == /\ tableSize(table) < Base(LongWidth)
        /\ \A n \in DOMAIN table : Len(n) < Base(1)

\* The other side of the connection, reading a field as the C++ type it was written as
\* (a boolean and a decimal from the field's own class: the proxy converts to neither,
\* though fieldproxy.h:255 has "Get a boolean"), gets the value that was written
\* last: the class, its type identifier, its octets and its sign agree
\* (table.h:115-140, fieldproxy.h:69-227).
ReadsBack == Fits =>
  LET t == readTable(tableFill(table))
  IN  /\ DOMAIN t = DOMAIN wrote
      /\ \A n \in DOMAIN wrote : ReadAs(wrote[n][1], t[n]) = wrote[n][2]

\* The size of a table is the number of octets it is filled with
\* (numericfield.h:150-154, stringfield.h:116-124, decimalfield.h:177-181).
FillsExactly == Len(tableFill(table)) = tableSize(table)

\* An array has the values assigned, at their indexes, as long as the calls are not
\* chained (array.h:96-114).
ElementsKept == array = want
=============================================================================
