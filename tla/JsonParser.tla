----------------------------- MODULE JsonParser -----------------------------
(***************************************************************************)
(* JsonParser::parse (jsonparser.cpp) on abstract JSON values, with the    *)
(* conversions of jsoncpp that it relies on.                               *)
(*                                                                         *)
(* A value is a record of a type and a number `val': the value of an int,  *)
(* bool (0 or 1) or integral real; for the type "half", a real, the        *)
(* integer below it; the number of members of an array or object; of all   *)
(* strings only "close_sockets" (1) is told apart.                         *)
(***************************************************************************)
EXTENDS Integers

CONSTANTS MinInt, MaxInt,   \* the range of int
          Num               \* bound: the numbers that occur in a message

ASSUME JsonAssumption == /\ MinInt \in Int /\ MaxInt \in Int /\ Num \subseteq Int
                         /\ MinInt < 0 /\ 1 <= MaxInt

Json(t, v) == [type |-> t, val |-> v]
Null       == Json("null", 0)
Job        == Json("string", 1)
Values     == {Null} \cup {Json(t, v) : t \in {"int", "real", "half"}, v \in Num}
                     \cup {Json(t, v) : t \in {"bool", "string", "array", "object"}, v \in {0, 1}}

\* A message body: text that does not parse, a value that is no object, or an
\* object seen through the two members that parse reads (Null: no such member).
Body == [root : {"malformed", "null", "scalar", "array"}, client_id : {Null}, job : {Null}]
        \cup [root : {"object"}, client_id : Values, job : Values]

\* Value::empty
Empty(v) == \/ v.type = "null"
            \/ v.type \in {"array", "object"} /\ v.val = 0

\* Value::isConvertibleTo(intValue); where it holds asInt does not throw.
ConvertibleToInt(v) == \/ v.type \in {"null", "bool"}
                       \/ v.type \in {"int", "real"} /\ v.val \in MinInt..MaxInt
                       \/ v.type = "half" /\ v.val \in MinInt..MaxInt-1

\* Value::asInt, which truncates towards zero.
AsInt(v) == IF v.type = "half" /\ v.val < 0 THEN v.val + 1 ELSE v.val

-----------------------------------------------------------------------------
\* The outcomes of parse: it returns false, an exception leaves it, or it
\* fills in a ControlMessage.
Outcome    == [out : {"reject", "throw", "ok"}, type : {"", "CLOSE", "CLOSE_ALL"}, id : Int]
Reject     == [out |-> "reject", type |-> "", id |-> 0]
Throw      == [out |-> "throw", type |-> "", id |-> 0]

\* Mutant: the type is not filled in.
Untyped(i) == [out |-> "ok", type |-> "", id |-> i]

Command(i) == [out |-> "ok", type |-> IF i >= 0 THEN "CLOSE" ELSE "CLOSE_ALL", id |-> i]

\* Mutant: an id of 0 counts as missing.
WrongOrZero(b) == b.client_id.val = 0 \/ Empty(b.job) \/ ~ConvertibleToInt(b.client_id)

\* Mutant: the members are not tested for being there.
WrongTypeOnly(b) == ~ConvertibleToInt(b.client_id)

WrongData(b) == Empty(b.client_id) \/ Empty(b.job) \/ ~ConvertibleToInt(b.client_id)

\* operator[] throws on a root that is neither null nor an object, asString on
\* an array or object.
Parse(b) ==
  IF b.root = "malformed" THEN Reject
  ELSE IF b.root \in {"scalar", "array"} THEN Throw
  ELSE IF WrongData(b) THEN Reject
  ELSE IF b.job.type \in {"array", "object"} THEN Throw
  ELSE IF b.job # Job THEN Reject
  ELSE Command(AsInt(b.client_id))
=============================================================================
