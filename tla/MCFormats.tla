----------------------------- MODULE MCFormats -----------------------------
(***************************************************************************)
(* Formats with an empty string, a short one with awkward octets, and one  *)
(* longer than the size of a short string can tell; for each C++ type the  *)
(* ends of its range; every kind of option and of line.                    *)
(***************************************************************************)
EXTENDS Formats

SomeStrings == {<<>>, <<0, 255>>, [i \in 1..256 |-> 7]}

SomeNames == << <<65>>, <<65, 0>> >>

SomeValues == [bool |-> {TRUE, FALSE}, uint8 |-> {255}, int8 |-> {-128, -1}, uint16 |-> {65535},
               int16 |-> {-32768, 256}, uint32 |-> {40000}, int32 |-> {-2}, uint64 |-> {16777215},
               int64 |-> {-8388608}, decimal |-> {[places |-> 2, number |-> 1234]},
               string |-> {<<>>, <<0, 255>>}]

TokenRank == [x \in {"/", ":", "@", "X", "guest", "x"} |->
               CASE x = "/" -> 1 [] x = ":" -> 2 [] x = "@" -> 3 [] x = "X" -> 4
                 [] x = "guest" -> 5 [] x = "x" -> 6]

Opt(o, n, s) == [opt |-> o, num |-> n, str |-> s]

AllOptions == {Opt("v", 5, ""), Opt("v", -1, ""), Opt("c", 0, "f1"), Opt("l", 0, "f2"),
               Opt("p", 20, ""), Opt("r", 0, "url"), Opt("q", 0, "q1"), Opt("s", 0, ""),
               Opt("o", 0, ""), Opt("h", 0, ""), Opt("?", 0, ""), Opt("c", 0, "f3")}

Line(s, i, h, p) == [shape |-> s, id |-> i, host |-> h, port |-> p]
Number(n)        == [form |-> "number", value |-> n, last |-> TRUE]
Form(f, l)       == [form |-> f, value |-> 0, last |-> l]

AllLines == {Line("full", i, h, Number(n)) : i \in {1, 2}, h \in {"a", "b"}, n \in {0, 3}}
            \cup {Line("full", 1, "a", f) : f \in {Form("missing", TRUE), Form("text", TRUE),
                                                   Form("large", TRUE), Form("large", FALSE)}}
            \cup {Line(s, 1, "a", Form("missing", TRUE)) : s \in {"empty", "noid", "nohost"}}
=============================================================================
