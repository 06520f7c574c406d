------------------------------ MODULE Formats ------------------------------
(***************************************************************************)
(* What the program and AMQP-CPP read and write: the properties of         *)
(* messages, tables of fields, frames, addresses, and the configuration.   *)
(* A behaviour is one of one part, which the initial state chooses.        *)
(* Addresses have two instances, one with long texts to read, one with     *)
(* short ones to compare.                                                  *)
(***************************************************************************)
EXTENDS Integers, Sequences

CONSTANTS LongWidth, LongLongWidth,         \* of Wire
          Strings, Numbers, MetaMax,        \* of MetaData
          Names, ValuesOf, MaxIndex, TableMax,   \* of FieldTable
          Payloads, Header, MaxWord, MaxFrames,  \* of Frames
          TextTokens, TextMax,              \* of the Address that is read
          PairTokens, PairMax, Rank,        \* of the ones that are compared
          Options, Lines, MaxPort, NoHost, MaxOptions, MaxLines   \* of Config

VARIABLES part,
          bools1, bools2, field, metaCalls,
          table, array, wrote, want, tableCalls,
          out, queue, blocks, double, made, ready, sent, plan, coming, buffer, parsed,
          secure, text, kept,
          phase, cfg, given, hosts, seen

metaVars    == <<bools1, bools2, field, metaCalls>>
tableVars   == <<table, array, wrote, want, tableCalls>>
frameVars   == <<out, queue, blocks, double, made, ready, sent, plan, coming, buffer, parsed>>
addressVars == <<secure, text, kept>>
configVars  == <<phase, cfg, given, hosts, seen>>
vars == <<part, metaVars, tableVars, frameVars, addressVars, configVars>>

Meta == INSTANCE MetaData WITH MaxCalls <- MetaMax, calls <- metaCalls

Fields == INSTANCE FieldTable WITH MaxCalls <- TableMax, calls <- tableCalls

Frame == INSTANCE Frames

Texts == INSTANCE Address WITH Tokens <- TextTokens, MaxLength <- TextMax, KeepLength <- 0

Pairs == INSTANCE Address WITH Tokens <- PairTokens, MaxLength <- PairMax, KeepLength <- PairMax

Settings == INSTANCE Config

-----------------------------------------------------------------------------
(* What the constants stand for.                                           *)

\* Cut down or not, an integer has an octet at least and no more than in C++.
ASSUME WireAssumption == LongWidth \in 1..4 /\ LongLongWidth \in 1..8

ASSUME MetaAssumption == /\ Strings \subseteq Seq(Meta!Octet) /\ Numbers \subseteq Nat
                         /\ \A s \in Strings : Len(s) < Meta!Base(LongWidth)
                         /\ MetaMax \in Nat

\* The keys of a map are distinct, and a value is one of its C++ type.
ASSUME FieldsAssumption ==
  /\ Names \in Seq(Seq(Fields!Octet))
  /\ \A i, j \in DOMAIN Names : Names[i] = Names[j] => i = j
  /\ \A c \in DOMAIN ValuesOf : \A v \in ValuesOf[c] : Fields!IsValue(c, v)
  /\ MaxIndex \in Nat /\ TableMax \in Nat

\* The size of a frame is a uint32_t.
ASSUME FrameAssumption == /\ Header \in Nat \ {0} /\ MaxWord \in Nat /\ MaxFrames \in Nat
                          /\ \A n \in Payloads : n \in Nat /\ n + Header + 1 < MaxWord

\* Characters have places of their own in the order of strings.
ASSUME AddressAssumption ==
  /\ TextMax \in Nat /\ PairMax \in Nat
  /\ \A x \in PairTokens \cup {"x", "/", "guest"} : Rank[x] \in Int
  /\ \A x, y \in PairTokens \cup {"x", "/", "guest"} : Rank[x] = Rank[y] => x = y

ASSUME ConfigAssumption ==
  /\ MaxPort \in Nat /\ MaxOptions \in Nat /\ MaxLines \in Nat
  /\ \A o \in Options : o.num \in Int
  /\ \A l \in Lines : /\ l.shape \in {"full", "empty", "noid", "nohost"}
                      /\ l.port.form \in {"number", "missing", "large", "text"}
                      /\ l.port.form = "number" => l.port.value \in Settings!Ports
                      /\ l.port.last \in BOOLEAN

-----------------------------------------------------------------------------
\* Every part starts in its initial state, and one of them moves.
Init == /\ part \in {"meta", "fields", "frame", "texts", "pairs", "settings"}
        /\ Meta!Init /\ Fields!Init /\ Frame!Init /\ Settings!Init
        /\ IF part = "pairs" THEN Pairs!Init ELSE Texts!Init

Next ==
  \/ /\ part = "meta" /\ Meta!Next
     /\ UNCHANGED <<part, tableVars, frameVars, addressVars, configVars>>
  \/ /\ part = "fields" /\ Fields!Next
     /\ UNCHANGED <<part, metaVars, frameVars, addressVars, configVars>>
  \/ /\ part = "frame" /\ Frame!Next
     /\ UNCHANGED <<part, metaVars, tableVars, addressVars, configVars>>
  \/ /\ part = "texts" /\ Texts!Next
     /\ UNCHANGED <<part, metaVars, tableVars, frameVars, configVars>>
  \/ /\ part = "pairs" /\ Pairs!Next
     /\ UNCHANGED <<part, metaVars, tableVars, frameVars, configVars>>
  \/ /\ part = "settings" /\ Settings!Next
     /\ UNCHANGED <<part, metaVars, tableVars, frameVars, addressVars>>

Spec == Init /\ [][Next]_vars

-----------------------------------------------------------------------------
\* The types of the state.
TypeOK == /\ part = "meta" => Meta!TypeOK
          /\ part = "fields" => Fields!TypeOK
          /\ part = "frame" => Frame!TypeOK
          /\ part = "texts" => Texts!TypeOK
          /\ part = "pairs" => Pairs!TypeOK
          /\ part = "settings" => Settings!TypeOK

\* The state has its type, and size() of the properties of a message, and of a table,
\* is the number of octets that fill() writes: a frame's buffer is allocated by the
\* one and filled by the other without a check (metadata.h:300-349,
\* copiedbuffer.h:53-60).
FillsExactly == /\ TypeOK
                /\ part = "meta" => Meta!FillsExactly
                /\ part = "fields" => Fields!FillsExactly

\* The receiver sees the properties that were set, with their values, and none
\* besides (metadata.h:142-161, 216-246, 328-349); fields read as the C++ type they
\* were written as have the value written last, booleans and decimals when they are read
\* from the field and not from the proxy, which does not convert to them, and arrays
\* have theirs in order (table.h:115-140, fieldproxy.h:69-263, array.h:96-114).
RoundTrip == /\ part = "meta" => Meta!ValuesAnnounced /\ Meta!RoundTrip
             /\ part = "fields" => Fields!ElementsKept /\ Fields!ReadsBack

\* A frame fills the block that was allocated for it, and each block has one owner and
\* is freed once, through the move into the queue as well (copiedbuffer.h:53-108).
BlocksOwned == part = "frame" => Frame!BlocksFilled /\ Frame!OneOwner

\* The frames processed are the ones the server sent, whole and in order, however
\* the octets were cut on the way (receivedframe.h:171-179).
FramesWhole == part = "frame" => Frame!FramesWhole

\* An address that is printed is read as the same address, if it does not ask for the
\* plain port on a secure connection (address.h:74-136, 221-240, 308-330), and for two
\* addresses exactly one of <, == and > holds (address.h:247-300).
AddressesKept == /\ part = "texts" => Texts!StreamReads /\ Texts!StringReads
                 /\ part = "pairs" => Pairs!OrderIsTotal

\* Each setting is what its option said last, or the default (config.cpp:61-117), and
\* a look-up gives what the last line with the id said (config.cpp:23-59, 120-132).
LastWordCounts == part = "settings" => Settings!LastOptionWins /\ Settings!LastLineWins
=============================================================================
