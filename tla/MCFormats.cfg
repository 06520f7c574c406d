CONSTANTS
  LongWidth = 2
  LongLongWidth = 3
  Strings <- SomeStrings
  Numbers = {1, 2, 70000}
  MetaMax = 3
  Names <- SomeNames
  ValuesOf <- SomeValues
  MaxIndex = 2
  TableMax = 3
  Payloads = {0, 2}
  Header = 2
  MaxWord = 16
  MaxFrames = 3
  TextTokens = {"@", ":", "/", "x", "5671", "5672", "71208"}
  TextMax = 5
  PairTokens = {"@", "/", "x", "X"}
  PairMax = 3
  Rank <- TokenRank
  Options <- AllOptions
  Lines <- AllLines
  MaxPort = 15
  NoHost = ""
  MaxOptions = 2
  MaxLines = 2
SPECIFICATION Spec
INVARIANTS FillsExactly RoundTrip BlocksOwned FramesWhole AddressesKept LastWordCounts
CHECK_DEADLOCK FALSE
