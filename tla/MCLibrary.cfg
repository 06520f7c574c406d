\* Long: four instructions on one Channel object; wide: two on two objects.
CONSTANTS
  LongMethods <- LongMethodsFew
  LongChains <- LongChainsFew
  LongMax = 4
  WideMethods <- WideMethodsFew
  WideChains <- WideChainsFew
  WideMax = 2
  Handle = {h1, h2}
  First = h1
  Consumer = {k1}
  Get = {g1}
  Publisher = {p1}
  ReceiverMethods <- ReceiverMethodsFew
  Sizes = {0, 3}
  None = None
  Excess = 1
  MaxMessages = 2
  Object = {o1, o2}
  Mon = {m1, m2, m3}
  Null = Null
  FrameSizes = {0, 2, 12}
  MaxWord = 16
  Overhead = 8
  Intervals = {0, 60}
  MaxQueue = 2
SPECIFICATION FairSpec
CHECK_DEADLOCK FALSE
INVARIANTS AnswersMeetCallbacks OutcomesTold MessagesIntact MonitorsExact
PROPERTIES DeadIsUntouched EveryAnswerComes OnlyForward
