CONSTANTS
  Conn = {c1}
  Id <- IdsOne
  Hosts <- IdsOne
  MsgSize = 2
  MaxSent = 4
  SendMayFail = FALSE
SPECIFICATION FairSpec
INVARIANTS NothingStranded
PROPERTIES ClientBytesArrive
