\* Two clients of the same id; one of them leaves before the close command.
CONSTANTS
  Conn = {c1, c2}
  Id <- IdsOne
  Hosts <- IdsOne
  MsgSize = 1
  MaxSent = 1
  SendMayFail = FALSE
SPECIFICATION Spec
INVARIANTS CloseReachesAll
