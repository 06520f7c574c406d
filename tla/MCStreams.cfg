\* Two clients of one id, streams longer than the first message, sends that
\* may fail.
CONSTANTS
  Conn = {c1, c2}
  Id <- IdsOne
  Hosts <- IdsOne
  MsgSize = 2
  MaxSent = 3
  SendMayFail = TRUE
SPECIFICATION Spec
INVARIANTS BytesInOrder
PROPERTIES SessionsArePipes
