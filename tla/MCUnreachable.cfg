\* One client whose server may refuse the connection.
CONSTANTS
  Conn = {c1}
  Id <- IdsOne
  Hosts <- IdsOne
  MsgSize = 1
  MaxSent = 1
  SendMayFail = FALSE
SPECIFICATION FairSpec
PROPERTIES UnreachableCloses
