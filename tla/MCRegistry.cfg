\* Three clients that share ids; only the first message is exchanged.
CONSTANTS
  Conn = {c1, c2, c3}
  Id <- IdsRegistry
  Hosts <- HostsRegistry
  MsgSize = 1
  MaxSent = 1
  SendMayFail = FALSE
SPECIFICATION Spec
SYMMETRY Symmetry
INVARIANTS TypeOK Ownership ForwarderLife EntriesLive OrphansExplained ClosedForGood
PROPERTIES DropsShareOneId
