\* One message, of every body.
CONSTANTS
  MinInt <- MinIntSmall
  MaxInt = 2
  Num <- NumSmall
  Bodies <- Body
  MaxPublished = 1
  MaxEnds = 0
SPECIFICATION Spec
CHECK_DEADLOCK FALSE
INVARIANTS OnlyCommandsRun CommandsAccepted
