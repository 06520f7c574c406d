\* Three messages with one body for each outcome of parse, and two ends of a
\* channel or process.  Without a message the system rests.
CONSTANTS
  MinInt <- MinIntSmall
  MaxInt = 2
  Num <- NumSmall
  Bodies <- BodiesFew
  MaxPublished = 3
  MaxEnds = 2
SPECIFICATION FairSpec
CHECK_DEADLOCK FALSE
INVARIANTS TypeOK AckedWasTaken
PROPERTIES EveryMessageTaken
