\* Three signals.  The program ends.
CONSTANT MaxSignals = 3
SPECIFICATION FairSpec
CHECK_DEADLOCK FALSE
INVARIANTS TypeOK LostOnlyInGap
PROPERTIES SignalEnds
