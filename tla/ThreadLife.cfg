SPECIFICATION FairSpec
CONSTANTS
  Objects = {a, b}
  MaxTid = 2
  Overlap = {b}
INVARIANTS TypeOK ValidMeansAlive SignalFindsObject PauseIsTrue
PROPERTY StopEndsPaused
CHECK_DEADLOCK FALSE
