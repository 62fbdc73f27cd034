SPECIFICATION FairSpec
CONSTANTS
  Workers = {w1}
  Clients = {c1, c2}
  Leavers = {c1, c2}
  Closable = FALSE
  ReadsFail = FALSE
  SendCap = 1
  MaxTasks = 2
  MaxFaults = 0
INVARIANTS NoUseAfterFree
PROPERTY EveryTaskStarts
CHECK_DEADLOCK FALSE
