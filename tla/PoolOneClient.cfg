SPECIFICATION FairSpec
CONSTANTS
  Workers = {w1, w2, w3}
  Clients = {c1}
  Leavers = {}
  Closable = FALSE
  ReadsFail = FALSE
  SendCap = 1
  MaxTasks = 4
  MaxFaults = 0
INVARIANTS SomeWorkerFree
PROPERTY EveryTaskStarts
CHECK_DEADLOCK FALSE
