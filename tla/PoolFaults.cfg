SPECIFICATION Spec
CONSTANTS
  Workers = {w1, w2}
  Clients = {c1, c2}
  Leavers = {c1}
  Closable = TRUE
  ReadsFail = TRUE
  SendCap = 1
  MaxTasks = 2
  MaxFaults = 1
INVARIANTS TypeOK Conservation
PROPERTY BagSpec
CHECK_DEADLOCK FALSE
