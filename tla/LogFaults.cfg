SPECIFICATION AttendedSpec
CONSTANTS
  Writers = {t1, t2}
  Orderly = FALSE
  PoolCloses = TRUE
  MaxRecords = 2
  MaxFaults = 1
  MaxCrashes = 1
INVARIANTS TypeOK HolesAreFailedWrites
PROPERTIES LogSpec ServerComesBack
CHECK_DEADLOCK FALSE
