SPECIFICATION FairSpec
CONSTANTS
  Writers = {t1, t2}
  Orderly = TRUE
  PoolCloses = FALSE
  MaxRecords = 2
  MaxFaults = 0
  MaxCrashes = 0
INVARIANT NoWriterKilled
PROPERTY RecordReachesDisk
CHECK_DEADLOCK FALSE
