SPECIFICATION FairSpec
CONSTANT MaxFaults = 2
INVARIANTS TypeOK LogOutlivesWriters
PROPERTY EverythingEnds
CHECK_DEADLOCK FALSE
