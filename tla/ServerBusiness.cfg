SPECIFICATION FairSpec
CONSTANT MaxFaults = 0
INVARIANT BusinessServesWhileMainLives
CHECK_DEADLOCK FALSE
