SPECIFICATION Spec
CONSTANTS
  short = short
  long = long
  NoMedium = NoMedium
  Media <- MCMediaFiles
  Size <- MCSize
  KeySize = 5
  Width = 8
  Chunk = 4
  Past = 3
  MaxFaults = 3
INVARIANTS TypeOK FileFollowsInput
PROPERTY StreamSpec
CHECK_DEADLOCK FALSE
