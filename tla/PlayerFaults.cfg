SPECIFICATION Spec
CONSTANTS
  MaxMedia = 3
  MaxFaults = 2
INVARIANTS TypeOK LayersAgree
PROPERTIES PauseSilences ClickStartsPlaying
