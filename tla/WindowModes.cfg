SPECIFICATION FairSpec
CONSTANTS
  SpeedTicks = 20
  Patience = 5
INVARIANTS TypeOK TimersAreNamed ShownIsTimed ControlsFollowMode LayoutMatchesList
PROPERTIES ControlsHide SpeedHides VolumeHides
