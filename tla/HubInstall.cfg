SPECIFICATION FairSpec
CONSTANTS
  Instances = {"cp1", "cp2"}
  NumRoles = 1
  NumBindings = 2
  LeftBehind <- MCUpgrade
  MaxErrors = 2
  MaxStops = 2
INVARIANTS
  TypeOK
  InstalledUnlessFailed
  RacesLeaveNothingOut
  OneTokenPerStart
PROPERTIES
  EventuallyInstalled
CHECK_DEADLOCK FALSE
