SPECIFICATION FairSpec
CONSTANTS
  Roles = {"base", "view", "edit"}
  Names <- MCNames
  Selectors <- MCSelectors
  Rules = {"x", "y"}
  Labels = {"to-view", "to-edit"}
  InitialStore <- MCInitialStore
  InitialOwners <- MCInitialOwners
  Edits <- MCEdits
  w1 = w1
  w2 = w2
  Workers = {w1, w2}
  MaxEdits = 1
  MaxErrors = 1
  MaxStops = 1
INVARIANTS
  TypeOK
  QuietMeansAggregated
  QuietMeansUnion
  QuietMeansGranted
PROPERTIES
  EventuallyGranted
CHECK_DEADLOCK FALSE
