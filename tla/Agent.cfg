SPECIFICATION FairSpec
CONSTANTS
  Processes <- MCProcesses
  Release <- MCRelease
  CRDs <- MCCRDs
  MaxErrors = 2
  MaxSignals = 1
  MaxRestarts = 1
  MaxWrites = 6
INVARIANTS
  TypeOK
  CRDsAsApplied
PROPERTIES
  EventuallyRuns
CHECK_DEADLOCK FALSE
