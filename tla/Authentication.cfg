SPECIFICATION FairSpec
CONSTANTS
  Processes = {p1, p2}
  Deployments <- MCDeployments
  CacheTTL = 1
  TokenAccessReviewTimeout = 1
  MaxKeys = 3
  MaxErrors = 1
  MaxRotations = 1
INVARIANTS
  TypeOK
  AcceptedByItsStartOnly
  ServesAsConfigured
  StaleForLessThanTTL
PROPERTIES
  EventuallyFollows
CHECK_DEADLOCK FALSE
