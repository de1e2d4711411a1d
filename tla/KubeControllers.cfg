SPECIFICATION FairSpec
CONSTANTS
  Controllers <- MCControllers
  TokenController = "serviceaccount-token"
  GarbageCollector = "garbagecollector"
  CSRSigning = "csrsigning"
  Discovering = {"clusterrole-aggregation"}
  Informers = {"secrets", "clusterroles", "csrs"}
  InformersOf <- MCInformersOf
  ClientCA = "client-ca"
  Validity = 3
  Threshold = 2
  ClusterSigningDuration = 3
  MaxClock = 2
  MaxErrors = 1
  MaxStops = 1
  MaxKeys = 3
  MaxCerts = 1
INVARIANTS
  TypeOK
  NobodyIsLeftWaiting
  RefusedOnlyWhenDue
PROPERTIES
  EventuallyAllWork
CHECK_DEADLOCK FALSE
