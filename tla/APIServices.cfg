SPECIFICATION FairSpec
CONSTANTS
  GroupVersions = {"v1", "ext", "old"}
  ListedPaths = {"/api/v1", "/apis/ext", "/healthz"}
  GroupVersionOf <- MCGroupVersionOf
  NoGroupVersion = "none"
  apiVersionPriorities = {"v1"}
  CRDVersions = {"ext"}
  LeftBehind = {"old"}
  MaxEdits = 3
  MaxStops = 2
INVARIANTS
  TypeOK
  HealthyWhenRegistered
PROPERTIES
  EventuallyRegistered
CHECK_DEADLOCK FALSE
