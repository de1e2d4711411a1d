SPECIFICATION Spec
CONSTANTS
  GroupVersions = {"v1", "ext", "old"}
  ListedPaths = {"/api/v1", "/apis/ext", "/healthz"}
  GroupVersionOf <- MCGroupVersionOf
  NoGroupVersion = "none"
  apiVersionPriorities = {"v1"}
  CRDVersions = {"ext"}
  LeftBehind = {"old"}
  MaxEdits = 1
  MaxStops = 1
INVARIANTS
  CRDServicesKept
CHECK_DEADLOCK FALSE
