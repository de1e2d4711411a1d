SPECIFICATION FairSpec
CONSTANTS
  Instances = {"cp1", "cp2"}
  CRDs = {"managedclusters", "manifestworks"}
  baseCRDs <- MCbaseCRDs
  ocmCRDs <- MCocmCRDs
  ManagedClusterCRD = "managedclusters"
  Names = {"cluster-id", "uuid"}
  StableName = "cluster-id"
  EnableSelfManagement = TRUE
  MaxErrors = 1
  MaxStops = 1
INVARIANTS
  TypeOK
  ControllersAfterCRDs
  AgentAfterAcceptance
  OneSelfCluster
  FatalsHaveCauses
PROPERTIES
  EventuallyManaged
CHECK_DEADLOCK FALSE
