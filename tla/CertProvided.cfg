SPECIFICATION FairSpec
CONSTANTS
  SubCAs <- MCSubCAs
  Leaves <- MCOneHostLeaves
  SignerOf <- MCSignerOf
  PeerLeaves = {"peer"}
  HostLeaves = {}
  Hosts = {"h1"}
  ServerCA = "server-ca"
  KubeconfigLeaf = "kube-aggregator"
  RootCA = "root-ca"
  WalkRank <- MCWalkRank
  SetupRank <- MCSetupRank
  NumKubeconfigs = 1
  ShortValidity = 3
  ShortThreshold = 2
  LongValidity = 9
  LongThreshold = 4
  ProvidedRoots <- MCProvidedRoots
  MaxClock = 3
  MaxStops = 2
INVARIANTS
  ProvidedCASigns
  SwapsOnlyDue
PROPERTIES
  EventuallyServes
CHECK_DEADLOCK FALSE
