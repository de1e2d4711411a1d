SPECIFICATION Spec
CONSTANTS
  SubCAs <- MCSubCAs
  Leaves <- MCLeaves
  SignerOf <- MCSignerOf
  PeerLeaves = {"peer"}
  HostLeaves = {"kube-apiserver"}
  Hosts = {"h1"}
  ServerCA = "server-ca"
  KubeconfigLeaf = "kube-aggregator"
  RootCA = "root-ca"
  WalkRank <- MCWalkRank
  SetupRank <- MCSetupRank
  NumKubeconfigs = 1
  ShortValidity = 4
  ShortThreshold = 2
  LongValidity = 9
  LongThreshold = 4
  ProvidedRoots <- MCSometimesProvided
  MaxClock = 6
  MaxStops = 2
INVARIANTS
  ProvidedCASignsAll
CHECK_DEADLOCK FALSE
