SPECIFICATION Spec
CONSTANTS
  SubCAs <- MCSubCAs
  Leaves <- MCLeaves
  SignerOf <- MCSignerOf
  PeerLeaves = {"peer"}
  HostLeaves = {"kube-apiserver"}
  Hosts = {"h1", "h2"}
  ServerCA = "server-ca"
  KubeconfigLeaf = "kube-aggregator"
  RootCA = "root-ca"
  WalkRank <- MCWalkRank
  SetupRank <- MCSetupRank
  NumKubeconfigs = 2
  ShortValidity = 4
  ShortThreshold = 2
  LongValidity = 9
  LongThreshold = 4
  ProvidedRoots <- MCNoProvidedRoots
  MaxClock = 6
  MaxStops = 2
INVARIANTS
  TypeOK
  ServedChainsVerify
  KubeconfigsVerify
  
  LookupsSucceed
PROPERTIES
  ImplementsTrustDomain
CHECK_DEADLOCK FALSE
