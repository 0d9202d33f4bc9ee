SPECIFICATION SystemSpec
CONSTANTS
  Machines = {m1}
  ControlPlane = {m1}
  Backends <- GoodBackend
  Statuses <- OneStatus
  PodA = PodA
  PodB = PodB
  Endpoints <- BothEndpoints
  Legacy = {}
  ClusterMayChange = TRUE
  Limit <- OneReport
  Specs <- BothModes
  Pool = 2
  ClusterLimits <- Undisturbed
INVARIANT EndpointServed
PROPERTY ControlPlaneComesUp
