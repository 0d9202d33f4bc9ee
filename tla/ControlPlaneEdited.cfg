SPECIFICATION EditedSpec
CONSTANTS
  Machines = {m1}
  ControlPlane = {m1}
  Backends <- GoodBackend
  Statuses <- OneStatus
  PodA = PodA
  PodB = PodB
  Endpoints <- BothEndpoints
  Legacy = {}
  ClusterMayChange = TRUE
  Limit <- OneEdit
  Specs <- BothModes
  Pool = 2
  ClusterLimits <- Edited
INVARIANT ServiceFrontsGuests
