SPECIFICATION FairSpec
CONSTANTS
  Machines = {m1}
  ControlPlane = {m1}
  Backends <- GoodBackend
  Statuses <- OneStatus
  PodA = PodA
  PodB = PodB
  Endpoints <- OneEndpoint
  Legacy = {}
  ClusterMayChange = TRUE
  Limit <- ClusterLimit
INVARIANT GuestHasBootstrapData
PROPERTIES Converges DeletionCompletes
\* The controller is idle when nothing changes.
CHECK_DEADLOCK FALSE
