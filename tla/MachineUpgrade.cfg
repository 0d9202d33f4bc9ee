SPECIFICATION FairSpec
CONSTANTS
  Machines = {m1}
  ControlPlane = {}
  Backends <- GoodBackend
  Statuses <- TwoPods
  PodA = PodA
  PodB = PodB
  Endpoints <- OneEndpoint
  Legacy = {m1}
  ClusterMayChange = FALSE
  Limit <- UpgradeLimit
PROPERTIES Converges DeletionCompletes
\* The controller is idle when nothing changes.
CHECK_DEADLOCK FALSE
