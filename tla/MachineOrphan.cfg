SPECIFICATION Spec
CONSTANTS
  Machines = {m1}
  ControlPlane = {}
  Backends <- GoodBackend
  Statuses <- OneStatus
  PodA = PodA
  PodB = PodB
  Endpoints <- OneEndpoint
  Legacy = {}
  ClusterMayChange = FALSE
  Limit <- PlainLimit
INVARIANTS GuestGoneWithMachine
\* The controller is idle when nothing changes.
CHECK_DEADLOCK FALSE
