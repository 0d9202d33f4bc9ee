SPECIFICATION Spec
CONSTANTS
  Machines = {m1}
  ControlPlane = {}
  Backends <- GoodOrNil
  Statuses <- AllStatuses
  PodA = PodA
  PodB = PodB
  Endpoints <- OneEndpoint
  Legacy = {}
  ClusterMayChange = FALSE
  Limit <- TeardownLimit
INVARIANTS TypeOK SeedOutlivesGuest
PROPERTIES FinalizerReleasedClean TeardownOnlyWhenDeleting ImplementsLifecycle
\* The controller is idle when nothing changes.
CHECK_DEADLOCK FALSE
