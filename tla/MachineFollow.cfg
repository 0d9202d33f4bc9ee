SPECIFICATION Spec
CONSTANTS
  Machines = {m1}
  ControlPlane = {m1}
  Backends <- GoodBackend
  Statuses <- TwoPods
  PodA = PodA
  PodB = PodB
  Endpoints <- OneEndpoint
  Legacy = {}
  ClusterMayChange = FALSE
  Limit <- FollowLimit
SYMMETRY EitherPod
INVARIANTS SettledReflectsGuest SettledNodeHasID
PROPERTY ProviderIDsStick
\* The controller is idle when nothing changes.
CHECK_DEADLOCK FALSE
