SPECIFICATION Spec
CONSTANTS
  Specs <- OnlyService
  Pool = 2
  Limit <- FaultLimit
INVARIANT ProvisionedHasEndpoint
\* The controller is idle when nothing changes.
CHECK_DEADLOCK FALSE
