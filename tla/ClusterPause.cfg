SPECIFICATION FairSpec
CONSTANTS
  Specs <- BothTypes
  Pool = 2
  Limit <- PauseLimit
PROPERTIES ServiceNeverLeaks Converges DeletionCompletes
\* The controller is idle when nothing changes.
CHECK_DEADLOCK FALSE
