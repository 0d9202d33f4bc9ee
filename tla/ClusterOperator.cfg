SPECIFICATION Spec
CONSTANTS
  Specs <- Both
  Pool = 2
  Limit <- EditLimit
PROPERTIES OperatorEndpointKept
\* The controller is idle when nothing changes.
CHECK_DEADLOCK FALSE
