SPECIFICATION Spec
CONSTANTS
  Specs <- Edits
  Pool = 2
  Limit <- EndpointLimit
INVARIANTS TypeOK SettledReportsEndpoint
PROPERTIES ServiceDeletedFirst ForeignFieldsKept
\* The controller is idle when nothing changes.
CHECK_DEADLOCK FALSE
