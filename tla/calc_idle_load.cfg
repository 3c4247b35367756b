SPECIFICATION Spec
CHECK_DEADLOCK FALSE
CONSTANTS
  HttpStatuses <- Statuses
  Calls = {c1, c2}
  Jobs <- FirstElements
  Faults = {}
  Settings = {}
INVARIANT WorkloadIsLoad
