SPECIFICATION Spec
CONSTANTS
  None = None
  Clients = {a}
  Events = {e1}
  MaxRuns = 3
  MaxSelected = 1
  MaxSelections = 1
  MaxFailures = 0
INVARIANTS
  LinkedRunsInOrder
CHECK_DEADLOCK FALSE
