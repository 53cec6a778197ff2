SPECIFICATION Spec
CONSTANTS
  None = None
  Clients = {a, b}
  Events = {e1, e2}
  MaxRuns = 3
  MaxSelected = 2
  MaxSelections = 2
  MaxFailures = 1
SYMMETRY Symmetry
INVARIANTS
  TypeOK
  LinksStayInEvent
PROPERTIES
  UpToDateClientsLink
CHECK_DEADLOCK FALSE
