SPECIFICATION Spec
CONSTANTS
  None = None
  e1 = e1  e2 = e2
  r1 = r1  r2 = r2
  d1 = d1  d2 = d2
  c1 = c1  c2 = c2
  k1 = k1  k2 = k2
  Events = {e1, e2}
  Regs = {r1, r2}
  Drivers = {d1, d2}
  Cars = {c1, c2}
  Classes = {k1, k2}
  RegEvent <- MCRegEvent
  RegDriver <- MCRegDriver
  RegCar <- MCRegCar
  ClassOf <- MCClassOf
  MaxSelections = 2
  MaxEdits = 1
  MaxChanges = 1
  MaxFailures = 1
INVARIANTS
  TypeOK
  CountCoversRows
  LoadedTableComplete
  StaleOnlyIfOvertaken
PROPERTIES
  CountFollowsRows
CHECK_DEADLOCK FALSE
