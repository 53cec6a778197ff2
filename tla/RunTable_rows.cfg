SPECIFICATION Spec
CONSTANTS
  None = None
  Known = Known
  e1 = e1  e2 = e2
  r1 = r1  r2 = r2  r3 = r3
  d1 = d1  d2 = d2
  k1 = k1  k2 = k2
  Events = {e1, e2}
  Runs = {r1, r2, r3}
  Drivers = {d1, d2}
  Cars = {1, 2}
  Classes = {k1, k2}
  RunEvent <- MCRunEvent
  RunDriver <- MCRunDriver
  RunCar <- MCRunCar
  ClassOf <- MCClassOf
  RegDrivers <- MCRegDrivers
  RegCars <- MCRegCars
  MaxSelections = 2
  MaxChanges = 1
  MaxFailures = 1
INVARIANTS
  TypeOK
  MapsAgreeWithRows
  RowsShowTheirOwn
  NoRunMissing
  LoadedTableComplete
  StaleOnlyIfOvertaken
PROPERTIES
  NewRunsFindWhatWasLoaded
CHECK_DEADLOCK FALSE
