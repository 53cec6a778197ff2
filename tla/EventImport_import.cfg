SPECIFICATION Spec
CONSTANTS
  Empty = Empty
  Clients = {a, b}
  ann = ann
  ANN = ANN
  bob = bob
  obrien = obrien
  lee = lee
  m1 = m1
  mail = mail
  cell = cell
  mx5 = mx5
  brz = brz
  red = red
  str = str
  stu = stu
  n = n
  back = back
  e1 = e1
  e2 = e2
  Files <- MCFiles
  Events = {e1, e2}
  EventOfNoRow = e2
  OrganizationOf <- MCOrganizationOf
  Numbers <- MCNumbers
  Likes <- MCLikes
  MaxImports = 3
  MaxFailures = 1
SYMMETRY Symmetry
INVARIANTS
  TypeOK
  DuplicatesAreRaces
  RegistrationsOwnTheirCar
  EveryRowRegistered
PROPERTIES
  ReimportCreatesNothing
CHECK_DEADLOCK FALSE
