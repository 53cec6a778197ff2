SPECIFICATION Spec
CONSTANTS
  Messages <- MCMessages
  EXPECTED_SIZE = 2
  MaxNoise = 1
  MaxFaults = 1
  MaxOpenFailures = 1
INVARIANTS
  TypeOK
  CutsDoNotMatter
  LossesStayLocal
PROPERTIES
  Reconnects
CHECK_DEADLOCK FALSE
