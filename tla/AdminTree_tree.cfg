SPECIFICATION Spec
CONSTANTS
  Nil = Nil
  n1 = n1
  n2 = n2
  NewEvent = NewEvent
  Names = {n1, n2}
  InitialDb <- MCInitialDb
  MaxAdds = 2
  MaxId = 5
  MaxChanges = 1
  MaxFailures = 1
INVARIANTS
  TypeOK
  FormFollowsTree
  TreeComplete
  ItemsShowTheirRow
CHECK_DEADLOCK FALSE
