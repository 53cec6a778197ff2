SPECIFICATION Spec
CONSTANTS
  Nil = Nil
  n1 = n1
  n2 = n2
  NewEvent = NewEvent
  Names = {n1, n2}
  InitialDb <- MCInitialDb
  MaxAdds = 2
  MaxId = 5
  MaxChanges = 0
  MaxFailures = 0
INVARIANTS
  SavedItemHasItsRow
CHECK_DEADLOCK FALSE
