\* Handlers that use an index or a compilation that is gone.
CONSTANTS
  f1 = f1
  f2 = f2
  p1 = p1
  p2 = p2
  p3 = p3
  nowhere = nowhere
  Files <- MCFiles
  Problems <- MCProblems
  Place <- MCPlace
  Nowhere = nowhere
SPECIFICATION DSpec
INVARIANTS NoNullUse
CHECK_DEADLOCK FALSE
