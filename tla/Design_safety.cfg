\* Compilations that fail at any point, two files, three problems.
CONSTANTS
  f1 = f1
  f2 = f2
  p1 = p1
  p2 = p2
  p3 = p3
  nowhere = nowhere
  Files <- MCFiles
  Problems <- MCProblems
  Place <- MCPlace
  Nowhere = nowhere
SPECIFICATION DSpec
INVARIANTS DTypeOK ProblemsExact IndexCurrent
CHECK_DEADLOCK FALSE
