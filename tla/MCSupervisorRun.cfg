SPECIFICATION Spec
CONSTANTS
  Budgets = {1, 4}
  Graces = {0, 1, 2}
  InitTimeout = 3
  Step = 2
  Horizon = 9
CHECK_DEADLOCK FALSE
INVARIANTS
  CleanResult
  ScannerStoppedInTime
  ReturnsInTime
