SPECIFICATION Spec
CONSTANTS
  Processes = {p, q}
  Scans = {s1, s2}
  Windows = {}
  Revocations = {r1}
  DueAt <- Deadlines
  BatchSize = 1
  MaxBatches = 2
  Drift = 1
  Horizon = 2
  MaxFailures = 1
CHECK_DEADLOCK FALSE
SYMMETRY Symmetry
INVARIANTS
  RecordsAreTrue
  SucceededMeansDone
