SPECIFICATION FairSpec
CONSTANTS
  Processes = {p, q}
  Scans = {s1}
  Windows = {}
  Revocations = {r1}
  DueAt <- Deadlines
  BatchSize = 1
  MaxBatches = 2
  Drift = 0
  Horizon = 2
  MaxFailures = 1
CHECK_DEADLOCK FALSE
PROPERTIES
  DueRowsGo
