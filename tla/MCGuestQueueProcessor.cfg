SPECIFICATION SystemSpec
CONSTANTS
  LeaseSeconds = 2
  HardDeadlineSeconds = 3
  MaxAttempts = 2
  AccessSeconds = 3
  RetentionSeconds = 4
  CreatedAt = 1
  Drift = 0
  Horizon = 5
  MaxLeaseVersion = 3
  Digests = {d1, d2}
  Workers = {w1, w2}
  Nobody = Nobody
  TransportAttempts = 3
  MaxStalled = 1
SYMMETRY Symmetry
CHECK_DEADLOCK FALSE
INVARIANTS
  AckedMeansOver
  ViewsBehindStore
  RejectionsAreTrue
PROPERTIES
  CommittedUnbroken
