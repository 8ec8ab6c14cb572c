SPECIFICATION SystemFairSpec
CONSTANTS
  LeaseSeconds = 2
  HardDeadlineSeconds = 3
  MaxAttempts = 2
  AccessSeconds = 5
  RetentionSeconds = 6
  CreatedAt = 1
  Drift = 0
  Horizon = 7
  MaxLeaseVersion = 3
  Digests = {d1}
  Workers = {w1}
  Nobody = Nobody
  TransportAttempts = 4
  MaxStalled = 1
CHECK_DEADLOCK FALSE
PROPERTIES
  EnqueuedScanEnds
