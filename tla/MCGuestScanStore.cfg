SPECIFICATION FairSpec
CONSTANTS
  LeaseSeconds = 2
  HardDeadlineSeconds = 4
  MaxAttempts = 3
  AccessSeconds = 9
  RetentionSeconds = 11
  CreatedAt = 1
  Drift = 1
  Horizon = 14
  MaxLeaseVersion = 4
  Digests <- MCDigests
CHECK_DEADLOCK FALSE
INVARIANTS
  OneLeaseHolder
  ConcurrencyReleasedOnce
  ResultIsTheAcceptedOne
  LeaseWithinAccess
PROPERTIES
  LeaseNotTakenEarly
  FinishedIsFinal
  UnitsComeBack
  ImplementsLifecycle
