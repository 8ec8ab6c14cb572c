SPECIFICATION RateSpec
CONSTANTS
  Sessions = {s1}
  Networks = {n1}
  IdempotencyKeys = {i1, i2}
  Servers = {a}
  Keys = {k1, k2}
  MaxKeys = 2
  Windows <- BothKinds
  ConcurrencyLimit <- OneAndTwo
  AccessSeconds = 1
  RetentionSeconds = 4
  Drift = 1
  Horizon = 5
SYMMETRY Symmetry
CHECK_DEADLOCK FALSE
INVARIANTS
  RateBounded
  RetryAfterSuffices
