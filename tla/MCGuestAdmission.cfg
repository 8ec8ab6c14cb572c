SPECIFICATION Spec
CONSTANTS
  Sessions = {s1, s2, s3}
  Networks = {n1}
  IdempotencyKeys = {i1}
  Servers = {a, b}
  Keys = {k1, k2}
  MaxKeys = 2
  Windows <- NoWindows
  ConcurrencyLimit <- OneAndTwo
  AccessSeconds = 1
  RetentionSeconds = 2
  Drift = 1
  Horizon = 5
SYMMETRY Symmetry
CHECK_DEADLOCK FALSE
INVARIANTS
  ActiveCountersExact
  NetworkConcurrency
