SPECIFICATION Spec
CONSTANTS
  Tabs = {"t1", "t2"}
  Uses <- UsesAll
  Wants <- WantsOne
  Servers = {"a", "b"}
  Skew <- TwoClocks
  TokenKeys <- KeysInRotation
  ActiveTokenKey <- ActiveInRotation
  Targets = {"d1", "d2"}
  CookieKeys = {1, 2}
  AccessSeconds = 2
  RetentionSeconds = 4
  SessionSeconds = 2
  Patience = 1
  Revocable = {1}
  MaxSessions = 1
  MaxScans = 2
  Horizon = 3
CHECK_DEADLOCK FALSE
INVARIANTS
  ToldMeansQueued
  OneScanAtATime
  RevocationTakesEffect
  ResultsOpenInTheWindow
  CommittedCanBeQueued
