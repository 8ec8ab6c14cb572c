SPECIFICATION FairSpec
CONSTANTS
  Outcomes = {"COMMITTED", "RETRY_REJECTION_SINK", "RETRY_COMMIT"}
  MaxCount = 1
  BatchRetention = 1
  LastSecond = 2
  MaxRecords = 3
CHECK_DEADLOCK FALSE
INVARIANTS
  CountedOnce
  CleanStopStoresAll
PROPERTIES
  StopEnds
  NothingWaits
