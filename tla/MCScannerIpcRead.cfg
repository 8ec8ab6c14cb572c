SPECIFICATION ReadSpec
CONSTANTS
  HeaderBytes = 2
  Lengths = {0, 1, 3, 4}
  MaxPayload = 3
  MaxChunks = 4
  MaxStream = 7
CHECK_DEADLOCK FALSE
INVARIANTS
  ReadsTheStream
