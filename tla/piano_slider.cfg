SPECIFICATION Spec
CONSTANTS
  Requests <- AllRequests
  MaxChunks = 1
INVARIANTS ClearApart
CHECK_DEADLOCK FALSE
