SPECIFICATION FairSpec
CONSTANTS
  Requests <- AllRequests
  MaxChunks = 1
INVARIANTS HandshakeExact ClearExcludesPop PopKindsMatch RightBuffer WindowAgrees
PROPERTIES NoRequestOverwritten CallsReturn
CHECK_DEADLOCK FALSE
