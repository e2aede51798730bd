SPECIFICATION Spec
CONSTANTS
  Producers = {player}
  Consumers = {gui}
  Clearers = {}
  Nodes = {n1, n2, n3, n4}
  NULL = NULL
  BlockSizes <- FullBlocks
  Prealloc = 1
  Cap = 12
  MaxEvents = 3
  Serialised = TRUE
INVARIANTS InArrivalOrder
