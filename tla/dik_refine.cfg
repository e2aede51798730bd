SPECIFICATION FairSpec
CONSTANTS
  Producers = {player}
  Consumers = {gui}
  Clearers = {player}
  Nodes = {n1, n2, n3, n4}
  NULL = NULL
  BlockSizes <- OneEvent
  Prealloc = 1
  Cap = 2
  MaxEvents = 4
  Serialised = TRUE
INVARIANTS NoUseAfterFree
PROPERTIES ImplementsMsgQueue QueueDrained
