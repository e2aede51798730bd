SPECIFICATION Spec
CONSTANTS
  Producers = {p1, p2}
  Consumers = {c1, c2}
  Clearers = {}
  Nodes = {n1, n2, n3, n4}
  NULL = NULL
  BlockSizes <- OneEvent
  Prealloc = 1
  Cap = 2
  MaxEvents = 3
  Serialised = FALSE
SYMMETRY Symmetry
INVARIANTS FreeListCounted NodeOwnedOnce ListIntact
