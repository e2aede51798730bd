SPECIFICATION EpsSpec
CONSTANTS
  eps_default_chunk_size = 2
  eps_realloc_size = 1
  ChunkBytes = 4
  WordRange = 3
  ClockRange = 9
  SliderUnit = 3
  Gaps = {0, 1, 2}
  MaxEvents = 3
  MaxOverrun = 2
INVARIANTS PlaysAsRecorded SeekLands
