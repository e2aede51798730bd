SPECIFICATION FairSpec
CONSTANTS
  Threads = {t1, t2, t3}
  NULL = NULL
  Msb = 8
  MaxDepth = 2
  Wraps = FALSE
INVARIANTS MutualExclusion OneToken RecurCounts
PROPERTIES LockPasses
