SPECIFICATION PoolSpec
CONSTANTS
  PoolThreads = {t1, t2}
  Expansion = 2
  MaxChunks = 2
  MaxNodes = 2
  Overlap = TRUE
INVARIANT OneOwnerEach
CHECK_DEADLOCK FALSE
