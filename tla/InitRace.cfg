SPECIFICATION ConnSpec
CONSTANTS
  Openers = {o1, o2}
  IdWrap = 4
  MaxBorn = 2
  Slots = 2
  Callers = {}
  Sizes = {1}
  Prefixes = {q1}
  ChunkAlign = 32
  MaxAlignOf = 16
  ConnSize = 4
INVARIANT ConstructedOnce
CHECK_DEADLOCK FALSE
