SPECIFICATION OpenSpec
CONSTANTS
  SegHandles <- MCSegHandles
  Objs <- MCObjs
  MaxSegs = 3
  SemCount = 1
  MaxValue = 2
  Openers = {o1, o2, o3}
  IdWrap = 4
  MaxBorn = 5
  Slots = 2
  Callers = {t1, t2}
  Sizes = {1, 24, 40}
  Prefixes = {q1, q2}
  ChunkAlign = 32
  MaxAlignOf = 16
  ConnSize = 4
  Handles = {h1, h2}
  Names = {n1, n2}
  Waiters = {t1, t2, t3}
  Notifiers = {w1, w2}
  MaxPost = 3
  MaxDeath = 1
  Mappers = {v1, v2, v3}
  WinSizes = {1, 2, 5, 6, 8}
  InfoSize = 2
  Page = 8
INVARIANT OneObject
 
 
INVARIANT OneTable
INVARIANT OneWriter
INVARIANT NoGhost
INVARIANT PermitsCover
CHECK_DEADLOCK FALSE
