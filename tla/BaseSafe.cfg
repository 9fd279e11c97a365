SPECIFICATION BaseSpec
CONSTANTS
  N = 2
  Chunks = 2
  Senders = {s1, r1}
  Readers = {r1, r2}
  MaxSend = 3
  MaxForce = 1
  MaxLeave = 1
  PoolThreads = {t1, t2}
  Expansion = 2
  MaxChunks = 2
  MaxNodes = 2
  Overlap = FALSE
  MaxAlign = 2
  NodeSize = 2
  Alignments = {1, 2, 8}
  Requests = {1, 3}
  Buffers <- MCBuffers
  HeadSize = 16
  Objects = {0, 1, 112, 113, 1008, 1009, 1024, 1025, 8177, 65521}
  MaxLive = 3
  Owners = {a1, a2, a3}
  MaxTasks = 3
  Homes = {h1, h2, h3}
  MaxItems = 4
  BufSize = 4
  Rounding = 2
  Lengths = {0, 1, 2, 3, 5}
  MaxPieces = 4
  SpecSize = 8
  MaxFlags = 7
  MaxText = 2
  CodePoints = {0, 65, 127, 128, 2047, 2048, 55295, 55296, 57343, 57344, 65535, 65536, 983039, 983040, 1114111, 2097151, 2097152, 67108863, 67108864, 2147483647}
  MsPerSec = 3
  UsPerMs = 2
  NsPerUs = 2
  Word = 64
INVARIANT BufferStable
INVARIANT NoLeak
INVARIANT PoolOwned
INVARIANT MemoryFits
INVARIANT RunsOnce
 
CHECK_DEADLOCK FALSE
