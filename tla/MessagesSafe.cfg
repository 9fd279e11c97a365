SPECIFICATION MessagesSpec
CONSTANTS
  N = 3
  Readers = {r1, r2}
  CountMod = 4
  MaxPush = 4
  MaxForce = 1
  MaxPop = 4
  Channels = {a}
  Senders = {s1, s2}
  DataLength = 2
  Sizes = {1, 5}
  Capacity = 2
  MaxMsg = 3
  MaxLeave = 1
  CacheSize = 0
  CacheAge = 1
INVARIANT OneReader
INVARIANT InOrder
INVARIANT UnreadKept
INVARIANT Reassembled
INVARIANT CacheDrains
PROPERTY Delivered
PROPERTY Arrives
CHECK_DEADLOCK FALSE
CONSTANTS
  Receivers = {t1, t2}
  Wakers = {w1, w2}
  Spin = 1
  MaxPut = 2
INVARIANT NoLostWakeup
PROPERTY Wakes
