SPECIFICATION ChannelSpec
CONSTANTS
  N = 2
  Wrap = 16
  Producers = {p1, p2}
  Readers = {r1, r2}
  MaxConn = 2
  MaxPush = 5
  MaxEpoch = 0
  Spurious = TRUE
  Churn = FALSE
  RingSize = 3
  UniProducers = {u1, u2}
  UniConsumers = {c1, c2}
  Connects = 3
  MaxClaim = 3
  MaxKick = 1
SYMMETRY Symmetry
INVARIANT OneOwner
INVARIANT InOrder
INVARIANT UnreadKept
INVARIANT TakenOnce
INVARIANT UnreadStays
