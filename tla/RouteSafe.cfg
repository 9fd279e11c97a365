SPECIFICATION Spec
CONSTANTS
  N = 2
  Readers = {r1, r2, r3}
  MaxConn = 2
  MaxPush = 3
  MaxEpoch = 1
SYMMETRY Symmetry
INVARIANT InOrder
INVARIANT UnreadKept
INVARIANT NeverStale
INVARIANT IdsUnique
