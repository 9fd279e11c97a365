SPECIFICATION Spec
CONSTANTS
  N = 1
  Wrap = 16
  Producers = {p1, p2}
  Readers = {r1, r2}
  MaxConn = 2
  MaxPush = 2
  MaxEpoch = 0
  Spurious = FALSE
  Churn = TRUE
INVARIANT OneOwner
