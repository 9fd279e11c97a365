SPECIFICATION WaiterSpec
CONSTANTS
  Receivers = {t1}
  Wakers = {w1}
  Spin = 1
  MaxPut = 1
INVARIANT PoppedOrReturns
