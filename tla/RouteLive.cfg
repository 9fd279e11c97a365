SPECIFICATION Spec
CONSTANTS
  N = 1
  Readers = {r1, r2}
  MaxConn = 2
  MaxPush = 3
  MaxEpoch = 1
PROPERTY LogSpec
PROPERTY Delivered
PROPERTY SendReturns
