SPECIFICATION DelaySpec
CONSTANTS
  Items = {i1, i2}
  Workers = {w1}
  NoItem = NoItem
  Callers = {c1}
  Delays = {1, 2}
  ChanCap = 1
  MaxTime = 2
INVARIANTS
  DelayTypeOK
  OwedIsWaiting
PROPERTIES
  OwedIsPaid
  AddAfterReturns
CHECK_DEADLOCK FALSE
