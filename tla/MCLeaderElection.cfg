CONSTANTS
  e1 = e1
  e2 = e2
  Electors = {e1, e2}
  NoHolder = NoHolder
  LeaseDuration = 10
  RenewDeadline = 2
  RetryPeriod = 1
  Second = 2
  Offset <- Offsets
  MaxCall <- Calls
  Flaky = {e1}
  MaxTime = 15
  Created = FALSE
  MaxLate = 1
SPECIFICATION Spec
INVARIANTS LeaderTypeOK LeaderHoldsLock LapsedLockIsTaken
PROPERTIES StableLeader HolderChangesAreCounted
CHECK_DEADLOCK FALSE
