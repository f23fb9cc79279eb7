SPECIFICATION CloseSpec
CONSTANT
  MaxQueue = 2
PROPERTY
  StoppedLoopReturns
CHECK_DEADLOCK FALSE
