SPECIFICATION WorkSpec
CONSTANTS
  Items = {i1, i2, i3}
  Workers = {w1, w2, w3}
  NoItem = NoItem
INVARIANTS
  WorkTypeOK
  QueueIsDirtyIdle
  NoSleepOverWork
  DrainedBeforeExit
PROPERTIES
  ShutDownCompletes
  SetSafe
  SetLive
