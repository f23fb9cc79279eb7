CONSTANTS
  Names = {a, b}
  NoId = NoId
  NoResponse = NoResponse
  ADS = TRUE
  Snapshots = {{a}, {a, b}}
  MaxSnapshots = 3
  MaxStreams = 1
  MaxFaults = 0
SPECIFICATION Spec
PROPERTIES RepliesWithLatest
CHECK_DEADLOCK FALSE
