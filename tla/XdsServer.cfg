CONSTANTS
  Names = {a, b}
  NoId = NoId
  NoResponse = NoResponse
  ADS = TRUE
  Snapshots = {{a}, {a, b}}
  MaxSnapshots = 3
  MaxStreams = 2
  MaxFaults = 1
SPECIFICATION Spec
INVARIANTS XdsTypeOK OpenWatchIsEmpty WatchesAreOwned
PROPERTIES ImplementsFeed Converges
CHECK_DEADLOCK FALSE
