SPECIFICATION FifoSpec
CONSTANTS
  Keys = {k1, k2}
  NoKey = NoKey
  Versions = {1, 2}
  Compress <- DropCompleteLife
  MaxDeltas = 2
  MaxQueue = 3
INVARIANTS
  TypeOK
  NoItemStranded
  SyncedMeansFirstBatchPopped
PROPERTIES
  FirstInFirstOut
  EventuallyPopped
