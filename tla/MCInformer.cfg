SPECIFICATION Spec
CONSTANTS
  Keys = {k1, k2}
  NoKey = NoKey
  Compress <- NilCompressor
  MaxRevision = 3
  MaxRelists = 2
INVARIANTS
  InformerTypeOK
  QueueMatchesItems
  OutcomeIsReflected
  SyncedStoreIsNotOlder
PROPERTIES
  EventuallyConsistent
  ChannelsSafe
  ChannelsLive
