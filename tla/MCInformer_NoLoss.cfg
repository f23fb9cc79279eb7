SPECIFICATION Spec
CONSTANTS
  Keys = {k1}
  NoKey = NoKey
  Compress <- NilCompressor
  MaxRevision = 3
  MaxRelists = 1
INVARIANT
  NoLoss
