CONSTANTS
  l1 = l1
  l2 = l2
  k1 = k1
  Nil = Nil
  Nobody = Nobody
  Keys = {k1}
  Listeners = {l1, l2}
  Resyncing = {l2}
  Late = {l2}
  MaxVersion = 2
  MaxBatch = 1
  MaxPending <- Pending
  InitialSize = 1
SPECIFICATION Spec
INVARIANTS SharedTypeOK ListenersAgree CacheIsFresher NoSendOnClosed
PROPERTIES SentFits Delivered Completes
CHECK_DEADLOCK FALSE
