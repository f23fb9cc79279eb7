-------------------------- MODULE Informer_proofs --------------------------
(* The informer's store follows what the Reflector sees, for any number of *)
(* keys, revisions and relists, when the queue has no compressor.          *)
EXTENDS Informer, DeltaFIFO_proofs

NoCompressor == \A ds \in Deltas : Compress(ds) = ds
-----------------------------------------------------------------------------
(* Lemmas about deltas *)

\* A sequence that is not empty has a last element.
LEMMA LastOf ==
  ASSUME NEW ds \in Deltas, ds # <<>>
  PROVE  /\ Len(ds) \in Nat \ {0} /\ Len(ds) \in 1..Len(ds)
         /\ Last(ds) = ds[Len(ds)] /\ Last(ds) \in Delta
BY DEF Last, Deltas

\* Without a compressor nothing that is queued disappears, and the newest delta
\* has the effect of the one just queued, unless that one is an ignored Sync.
LEMMA QueuedEffect ==
  ASSUME NoCompressor, NEW ds \in Deltas, NEW d \in Delta
  PROVE  /\ Queued(ds, d) \in Deltas
         /\ Queued(ds, d) # <<>>
         /\ Effect(Last(Queued(ds, d))) =
              IF d.type = "Sync" /\ WillObjectBeDeleted(ds) THEN NoObj ELSE Effect(d)
<1>1. CASE d.type = "Sync" /\ WillObjectBeDeleted(ds)
  <2>1. Queued(ds, d) = ds /\ ds # <<>> /\ Last(ds).type = "Deleted"
    BY <1>1, Zenon DEF Queued, WillObjectBeDeleted
  <2> QED
    BY <1>1, <2>1, Zenon DEF Effect
<1>2. CASE ~(d.type = "Sync" /\ WillObjectBeDeleted(ds))
  <2> DEFINE a == Append(ds, d)
             n == Len(ds) + 1
  <2>1. /\ a \in Deltas /\ a # <<>> /\ Len(a) = n /\ n \in Nat \ {0} /\ a[n] = d
        /\ \A i \in 1..Len(ds) : a[i] = ds[i]
    BY DEF Deltas
  <2>2. DedupDeltas(a) \in Deltas
    BY <2>1, DedupType, Zenon
  <2>3. Queued(ds, d) = DedupDeltas(a)
    BY <1>2, <2>1, <2>2, Zenon DEF Queued, NoCompressor
  <2> HIDE DEF a, n
  <2>4. CASE n >= 2 /\ IsDeletionDup(a[n], a[n-1])
    <3> DEFINE t == TheDeletion(a[n], a[n-1])
               p == SubSeq(a, 1, n-2)
    <3>1. DedupDeltas(a) = Append(p, t)
      BY <2>1, <2>4, Zenon DEF DedupDeltas
    <3>2. t \in Delta /\ t.type = "Deleted" /\ d.type = "Deleted"
      <4>1. a[n] \in Delta /\ a[n-1] \in Delta
        BY <2>1, <2>4 DEF Deltas
      <4> QED
        BY <4>1, <2>1, <2>4, Zenon DEF TheDeletion, IsDeletionDup
    <3>3. p \in Seq(Delta)
      BY <2>1, <2>4 DEF Deltas
    <3> HIDE DEF t, p
    <3>4. Append(p, t) # <<>> /\ Last(Append(p, t)) = t
      BY <3>2, <3>3, AppendProperties DEF Last
    <3> QED
      BY <1>2, <2>2, <2>3, <3>1, <3>2, <3>4, Zenon DEF Effect
  <2>5. CASE ~(n >= 2 /\ IsDeletionDup(a[n], a[n-1]))
    <3>1. DedupDeltas(a) = a
      BY <2>1, <2>5, Zenon DEF DedupDeltas
    <3>2. Last(a) = d
      BY <2>1, Zenon DEF Last
    <3> QED
      BY <1>2, <2>1, <2>3, <3>1, <3>2, Zenon
  <2> QED
    BY <2>4, <2>5, Zenon
<1> QED
  BY <1>1, <1>2, Zenon
-----------------------------------------------------------------------------
(* The state of the Reflector and of the lock *)

\* Consecutive revisions differ in one key, so a watch event tells all.
OneChange ==
  \A r \in 1..Len(hist) : r + 1 <= Len(hist) =>
    \E k \in Keys : \A j \in Keys : j # k => hist[r+1][j] = hist[r][j]

\* ListAndWatch has a resourceVersion once it has listed, and watches from the
\* last one it synced.
Versioned ==
  /\ phase # "list" => resourceVersion # 0
  /\ phase = "watch" => resourceVersion = lastSyncResourceVersion

\* While process runs, nothing is queued for the key it handles.
PopsAlone == ~LockFree => items[popKey] = <<>>

\* Before the first list is synced nothing is queued, known or being popped.
Untouched ==
  ~populated => /\ lastSyncResourceVersion = 0
                /\ queue = <<>> /\ \A k \in Keys : items[k] = <<>> /\ known[k] = NoObj
                /\ LockFree

PipelineInv ==
  /\ FifoInv /\ InformerTypeOK
  /\ hasKnown = TRUE
  /\ OneChange /\ Versioned /\ PopsAlone /\ Untouched

\* Appending a revision leaves the earlier ones alone.
LEMMA HistoryGrows ==
  ASSUME PipelineInv, NEW k \in Keys, ServerChange(k)
  PROVE  /\ hist' \in Seq([Keys -> Nat]) /\ Len(hist') = Len(hist) + 1
         /\ Len(hist') \in 1..MaxRevision
         /\ \A r \in 1..Len(hist) : hist'[r] = hist[r]
         /\ \A j \in Keys : j # k => hist'[Len(hist)+1][j] = hist[Len(hist)][j]
<1>1. /\ hist \in Seq([Keys -> Nat]) /\ Len(hist) \in 1..MaxRevision
      /\ MaxRevision \in Nat
  BY LimitsAssumption, Zenon DEF PipelineInv, InformerTypeOK
<1>2. PICK o \in {NoObj, Len(hist) + 1} : hist' = Append(hist, [Server EXCEPT ![k] = o])
  BY Zenon DEF ServerChange
<1>3. o \in Nat /\ Server \in [Keys -> Nat] /\ Server = hist[Len(hist)]
  BY <1>1, <1>2 DEF Server, NoObj
<1> DEFINE new == [Server EXCEPT ![k] = o]
<1>4. new \in [Keys -> Nat] /\ \A j \in Keys : j # k => new[j] = Server[j]
  BY <1>3, Zenon
<1> HIDE DEF new
<1>5. hist' = Append(hist, new)
  BY <1>2, Zenon DEF new
<1>6. /\ hist' \in Seq([Keys -> Nat]) /\ Len(hist') = Len(hist) + 1
      /\ \A r \in 1..Len(hist) : hist'[r] = hist[r]
      /\ hist'[Len(hist)+1] = new
  BY <1>1, <1>4, <1>5, AppendProperties
<1>7. Len(hist) + 1 <= MaxRevision
  BY Zenon DEF ServerChange
<1> QED
  BY <1>1, <1>3, <1>4, <1>6, <1>7

\* Every step keeps the queue's invariant.
LEMMA FifoInvInformer ==
  ASSUME NoCompressor, PipelineInv, [Next]_informerVars
  PROVE  FifoInv'
<1>1. CompressorTyped
  BY Zenon DEF NoCompressor, CompressorTyped
<1>2. UNCHANGED vars => FifoInv'
  BY <1>1, FifoInvNext, Zenon DEF PipelineInv
<1>3. ASSUME NEW k \in Keys, ServerChange(k) PROVE FifoInv'
  BY <1>2, <1>3, Zenon DEF ServerChange
<1>4. CASE List \/ WatchError
  BY <1>2, <1>4, Zenon DEF List, WatchError
<1>5. CASE SyncWith
  <2>1. hist[resourceVersion] \in [Keys -> Nat]
    BY <1>5 DEF PipelineInv, InformerTypeOK, Versioned, SyncWith
  <2> QED
    BY <1>1, <1>5, <2>1, ReplaceInv, Zenon DEF SyncWith, PipelineInv
<1>6. CASE WatchEvent
  <2>1. PICK k \in Keys :
          \/ Add(k, hist[resourceVersion+1][k])
          \/ Update(k, hist[resourceVersion+1][k])
          \/ Delete(k, hist[resourceVersion][k])
    BY <1>6, Zenon DEF WatchEvent
  <2>2. /\ resourceVersion \in 1..Len(hist) /\ resourceVersion + 1 \in 1..Len(hist)
        /\ hist \in Seq([Keys -> Nat])
    BY <1>6 DEF WatchEvent, PipelineInv, InformerTypeOK, Versioned
  <2>3. hist[resourceVersion+1][k] \in Nat /\ hist[resourceVersion][k] \in Nat
    BY <2>2
  <2> QED
    BY <1>1, <2>1, <2>3, ChangeInv, Zenon DEF PipelineInv
<1>7. CASE ResyncTick
  BY <1>1, <1>7, ResyncInv, Zenon DEF ResyncTick, PipelineInv
<1>8. CASE ControllerPop
  BY <1>8, PopInv, Zenon DEF ControllerPop, PipelineInv
<1>9. CASE HandleDelta
  BY <1>9, ProcessDeltaInv, Zenon DEF HandleDelta, PipelineInv
<1>10. CASE UNCHANGED informerVars
  BY <1>2, <1>10, Zenon DEF informerVars
<1> QED
  BY <1>3, <1>4, <1>5, <1>6, <1>7, <1>8, <1>9, <1>10, Zenon DEF Next

\* Every step leaves the lock held with nothing queued for the popped key.
LEMMA PopsAloneNext ==
  ASSUME PipelineInv, [Next]_informerVars
  PROVE  PopsAlone' /\ hasKnown' = TRUE
<1> USE DEF PipelineInv, PopsAlone
<1>1. UNCHANGED vars => PopsAlone' /\ hasKnown' = TRUE
  BY Zenon DEF vars, fifoVars, popVars, LockFree
<1>2. ASSUME NEW k \in Keys, ServerChange(k) PROVE PopsAlone' /\ hasKnown' = TRUE
  BY <1>1, <1>2, Zenon DEF ServerChange
<1>3. CASE List \/ WatchError
  BY <1>1, <1>3, Zenon DEF List, WatchError
<1>4. CASE SyncWith
  BY <1>4, Zenon DEF SyncWith, Replace, LockFree, popVars
<1>5. CASE WatchEvent
  <2>1. LockFree /\ UNCHANGED popVars /\ UNCHANGED hasKnown
    BY <1>5, Zenon DEF WatchEvent, Add, Update, Delete
  <2> QED
    BY <2>1, Zenon DEF LockFree, popVars
<1>6. CASE ResyncTick
  BY <1>6, Zenon DEF ResyncTick, Resync, LockFree, popVars
<1>7. CASE ControllerPop
  BY <1>7 DEF ControllerPop, Pop, FifoInv, TypeOK
<1>8. CASE HandleDelta
  BY <1>8, Zenon DEF HandleDelta, ProcessDelta, LockFree, fifoVars
<1>9. CASE UNCHANGED informerVars
  BY <1>1, <1>9, Zenon DEF informerVars
<1> QED
  BY <1>2, <1>3, <1>4, <1>5, <1>6, <1>7, <1>8, <1>9, Zenon DEF Next

\* Until the first SyncWith or watch event, no step queues or stores anything: the
\* resync waits for the first sync, and there is nothing to pop.
LEMMA UntouchedNext ==
  ASSUME PipelineInv, [Next]_informerVars
  PROVE  Untouched'
<1>1. Untouched
  BY Zenon DEF PipelineInv
<1>2. ASSUME UNCHANGED <<vars, lastSyncResourceVersion>> PROVE Untouched'
  BY <1>1, <1>2, Zenon DEF vars, fifoVars, popVars, Untouched, LockFree
<1>3. CASE (\E k \in Keys : ServerChange(k)) \/ List \/ WatchError \/ UNCHANGED informerVars
  BY <1>2, <1>3, Zenon DEF ServerChange, List, WatchError, informerVars, reflectorVars
<1>4. CASE SyncWith \/ WatchEvent
  <2>1. populated' = TRUE
    BY <1>4, Zenon DEF SyncWith, Replace, WatchEvent, Add, Update, Delete
  <2> QED BY <2>1, Zenon DEF Untouched
<1>5. CASE ResyncTick
  <2>1. populated /\ populated' = populated
    BY <1>1, <1>5, Zenon DEF Untouched, ResyncTick, Resync
  <2> QED BY <2>1, Zenon DEF Untouched
<1>6. CASE ControllerPop
  <2>1. populated
    BY <1>1, <1>6 DEF Untouched, ControllerPop, Pop
  <2>2. populated' = populated
    BY <1>6, Zenon DEF ControllerPop, Pop
  <2> QED BY <2>1, <2>2, Zenon DEF Untouched
<1>7. CASE HandleDelta
  <2>1. populated /\ populated' = populated
    BY <1>1, <1>7, Zenon DEF Untouched, HandleDelta, ProcessDelta, fifoVars
  <2> QED BY <2>1, Zenon DEF Untouched
<1> QED
  BY <1>3, <1>4, <1>5, <1>6, <1>7, Zenon DEF Next

\* Every step keeps the Reflector's versions within the server's history.
LEMMA ReflectorNext ==
  ASSUME PipelineInv, [Next]_informerVars
  PROVE  InformerTypeOK' /\ OneChange' /\ Versioned'
<1> DEFINE Goal == InformerTypeOK' /\ OneChange' /\ Versioned'
<1>0. /\ hist \in Seq([Keys -> Nat]) /\ Len(hist) \in 1..MaxRevision
      /\ MaxRevision \in Nat /\ MaxRelists \in Nat
      /\ InformerTypeOK /\ OneChange /\ Versioned
  BY LimitsAssumption, Zenon DEF PipelineInv, InformerTypeOK
<1>1. ASSUME NEW k \in Keys, ServerChange(k) PROVE Goal
  <2>1. UNCHANGED reflectorVars
    BY <1>1, Zenon DEF ServerChange
  <2>2. /\ hist' \in Seq([Keys -> Nat]) /\ Len(hist') = Len(hist) + 1
        /\ Len(hist') \in 1..MaxRevision
        /\ \A r \in 1..Len(hist) : hist'[r] = hist[r]
        /\ \A j \in Keys : j # k => hist'[Len(hist)+1][j] = hist[Len(hist)][j]
    BY <1>1, HistoryGrows, Zenon
  <2>3. InformerTypeOK'
    BY <1>0, <2>1, <2>2 DEF InformerTypeOK, reflectorVars
  <2>4. OneChange'
    <3> SUFFICES ASSUME NEW r \in 1..Len(hist'), r + 1 <= Len(hist')
                 PROVE  \E x \in Keys : \A j \in Keys : j # x => hist'[r+1][j] = hist'[r][j]
      BY Zenon DEF OneChange
    <3>1. CASE r = Len(hist)
      BY <3>1, <1>0, <2>2
    <3>2. CASE r # Len(hist)
      <4>1. r \in 1..Len(hist) /\ r + 1 \in 1..Len(hist)
        BY <3>2, <1>0, <2>2
      <4>2. PICK x \in Keys : \A j \in Keys : j # x => hist[r+1][j] = hist[r][j]
        BY <4>1, <1>0 DEF OneChange
      <4> QED
        BY <4>1, <4>2, <2>2, Zenon
    <3> QED
      BY <3>1, <3>2, Zenon
  <2> QED
    BY <2>1, <2>3, <2>4, <1>0, Zenon DEF Versioned, reflectorVars
<1>2. ASSUME UNCHANGED <<hist, reflectorVars>> PROVE Goal
  BY <1>0, <1>2, Zenon DEF InformerTypeOK, OneChange, Versioned, reflectorVars
<1>3. ASSUME UNCHANGED hist, InformerTypeOK', Versioned' PROVE Goal
  BY <1>0, <1>3, Zenon DEF OneChange
<1>4. CASE List
  BY <1>0, <1>3, <1>4 DEF List, InformerTypeOK, Versioned
<1>5. CASE SyncWith
  <2>1. Overlooked(hist[resourceVersion]) \subseteq Keys
    BY Zenon DEF Overlooked
  <2> QED
    BY <1>0, <1>3, <1>5, <2>1, Zenon DEF SyncWith, InformerTypeOK, Versioned
<1>6. CASE WatchEvent
  <2>1. /\ UNCHANGED <<hist, phase, relists, oldestList>>
        /\ resourceVersion' = resourceVersion + 1
        /\ lastSyncResourceVersion' = resourceVersion + 1
        /\ resourceVersion + 1 <= Len(hist)
        /\ overlooked' \subseteq overlooked
    BY <1>6, Zenon DEF WatchEvent
  <2> QED
    BY <1>0, <1>3, <2>1 DEF InformerTypeOK, Versioned
<1>7. CASE WatchError
  BY <1>0, <1>3, <1>7 DEF WatchError, InformerTypeOK, Versioned
<1>8. CASE ResyncTick \/ ControllerPop \/ HandleDelta
  BY <1>2, <1>8, Zenon DEF ResyncTick, ControllerPop, HandleDelta
<1>9. CASE UNCHANGED informerVars
  BY <1>2, <1>9, Zenon DEF informerVars
<1> QED
  BY <1>1, <1>4, <1>5, <1>6, <1>7, <1>8, <1>9, Zenon DEF Next

\* The four lemmas together.
LEMMA PipelineInvariant ==
  ASSUME NoCompressor
  PROVE  Spec => []PipelineInv
<1>1. Init => PipelineInv
  <2> SUFFICES ASSUME Init PROVE PipelineInv
    OBVIOUS
  <2>1. FifoInv
    <3>1. [k \in Keys |-> NoObj] \in [Keys -> Nat]
      BY DEF NoObj
    <3> QED BY <3>1, FifoInitInv, Zenon DEF Init
  <2>2. PICK st \in [Keys -> {NoObj, 1}] : hist = <<st>>
    BY Zenon DEF Init
  <2>3. st \in [Keys -> Nat]
    BY DEF NoObj
  <2>4. hist \in Seq([Keys -> Nat]) /\ Len(hist) = 1
    BY <2>2, <2>3
  <2>5. InformerTypeOK /\ OneChange
    BY <2>4, LimitsAssumption DEF Init, InformerTypeOK, OneChange
  <2>6. Untouched
    BY Zenon DEF Init, FifoInit, Untouched, LockFree
  <2> QED
    BY <2>1, <2>5, <2>6, Zenon DEF Init, FifoInit, PipelineInv, Versioned, PopsAlone, LockFree
<1>2. PipelineInv /\ [Next]_informerVars => PipelineInv'
  BY FifoInvInformer, PopsAloneNext, UntouchedNext, ReflectorNext, Zenon DEF PipelineInv
<1> QED
  BY <1>1, <1>2, PTL DEF Spec

\* The Reflector's state keeps its type, and its versions never run ahead of
\* the server's history.
THEOREM InformerTypeCorrect ==
  ASSUME NoCompressor
  PROVE  Spec => []InformerTypeOK
<1>1. PipelineInv => InformerTypeOK
  BY Zenon DEF PipelineInv
<1> QED
  BY <1>1, PipelineInvariant, PTL
-----------------------------------------------------------------------------
(* The queue and the items hold the same keys *)

\* Appending, once each, exactly the keys that enter items keeps the match.
LEMMA AppendedOnce ==
  ASSUME FifoInv, QueueMatchesItems,
         NEW r \in Seq(Keys), queue' = queue \o r, IsInjective(r),
         \A k \in Keys : k \in Range(r) <=> items[k] = <<>> /\ items'[k] # <<>>,
         \A k \in Keys : items[k] # <<>> => items'[k] # <<>>
  PROVE  QueueMatchesItems'
<1>1. queue \in Seq(Keys)
  BY Zenon DEF FifoInv, TypeOK
<1>3. Range(queue') = Range(queue) \cup Range(r)
  BY <1>1, RangeConcatenation, ZenonT(40)
<1>4. \A k \in Keys : items'[k] # <<>> <=> k \in Range(queue')
  BY <1>3, Zenon DEF QueueMatchesItems
<1>5. Range(queue) \cap Range(r) = {}
  <2>1. Range(queue) \subseteq Keys
    BY <1>1 DEF Range
  <2> QED
    BY <2>1, Zenon DEF QueueMatchesItems
<1>6. IsInjective(queue')
  BY <1>1, <1>5, DistinctConcat, Zenon DEF QueueMatchesItems
<1> QED
  BY <1>4, <1>6, Zenon DEF QueueMatchesItems

\* queueActionLocked puts the key in the queue exactly when it enters items.
LEMMA QueueActionMatches ==
  ASSUME NoCompressor, FifoInv, QueueMatchesItems, NEW k \in Keys, NEW d \in Delta,
         queueActionLocked(k, d)
  PROVE  QueueMatchesItems'
<1> DEFINE new == Queued(items[k], d)
<1>1. items \in [Keys -> Deltas] /\ queue \in Seq(Keys)
  BY Zenon DEF FifoInv, TypeOK
<1>2. new # <<>>
  BY <1>1, QueuedEffect, Zenon
<1>3. /\ items' = [items EXCEPT ![k] = new]
      /\ queue' = IF items[k] = <<>> THEN Append(queue, k) ELSE queue
  BY <1>2, Zenon DEF queueActionLocked
<1> HIDE DEF new
<1>4. CASE items[k] = <<>>
  <2>1. /\ <<k>> \in Seq(Keys) /\ queue' = queue \o <<k>>
        /\ IsInjective(<<k>>) /\ Range(<<k>>) = {k}
    BY <1>1, <1>3, <1>4 DEF IsInjective, Range
  <2> QED
    BY <2>1, <1>1, <1>2, <1>3, <1>4, AppendedOnce, Zenon
<1>5. CASE items[k] # <<>>
  BY <1>1, <1>2, <1>3, <1>5, Zenon DEF QueueMatchesItems
<1> QED
  BY <1>4, <1>5, Zenon

\* Without a compressor Replace empties no key's deltas.
LEMMA ReplacedKeys ==
  ASSUME NoCompressor, FifoInv, hasKnown, NEW list \in [Keys -> Nat], NEW k \in Keys
  PROVE  /\ items[k] \in Deltas
         /\ k \in Listed(list) =>
              /\ list[k] # NoObj /\ k \notin Gone(list)
              /\ MkDelta("Sync", list[k]) \in Delta
              /\ ReplacedItems(list)[k] = Queued(items[k], MkDelta("Sync", list[k]))
              /\ ReplacedItems(list)[k] # <<>>
         /\ k \in Gone(list) =>
              /\ list[k] = NoObj /\ known[k] # NoObj /\ k \notin Listed(list)
              /\ DeletedFinalStateUnknown(known[k]) \in Delta
              /\ ReplacedItems(list)[k] = Queued(items[k], DeletedFinalStateUnknown(known[k]))
              /\ ReplacedItems(list)[k] # <<>>
         /\ k \notin Listed(list) /\ k \notin Gone(list) =>
              /\ list[k] = NoObj /\ known[k] = NoObj
              /\ ReplacedItems(list)[k] = items[k]
<1>1. items[k] \in Deltas /\ known[k] \in Nat
  BY Zenon DEF FifoInv, TypeOK
<1>2. MkDelta("Sync", list[k]) \in Delta /\ DeletedFinalStateUnknown(known[k]) \in Delta
  BY <1>1, DeltaType, Zenon
<1>3. /\ Queued(items[k], MkDelta("Sync", list[k])) # <<>>
      /\ Queued(items[k], DeletedFinalStateUnknown(known[k])) # <<>>
  BY <1>1, <1>2, QueuedEffect, Zenon
<1> QED
  BY <1>1, <1>2, <1>3, Zenon DEF ReplacedItems, Listed, Gone, LastKnown

\* Replace appends the listed and then the deleted keys that enter items.
LEMMA ReplaceMatches ==
  ASSUME NoCompressor, FifoInv, hasKnown, QueueMatchesItems,
         NEW list \in [Keys -> Nat], Replace(list)
  PROVE  QueueMatchesItems'
<1> DEFINE new == ReplacedItems(list)
           A == Fresh(Listed(list), new)
           B == Fresh(Gone(list), new)
<1>1. PICK l \in Orders(A), d \in Orders(B) : queue' = queue \o (l \o d)
  BY Zenon DEF Replace
<1>2. items' = new
  BY Zenon DEF Replace
<1>3. Listed(list) \in SUBSET Keys /\ Gone(list) \in SUBSET Keys
  BY Zenon DEF Listed, Gone
<1>4. /\ l \in Seq(Keys) /\ Range(l) = A /\ d \in Seq(Keys) /\ Range(d) = B
      /\ IsInjective(l) /\ IsInjective(d)
  BY <1>3, FreshOrder, Zenon
<1>5. A \cap B = {}
  BY Zenon DEF Fresh, Listed, Gone
<1>6. \A k \in Keys : k \in A \cup B <=> items[k] = <<>> /\ new[k] # <<>>
  <2> SUFFICES ASSUME NEW k \in Keys PROVE k \in A \cup B <=> items[k] = <<>> /\ new[k] # <<>>
    OBVIOUS
  <2>1. k \notin Listed(list) /\ k \notin Gone(list) => new[k] = items[k]
    BY ReplacedKeys, Zenon
  <2> QED
    BY <2>1, Zenon DEF Fresh
<1>7. \A k \in Keys : items[k] # <<>> => new[k] # <<>>
  BY ReplacedKeys, Zenon
<1> HIDE DEF new, A, B
<1>8. l \o d \in Seq(Keys) /\ Range(l \o d) = A \cup B
  BY <1>4, ConcatProperties, RangeConcatenation
<1>9. IsInjective(l \o d)
  BY <1>4, <1>5, DistinctConcat, Zenon
<1> QED
  BY <1>1, <1>2, <1>6, <1>7, <1>8, <1>9, AppendedOnce, Zenon

\* Resync appends the known keys that were not queued.
LEMMA ResyncMatches ==
  ASSUME NoCompressor, FifoInv, QueueMatchesItems, Resync
  PROVE  QueueMatchesItems'
<1> DEFINE new == ResyncedItems
<1>1. PICK l \in Orders(Fresh(Keys, new)) : queue' = queue \o l
  BY Zenon DEF Resync
<1>2. l \in Seq(Keys) /\ Range(l) = Fresh(Keys, new) /\ IsInjective(l)
  BY FreshOrder, Zenon
<1>3. items' = new /\ \A k \in Keys : items[k] # <<>> => new[k] = items[k]
  BY Zenon DEF Resync, ResyncedItems
<1>4. \A k \in Keys : k \in Range(l) <=> items[k] = <<>> /\ items'[k] # <<>>
  BY <1>2, <1>3, Zenon DEF Fresh
<1> HIDE DEF new
<1> QED
  BY <1>1, <1>2, <1>3, <1>4, AppendedOnce, Zenon

\* The id at the front has deltas, so Pop takes it and no other.
LEMMA PopMatches ==
  ASSUME FifoInv, QueueMatchesItems, Pop
  PROVE  /\ QueueMatchesItems'
         /\ \E k \in Keys : /\ items[k] # <<>> /\ popKey' = k /\ item' = items[k]
                           /\ next' = 1 /\ items' = [items EXCEPT ![k] = <<>>]
<1>1. PICK n \in 1..Len(queue) :
        /\ \A i \in 1..n-1 : items[queue[i]] = <<>>
        /\ items[queue[n]] # <<>>
        /\ popKey' = queue[n]
        /\ item' = items[queue[n]]
        /\ next' = 1
        /\ items' = [items EXCEPT ![queue[n]] = <<>>]
        /\ queue' = SubSeq(queue, n+1, Len(queue))
  BY Zenon DEF Pop
<1>2. queue \in Seq(Keys) /\ items \in [Keys -> Deltas] /\ queue[n] \in Keys /\ queue[1] \in Keys
  BY <1>1 DEF FifoInv, TypeOK
<1>3. n = 1
  <2>1. queue[1] \in Range(queue)
    BY <1>1, <1>2 DEF Range
  <2>2. items[queue[1]] # <<>>
    BY <2>1, <1>2, Zenon DEF QueueMatchesItems
  <2> QED
    BY <2>2, <1>1, <1>2
<1>4. /\ queue' \in Seq(Keys) /\ Len(queue') = Len(queue) - 1
      /\ \A i \in 1..Len(queue) : i > 1 => queue'[i-1] = queue[i]
  BY <1>1, <1>2, <1>3, TakenIds, Zenon
<1>5. \A i \in 1..Len(queue') : i + 1 \in 1..Len(queue) /\ queue'[i] = queue[i+1]
  BY <1>2, <1>4
<1>6. IsInjective(queue')
  <2> SUFFICES ASSUME NEW i \in 1..Len(queue'), NEW j \in 1..Len(queue'), queue'[i] = queue'[j]
               PROVE  i = j
    BY <1>4 DEF IsInjective
  <2>1. i + 1 = j + 1
    BY <1>2, <1>5 DEF QueueMatchesItems, IsInjective
  <2> QED
    BY <2>1, <1>4
<1>7. \A k \in Keys : items'[k] # <<>> <=> k \in Range(queue')
  <2> SUFFICES ASSUME NEW k \in Keys PROVE items'[k] # <<>> <=> k \in Range(queue')
    OBVIOUS
  <2>1. CASE k = queue[1]
    <3>1. items'[k] = <<>>
      BY <2>1, <1>1, <1>2, <1>3, Zenon
    <3>2. ASSUME NEW i \in 1..Len(queue'), queue'[i] = k PROVE FALSE
      <4>1. i + 1 = 1
        BY <2>1, <3>2, <1>1, <1>2, <1>5 DEF QueueMatchesItems, IsInjective
      <4> QED
        BY <4>1
    <3> QED
      BY <3>1, <3>2, <1>4 DEF Range
  <2>2. CASE k # queue[1]
    <3>1. items'[k] = items[k]
      BY <2>2, <1>1, <1>2, <1>3, Zenon
    <3>2. k \in Range(queue) => k \in Range(queue')
      <4> SUFFICES ASSUME NEW i \in 1..Len(queue), queue[i] = k PROVE k \in Range(queue')
        BY <1>2 DEF Range
      <4>1. i > 1
        BY <2>2, <1>2
      <4>2. i - 1 \in 1..Len(queue') /\ queue'[i-1] = k
        BY <4>1, <1>2, <1>4
      <4> QED
        BY <4>2, <1>4 DEF Range
    <3>3. k \in Range(queue') => k \in Range(queue)
      <4> SUFFICES ASSUME NEW i \in 1..Len(queue'), queue'[i] = k PROVE k \in Range(queue)
        BY <1>4 DEF Range
      <4>1. i + 1 \in DOMAIN queue /\ queue[i+1] = k
        BY <1>2, <1>5
      <4> QED
        BY <4>1, Zenon DEF Range
    <3> QED
      BY <3>1, <3>2, <3>3, Zenon DEF QueueMatchesItems
  <2> QED
    BY <2>1, <2>2, Zenon
<1> QED
  BY <1>1, <1>2, <1>6, <1>7, Zenon DEF QueueMatchesItems

\* What a watch event does: it queues a delta with the key's new state, or
\* drops the deletion of an object that is neither known nor queued.
WatchedChange(k, d) ==
  /\ \A j \in Keys : j # k => hist[resourceVersion+1][j] = hist[resourceVersion][j]
  /\ overlooked' = overlooked \ {k}
  /\ \/ /\ d.type # "Sync" /\ Effect(d) = hist[resourceVersion+1][k]
        /\ queueActionLocked(k, d)
     \/ /\ items[k] = <<>> /\ known[k] = NoObj /\ hist[resourceVersion+1][k] = NoObj
        /\ UNCHANGED <<items, queue>>

LEMMA WatchEventChange ==
  ASSUME PipelineInv, WatchEvent
  PROVE  /\ resourceVersion # 0 /\ resourceVersion = lastSyncResourceVersion
         /\ resourceVersion + 1 \in 1..Len(hist) /\ resourceVersion \in 1..Len(hist)
         /\ lastSyncResourceVersion' = resourceVersion + 1
         /\ LockFree /\ UNCHANGED <<hist, popVars, known>>
         /\ \E k \in Keys, d \in Delta : WatchedChange(k, d)
<1>1. /\ resourceVersion \in 1..Len(hist) /\ resourceVersion + 1 \in 1..Len(hist)
      /\ hist \in Seq([Keys -> Nat]) /\ resourceVersion = lastSyncResourceVersion
  BY DEF WatchEvent, PipelineInv, InformerTypeOK, Versioned
<1> DEFINE old(k) == hist[resourceVersion][k]
           new(k) == hist[resourceVersion+1][k]
<1>2. PICK k \in Keys :
        /\ old(k) # new(k)
        /\ \/ old(k) = NoObj /\ Add(k, new(k))
           \/ old(k) # NoObj /\ new(k) # NoObj /\ Update(k, new(k))
           \/ new(k) = NoObj /\ Delete(k, old(k))
        /\ overlooked' = overlooked \ {k}
  BY Zenon DEF WatchEvent
<1>3. \A j \in Keys : j # k => new(j) = old(j)
  <2>1. PICK x \in Keys : \A j \in Keys : j # x => new(j) = old(j)
    BY <1>1 DEF PipelineInv, OneChange
  <2> QED
    BY <2>1, <1>2, Zenon
<1>4. new(k) \in Nat /\ old(k) \in Nat
  BY <1>1
<1> HIDE DEF old, new
<1>5. \E d \in Delta : \/ d.type # "Sync" /\ Effect(d) = new(k) /\ queueActionLocked(k, d)
                       \/ /\ items[k] = <<>> /\ known[k] = NoObj /\ new(k) = NoObj
                          /\ UNCHANGED <<items, queue>>
  <2>1. CASE Add(k, new(k))
    <3>1. MkDelta("Added", new(k)) \in Delta
      BY <1>4, DeltaType, Zenon
    <3> QED
      BY <2>1, <3>1, Zenon DEF Add, MkDelta, Effect
  <2>2. CASE Update(k, new(k))
    <3>1. MkDelta("Updated", new(k)) \in Delta
      BY <1>4, DeltaType, Zenon
    <3> QED
      BY <2>2, <3>1, Zenon DEF Update, MkDelta, Effect
  <2>3. CASE new(k) = NoObj /\ Delete(k, old(k))
    <3>1. MkDelta("Deleted", old(k)) \in Delta
      BY <1>4, DeltaType, Zenon
    <3>2. hasKnown
      BY Zenon DEF PipelineInv
    <3>3. CASE items[k] = <<>> /\ known[k] = NoObj
      <4>1. UNCHANGED <<items, queue>>
        BY <2>3, <3>2, <3>3, Zenon DEF Delete
      <4> QED
        BY <2>3, <3>1, <3>3, <4>1, Zenon
    <3>4. CASE ~(items[k] = <<>> /\ known[k] = NoObj)
      <4>1. queueActionLocked(k, MkDelta("Deleted", old(k)))
        BY <2>3, <3>2, <3>4, Zenon DEF Delete
      <4> QED
        BY <2>3, <3>1, <4>1, Zenon DEF MkDelta, Effect
    <3> QED
      BY <3>3, <3>4, Zenon
  <2> QED
    BY <1>2, <2>1, <2>2, <2>3, Zenon
<1>6. LockFree /\ UNCHANGED <<popVars, known>>
  BY <1>2, Zenon DEF Add, Update, Delete
<1>7. \E d \in Delta : WatchedChange(k, d)
  BY <1>2, <1>3, <1>5, Zenon DEF WatchedChange, old, new
<1> QED
  BY <1>1, <1>6, <1>7 DEF WatchEvent

\* Every step of the pipeline keeps the queue and the items matched.
LEMMA QueueMatchesNext ==
  ASSUME NoCompressor, PipelineInv, QueueMatchesItems, [Next]_informerVars
  PROVE  QueueMatchesItems'
<1>0. FifoInv /\ hasKnown = TRUE
  BY Zenon DEF PipelineInv
<1>1. UNCHANGED <<queue, items>> => QueueMatchesItems'
  BY Zenon DEF QueueMatchesItems
<1>2. ASSUME NEW k \in Keys, ServerChange(k) PROVE QueueMatchesItems'
  BY <1>1, <1>2, Zenon DEF ServerChange, vars, fifoVars
<1>3. CASE List \/ WatchError \/ HandleDelta \/ UNCHANGED informerVars
  BY <1>1, <1>3, Zenon DEF List, WatchError, HandleDelta, ProcessDelta, informerVars, vars, fifoVars
<1>4. CASE SyncWith
  <2>1. hist[resourceVersion] \in [Keys -> Nat]
    BY <1>4 DEF PipelineInv, InformerTypeOK, Versioned, SyncWith
  <2> QED
    BY <1>0, <1>4, <2>1, ReplaceMatches, Zenon DEF SyncWith
<1>5. CASE WatchEvent
  <2>1. PICK k \in Keys, d \in Delta : WatchedChange(k, d)
    BY <1>5, WatchEventChange, Zenon
  <2>2. queueActionLocked(k, d) \/ UNCHANGED <<items, queue>>
    BY <2>1, Zenon DEF WatchedChange
  <2> QED
    BY <1>0, <1>1, <2>2, QueueActionMatches, Zenon
<1>6. CASE ResyncTick
  BY <1>0, <1>6, ResyncMatches, Zenon DEF ResyncTick
<1>7. CASE ControllerPop
  BY <1>0, <1>7, PopMatches, Zenon DEF ControllerPop
<1> QED
  BY <1>2, <1>3, <1>4, <1>5, <1>6, <1>7, Zenon DEF Next

\* The comment on DeltaFIFO.items holds of every queue without a compressor:
\* the ids of the queue are the keys of items, each exactly once.
THEOREM QueueIsItems ==
  ASSUME NoCompressor
  PROVE  Spec => []QueueMatchesItems
<1>1. Init => QueueMatchesItems
  BY DEF Init, FifoInit, QueueMatchesItems, IsInjective, Range
<1>2. PipelineInv /\ QueueMatchesItems /\ [Next]_informerVars => QueueMatchesItems'
  BY QueueMatchesNext, Zenon
<1> QED
  BY <1>1, <1>2, PipelineInvariant, PTL DEF Spec
-----------------------------------------------------------------------------
(* What is in flight leads to what the Reflector has seen *)

\* What items and known say of a key that is not being processed.
Resting(k) == IF items[k] = <<>> THEN known[k] ELSE Effect(Last(items[k]))

\* A relist: each key not overlooked is led to its listed state.
LEMMA SyncWithOutcome ==
  ASSUME NoCompressor, PipelineInv, SyncWith, NEW k \in Keys \ overlooked'
  PROVE  Outcome(k)' = Reflected(k)'
<1> DEFINE list == hist[resourceVersion]
<1>1. /\ list \in [Keys -> Nat] /\ FifoInv /\ hasKnown = TRUE
      /\ resourceVersion \in 1..Len(hist)
  BY DEF PipelineInv, InformerTypeOK, Versioned, SyncWith
<1>2. /\ LockFree' /\ items' = ReplacedItems(list) /\ known' = known
      /\ k \notin Overlooked(list)
  BY Zenon DEF SyncWith, Replace, popVars, LockFree
<1>3. Reflected(k)' = list[k]
  BY <1>1 DEF SyncWith, Reflected
<1>4. Outcome(k)' = Resting(k)'
  BY <1>2, KeysAssumption, Zenon DEF Outcome, InFlight, Resting, LockFree
<1> HIDE DEF list
<1>5. CASE k \in Listed(list)
  <2>1. /\ list[k] # NoObj /\ MkDelta("Sync", list[k]) \in Delta /\ items[k] \in Deltas
        /\ items'[k] = Queued(items[k], MkDelta("Sync", list[k])) /\ items'[k] # <<>>
    BY <1>1, <1>2, <1>5, ReplacedKeys, Zenon
  <2>2. ~WillObjectBeDeleted(items[k])
    BY <1>2, <2>1, Zenon DEF Overlooked, WillObjectBeDeleted
  <2>3. Effect(Last(items'[k])) = Effect(MkDelta("Sync", list[k]))
    BY <2>1, <2>2, QueuedEffect, Zenon
  <2> QED
    BY <1>3, <1>4, <2>1, <2>3, Zenon DEF Resting, Effect, MkDelta
<1>6. CASE k \in Gone(list)
  <2>1. /\ list[k] = NoObj /\ DeletedFinalStateUnknown(known[k]) \in Delta /\ items[k] \in Deltas
        /\ items'[k] = Queued(items[k], DeletedFinalStateUnknown(known[k]))
        /\ items'[k] # <<>>
    BY <1>1, <1>2, <1>6, ReplacedKeys, Zenon
  <2>2. DeletedFinalStateUnknown(known[k]).type = "Deleted"
    BY Zenon DEF DeletedFinalStateUnknown
  <2>3. Effect(Last(items'[k])) = NoObj
    BY <2>1, <2>2, QueuedEffect, Zenon DEF Effect
  <2> QED
    BY <1>3, <1>4, <2>1, <2>3, Zenon DEF Resting
<1>7. CASE k \notin Listed(list) /\ k \notin Gone(list)
  <2>1. list[k] = NoObj /\ known[k] = NoObj /\ items'[k] = items[k]
    BY <1>1, <1>2, <1>7, ReplacedKeys, Zenon
  <2>2. items[k] # <<>> => WillObjectBeDeleted(items[k])
    BY <1>2, <2>1, Zenon DEF Overlooked
  <2> QED
    BY <1>2, <1>3, <1>4, <2>1, <2>2, Zenon DEF Resting, Effect, WillObjectBeDeleted
<1> QED
  BY <1>5, <1>6, <1>7, Zenon

\* A watch event: its key is led to the new state, the others stay.
LEMMA WatchEventOutcome ==
  ASSUME NoCompressor, PipelineInv, OutcomeIsReflected, WatchEvent,
         NEW j \in Keys \ overlooked'
  PROVE  Outcome(j)' = Reflected(j)'
<1>1. /\ resourceVersion # 0 /\ resourceVersion = lastSyncResourceVersion
      /\ resourceVersion + 1 \in 1..Len(hist) /\ resourceVersion \in 1..Len(hist)
      /\ lastSyncResourceVersion' = resourceVersion + 1
      /\ LockFree /\ UNCHANGED <<hist, popVars, known>>
  BY WatchEventChange, Zenon
<1>2. PICK k \in Keys, d \in Delta : WatchedChange(k, d)
  BY WatchEventChange, Zenon
<1>3. Outcome(j)' = Resting(j)' /\ Outcome(j) = Resting(j)
  BY <1>1, KeysAssumption, Zenon DEF Outcome, InFlight, Resting, LockFree, popVars
<1>4. Reflected(j)' = hist[resourceVersion+1][j] /\ Reflected(j) = hist[resourceVersion][j]
  BY <1>1 DEF Reflected
<1>5. items \in [Keys -> Deltas]
  BY Zenon DEF PipelineInv, FifoInv, TypeOK
<1>6. CASE j # k
  <2>1. items'[j] = items[j]
    BY <1>2, <1>5, <1>6, Zenon DEF WatchedChange, queueActionLocked
  <2>2. j \notin overlooked /\ hist[resourceVersion+1][j] = hist[resourceVersion][j]
    BY <1>2, <1>6, Zenon DEF WatchedChange
  <2> QED
    BY <1>1, <1>3, <1>4, <2>1, <2>2, Zenon DEF OutcomeIsReflected, Resting
<1>7. CASE j = k
  <2>1. CASE /\ d.type # "Sync" /\ Effect(d) = hist[resourceVersion+1][k]
             /\ queueActionLocked(k, d)
    <3>1. items'[k] = Queued(items[k], d)
      BY <1>5, <2>1, Zenon DEF queueActionLocked
    <3>2. items'[k] # <<>> /\ Effect(Last(items'[k])) = Effect(d)
      BY <1>5, <2>1, <3>1, QueuedEffect, Zenon
    <3> QED
      BY <1>3, <1>4, <1>7, <2>1, <3>2, Zenon DEF Resting
  <2>2. CASE /\ items[k] = <<>> /\ known[k] = NoObj /\ hist[resourceVersion+1][k] = NoObj
             /\ UNCHANGED <<items, queue>>
    BY <1>1, <1>3, <1>4, <1>7, <2>2, Zenon DEF Resting
  <2> QED
    BY <1>2, <2>1, <2>2, Zenon DEF WatchedChange
<1> QED
  BY <1>6, <1>7, Zenon

\* A resync queues what is already in the store.
LEMMA ResyncOutcome ==
  ASSUME NoCompressor, PipelineInv, Resync, NEW k \in Keys
  PROVE  Outcome(k)' = Outcome(k)
<1>1. known \in [Keys -> Nat] /\ <<>> \in Deltas
  BY DEF PipelineInv, FifoInv, TypeOK, Deltas
<1>2. LockFree /\ UNCHANGED <<popVars, known>> /\ items' = ResyncedItems
  BY Zenon DEF Resync
<1>3. Outcome(k)' = Resting(k)' /\ Outcome(k) = Resting(k)
  BY <1>2, KeysAssumption, Zenon DEF Outcome, InFlight, Resting, LockFree, popVars
<1>4. CASE known[k] # NoObj /\ items[k] = <<>>
  <2> DEFINE d == MkDelta("Sync", known[k])
  <2>1. items'[k] = Queued(<<>>, d)
    BY <1>2, <1>4, Zenon DEF ResyncedItems, PipelineInv
  <2>2. d \in Delta /\ Effect(d) = known[k] /\ ~WillObjectBeDeleted(<<>>)
    BY <1>1, DeltaType, Zenon DEF Effect, MkDelta, WillObjectBeDeleted
  <2>3. items'[k] # <<>> /\ Effect(Last(items'[k])) = known[k]
    BY <1>1, <2>1, <2>2, QueuedEffect, Zenon
  <2> QED
    BY <1>3, <1>4, <2>3, Zenon DEF Resting
<1>5. CASE ~(known[k] # NoObj /\ items[k] = <<>>)
  <2>1. items'[k] = items[k]
    BY <1>2, <1>5, Zenon DEF ResyncedItems
  <2> QED
    BY <1>2, <1>3, <2>1, Zenon DEF Resting
<1> QED
  BY <1>4, <1>5, Zenon

\* Pop moves a key's deltas from items to its own item, whole.
LEMMA PopInFlight ==
  ASSUME PipelineInv, QueueMatchesItems, Pop, NEW k \in Keys
  PROVE  InFlight(k)' = InFlight(k)
<1>1. PICK p \in Keys : /\ items[p] # <<>> /\ popKey' = p /\ item' = items[p]
                        /\ next' = 1 /\ items' = [items EXCEPT ![p] = <<>>]
  BY PopMatches, Zenon DEF PipelineInv
<1>2. items \in [Keys -> Seq(Delta)]
  BY Zenon DEF PipelineInv, FifoInv, TypeOK, Deltas
<1>3. InFlight(k) = items[k]
  BY KeysAssumption, Zenon DEF InFlight, Pop, LockFree
<1>4. CASE k = p
  <2>1. SubSeq(items[p], 1, Len(items[p])) = items[p]
    BY <1>2, SubSeqFull, Zenon
  <2> QED
    BY <1>1, <1>3, <1>4, <2>1, Zenon DEF InFlight
<1>5. CASE k # p
  BY <1>1, <1>2, <1>3, <1>5, Zenon DEF InFlight
<1> QED
  BY <1>4, <1>5, Zenon

\* Handling a delta moves the oldest one from what is in flight to the store.
LEMMA HandleInFlight ==
  ASSUME PipelineInv, ProcessDelta
  PROVE  \E p \in Keys :
           /\ p = popKey /\ item \in Seq(Delta) /\ next \in 1..Len(item)
           /\ InFlight(p) = SubSeq(item, next, Len(item))
           /\ InFlight(p)' = SubSeq(item, next+1, Len(item))
           /\ known' = [known EXCEPT ![p] = Effect(item[next])]
           /\ \A k \in Keys : k # p => InFlight(k)' = InFlight(k)
<1>1. popKey \in Keys /\ item \in Seq(Delta) /\ next \in 1..Len(item) /\ items[popKey] = <<>>
  BY Zenon DEF PipelineInv, FifoInv, TypeOK, ProcessDelta, LockFree, PopsAlone, Deltas
<1>2. PICK p \in Keys : p = popKey
  BY <1>1, Zenon
<1>3. items' = items /\ known' = [known EXCEPT ![p] = Effect(item[next])]
  BY <1>2, Zenon DEF ProcessDelta, PipelineInv, fifoVars
<1>4. InFlight(p) = SubSeq(item, next, Len(item)) /\ \A k \in Keys : k # p => InFlight(k) = items[k]
  BY <1>2, Zenon DEF InFlight
<1>5. InFlight(p)' = SubSeq(item, next+1, Len(item)) /\ \A k \in Keys : k # p => InFlight(k)' = items[k]
  <2>1. CASE next < Len(item)
    <3>1. popKey' = p /\ item' = item /\ next' = next + 1
      BY <1>2, <2>1, Zenon DEF ProcessDelta
    <3> QED
      BY <1>3, <3>1, Zenon DEF InFlight
  <2>2. CASE ~(next < Len(item))
    <3>1. popKey' = NoKey /\ next = Len(item)
      BY <1>1, <2>2 DEF ProcessDelta
    <3>2. SubSeq(item, next+1, Len(item)) = <<>>
      BY <1>1, <3>1, SubSeqEmpty
    <3>3. \A k \in Keys : InFlight(k)' = items[k]
      BY <1>3, <3>1, KeysAssumption, Zenon DEF InFlight
    <3> QED
      BY <1>1, <1>2, <3>2, <3>3, Zenon
  <2> QED
    BY <2>1, <2>2, Zenon
<1> QED
  BY <1>1, <1>2, <1>3, <1>4, <1>5, Zenon

\* What is left of a list of deltas ends with the same delta.
LEMMA SuffixLast ==
  ASSUME NEW ds \in Seq(Delta), NEW m \in 1..Len(ds)
  PROVE  /\ SubSeq(ds, m, Len(ds)) # <<>>
         /\ Last(SubSeq(ds, m, Len(ds))) = ds[Len(ds)]
<1>1. \A i \in m..Len(ds) : ds[i] \in Delta
  OBVIOUS
<1> DEFINE n == Len(ds) - m + 1
<1>2. /\ SubSeq(ds, m, Len(ds)) \in Seq(Delta) /\ Len(SubSeq(ds, m, Len(ds))) = n
      /\ \A i \in 1..n : SubSeq(ds, m, Len(ds))[i] = ds[m + i - 1]
  BY <1>1, SubSeqProperties
<1>3. n \in 1..n /\ n # 0 /\ m + n - 1 = Len(ds)
  OBVIOUS
<1> QED
  BY <1>2, <1>3, Zenon DEF Last

\* Whether or not the last one has been handled, the outcome is its effect.
LEMMA HandleOutcome ==
  ASSUME PipelineInv, ProcessDelta, NEW k \in Keys
  PROVE  Outcome(k)' = Outcome(k)
<1>1. PICK p \in Keys :
        /\ item \in Seq(Delta) /\ next \in 1..Len(item)
        /\ InFlight(p) = SubSeq(item, next, Len(item))
        /\ InFlight(p)' = SubSeq(item, next+1, Len(item))
        /\ known' = [known EXCEPT ![p] = Effect(item[next])]
        /\ \A j \in Keys : j # p => InFlight(j)' = InFlight(j)
  BY HandleInFlight, Zenon
<1>2. known \in [Keys -> Nat]
  BY Zenon DEF PipelineInv, FifoInv, TypeOK
<1>3. CASE k # p
  BY <1>1, <1>2, <1>3, Zenon DEF Outcome
<1>4. CASE k = p
  <2>2. Outcome(k) = Effect(item[Len(item)])
    BY <1>1, <1>4, SuffixLast, Zenon DEF Outcome
  <2>3. CASE next < Len(item)
    <3>1. next + 1 \in 1..Len(item)
      BY <1>1, <2>3
    <3> QED
      BY <1>1, <1>4, <2>2, <3>1, SuffixLast, Zenon DEF Outcome
  <2>4. CASE next = Len(item)
    <3>1. SubSeq(item, next+1, Len(item)) = <<>>
      BY <1>1, <2>4, SubSeqEmpty
    <3>2. known'[k] = Effect(item[next])
      BY <1>1, <1>2, <1>4, Zenon
    <3> QED
      BY <1>1, <1>4, <2>2, <2>4, <3>1, <3>2, Zenon DEF Outcome
  <2> QED
    BY <1>1, <2>3, <2>4
<1> QED
  BY <1>3, <1>4, Zenon

\* Every step keeps the outcome of each key at what the Reflector has seen.
LEMMA OutcomeNext ==
  ASSUME NoCompressor, PipelineInv, QueueMatchesItems, OutcomeIsReflected,
         [Next]_informerVars
  PROVE  OutcomeIsReflected'
<1>1. ASSUME UNCHANGED <<lastSyncResourceVersion, overlooked>>,
             \A k \in Keys : Outcome(k)' = Outcome(k),
             lastSyncResourceVersion # 0 => hist'[lastSyncResourceVersion] = hist[lastSyncResourceVersion]
      PROVE  OutcomeIsReflected'
  BY <1>1, Zenon DEF OutcomeIsReflected, Reflected
<1>2. UNCHANGED vars => \A k \in Keys : Outcome(k)' = Outcome(k)
  BY Zenon DEF vars, popVars, fifoVars, Outcome, InFlight
<1>3. ASSUME NEW k \in Keys, ServerChange(k) PROVE OutcomeIsReflected'
  <2>1. lastSyncResourceVersion # 0 => hist'[lastSyncResourceVersion] = hist[lastSyncResourceVersion]
    BY <1>3, HistoryGrows DEF PipelineInv, InformerTypeOK
  <2> QED
    BY <1>1, <1>2, <1>3, <2>1, Zenon DEF ServerChange, reflectorVars
<1>4. CASE List \/ WatchError
  BY <1>1, <1>2, <1>4, Zenon DEF List, WatchError
<1>5. CASE SyncWith
  BY <1>5, SyncWithOutcome, Zenon DEF OutcomeIsReflected
<1>6. CASE WatchEvent
  BY <1>6, WatchEventOutcome, Zenon DEF OutcomeIsReflected
<1>7. CASE ResyncTick
  BY <1>1, <1>7, ResyncOutcome, Zenon DEF ResyncTick, reflectorVars
<1>8. CASE ControllerPop
  <2>1. \A k \in Keys : Outcome(k)' = Outcome(k)
    <3> SUFFICES ASSUME NEW k \in Keys PROVE Outcome(k)' = Outcome(k)
      OBVIOUS
    <3>1. InFlight(k)' = InFlight(k) /\ known' = known
      BY <1>8, PopInFlight, Zenon DEF ControllerPop, Pop
    <3> QED
      BY <3>1, Zenon DEF Outcome
  <2> QED
    BY <1>1, <1>8, <2>1, Zenon DEF ControllerPop, reflectorVars
<1>9. CASE HandleDelta
  BY <1>1, <1>9, HandleOutcome, Zenon DEF HandleDelta, reflectorVars
<1>10. CASE UNCHANGED informerVars
  BY <1>1, <1>2, <1>10, Zenon DEF informerVars, reflectorVars
<1> QED
  BY <1>3, <1>4, <1>5, <1>6, <1>7, <1>8, <1>9, <1>10, Zenon DEF Next

\* Through relists, watch events, resyncs and half-handled pops, what is on its
\* way to the store leads it to exactly what the Reflector has seen, except for
\* the keys whose listed state Replace did not queue.
THEOREM StoreFollowsReflector ==
  ASSUME NoCompressor
  PROVE  Spec => []OutcomeIsReflected
<1>1. Init => OutcomeIsReflected
  <2> SUFFICES ASSUME Init, NEW k \in Keys PROVE Outcome(k) = Reflected(k)
    BY Zenon DEF OutcomeIsReflected
  <2> QED
    BY KeysAssumption, Zenon DEF Init, FifoInit, Outcome, InFlight, Reflected
<1>2. /\ PipelineInv /\ QueueMatchesItems /\ OutcomeIsReflected
      /\ [Next]_informerVars
      => OutcomeIsReflected'
  BY OutcomeNext, Zenon
<1> QED
  BY <1>1, <1>2, PipelineInvariant, QueueIsItems, PTL DEF Spec
-----------------------------------------------------------------------------
(* The pipeline implements a channel per key *)

\* The effects of deltas, one for one.
LEMMA EffectsType ==
  ASSUME NEW ds \in Deltas
  PROVE  /\ Effects(ds) \in Seq(Nat) /\ Len(Effects(ds)) = Len(ds)
         /\ \A i \in 1..Len(ds) : Effects(ds)[i] = Effect(ds[i])
<1>1. \A i \in 1..Len(ds) : Effect(ds[i]) \in Nat
  <2> SUFFICES ASSUME NEW i \in 1..Len(ds) PROVE Effect(ds[i]) \in Nat
    OBVIOUS
  <2>1. ds[i] \in Delta
    BY DEF Deltas
  <2> QED
    BY <2>1, Zenon DEF Delta, Effect, NoObj
<1>2. Len(ds) \in Nat
  BY DEF Deltas
<1> QED
  BY <1>1, <1>2 DEF Effects

\* Queueing a delta leaves a key's channel as it was or appends one value: a
\* deletion that replaces another has the same effect.
LEMMA QueuedExtends ==
  ASSUME NoCompressor, NEW ds \in Deltas, NEW d \in Delta
  PROVE  Channels!Extends(Effects(Queued(ds, d)), Effects(ds))
<1> DEFINE a == Append(ds, d)
           n == Len(ds) + 1
           old == Effects(ds)
<1>1. /\ a \in Deltas /\ Len(a) = n /\ n \in Nat \ {0} /\ Len(ds) \in Nat /\ a[n] = d
      /\ \A i \in 1..Len(ds) : a[i] = ds[i]
  BY DEF Deltas
<1>2. old \in Seq(Nat) /\ Len(old) = Len(ds) /\ \A i \in 1..Len(ds) : old[i] = Effect(ds[i])
  BY EffectsType, Zenon
<1>3. CASE d.type = "Sync" /\ WillObjectBeDeleted(ds)
  BY <1>3, Zenon DEF Queued, Channels!Extends
<1>4. CASE ~(d.type = "Sync" /\ WillObjectBeDeleted(ds))
  <2>1. DedupDeltas(a) \in Deltas
    BY <1>1, DedupType, Zenon
  <2>2. Queued(ds, d) = DedupDeltas(a)
    BY <1>1, <1>4, <2>1, Zenon DEF Queued, NoCompressor
  <2> HIDE DEF a, n, old
  <2>3. CASE n >= 2 /\ IsDeletionDup(a[n], a[n-1])
    <3> DEFINE t == TheDeletion(a[n], a[n-1])
               p == SubSeq(a, 1, n-2)
    <3>1. DedupDeltas(a) = Append(p, t)
      BY <1>1, <2>3, Zenon DEF DedupDeltas
    <3>2. t \in Delta /\ Effect(t) = NoObj /\ Effect(ds[n-1]) = NoObj
      <4>1. a[n] \in Delta /\ a[n-1] \in Delta /\ a[n-1] = ds[n-1]
        BY <1>1, <2>3 DEF Deltas, n
      <4> QED
        BY <4>1, <2>3, Zenon DEF TheDeletion, IsDeletionDup, Effect
    <3>3. p \in Seq(Delta) /\ Len(p) = n - 2 /\ \A i \in 1..n-2 : p[i] = a[i]
      BY <1>1, <2>3 DEF Deltas
    <3> HIDE DEF t, p
    <3>4. /\ Len(Append(p, t)) = n - 1 /\ Append(p, t)[n-1] = t
          /\ \A i \in 1..n-2 : Append(p, t)[i] = a[i]
      BY <1>1, <2>3, <3>2, <3>3, AppendProperties
    <3>5. \A i \in 1..n-1 : Effect(Append(p, t)[i]) = Effect(ds[i])
      <4> SUFFICES ASSUME NEW i \in 1..n-1 PROVE Effect(Append(p, t)[i]) = Effect(ds[i])
        OBVIOUS
      <4>1. CASE i = n - 1
        BY <3>2, <3>4, <4>1, Zenon
      <4>2. CASE i \in 1..n-2
        BY <1>1, <2>3, <3>4, <4>2 DEF n
      <4>3. i = n - 1 \/ i \in 1..n-2
        BY <1>1, <2>3
      <4> QED
        BY <4>1, <4>2, <4>3, Zenon
    <3>6. Effects(Append(p, t)) = Effects(ds)
      BY <1>1, <3>4, <3>5 DEF Effects, n
    <3> QED
      BY <2>2, <3>1, <3>6, Zenon DEF Channels!Extends, old
  <2>4. CASE ~(n >= 2 /\ IsDeletionDup(a[n], a[n-1]))
    <3>1. Queued(ds, d) = a
      BY <1>1, <2>2, <2>4, Zenon DEF DedupDeltas
    <3>2. Effect(d) \in Nat
      BY Zenon DEF Delta, Effect, NoObj
    <3>3. /\ Append(old, Effect(d)) \in Seq(Nat) /\ Len(Append(old, Effect(d))) = n
          /\ Append(old, Effect(d))[n] = Effect(d)
          /\ \A i \in 1..Len(ds) : Append(old, Effect(d))[i] = old[i]
      BY <1>2, <3>2, AppendProperties DEF n
    <3>4. /\ Effects(a) \in Seq(Nat) /\ Len(Effects(a)) = n
          /\ \A i \in 1..n : Effects(a)[i] = Effect(a[i])
      BY <1>1, EffectsType, Zenon
    <3>5. \A i \in 1..n : Effects(a)[i] = Append(old, Effect(d))[i]
      <4> SUFFICES ASSUME NEW i \in 1..n PROVE Effects(a)[i] = Append(old, Effect(d))[i]
        OBVIOUS
      <4>1. CASE i = n
        BY <1>1, <3>3, <3>4, <4>1, Zenon
      <4>2. CASE i \in 1..Len(ds)
        BY <1>1, <1>2, <3>3, <3>4, <4>2, Zenon
      <4>3. i = n \/ i \in 1..Len(ds)
        BY <1>1 DEF n
      <4> QED
        BY <4>1, <4>2, <4>3, Zenon
    <3>6. Effects(a) = Append(old, Effect(d))
      BY <3>3, <3>4, <3>5, SeqEqual, Zenon
    <3>7. /\ Len(Append(old, Effect(d))) = Len(old) + 1
          /\ SubSeq(Append(old, Effect(d)), 1, Len(old)) = old
      BY <1>2, <3>2
    <3> QED
      BY <3>1, <3>6, <3>7, Zenon DEF Channels!Extends, old
  <2> QED
    BY <2>3, <2>4, Zenon
<1> QED
  BY <1>3, <1>4, Zenon

\* Taking the oldest delta takes the oldest effect.
LEMMA EffectsTail ==
  ASSUME NEW ds \in Deltas, ds # <<>>
  PROVE  /\ Effects(ds) # <<>>
         /\ Head(Effects(ds)) = Effect(Head(ds))
         /\ Tail(Effects(ds)) = Effects(Tail(ds))
<1>1. /\ Effects(ds) \in Seq(Nat) /\ Len(Effects(ds)) = Len(ds)
      /\ \A i \in 1..Len(ds) : Effects(ds)[i] = Effect(ds[i])
  BY EffectsType, Zenon
<1>2. /\ Len(ds) \in Nat \ {0} /\ Head(ds) = ds[1]
      /\ Tail(ds) \in Deltas /\ Len(Tail(ds)) = Len(ds) - 1
      /\ \A i \in 1..Len(ds)-1 : Tail(ds)[i] = ds[i+1]
  BY HeadTailProperties DEF Deltas
<1>3. Effects(ds) # <<>> /\ Head(Effects(ds)) = Effect(Head(ds))
  BY <1>1, <1>2
<1>4. /\ Tail(Effects(ds)) \in Seq(Nat) /\ Len(Tail(Effects(ds))) = Len(ds) - 1
      /\ \A i \in 1..Len(ds)-1 : Tail(Effects(ds))[i] = Effects(ds)[i+1]
  BY <1>1, <1>3, HeadTailProperties, Zenon
<1>5. /\ Effects(Tail(ds)) \in Seq(Nat) /\ Len(Effects(Tail(ds))) = Len(ds) - 1
      /\ \A i \in 1..Len(ds)-1 : Effects(Tail(ds))[i] = Effect(Tail(ds)[i])
  BY <1>2, EffectsType, Zenon
<1>6. \A i \in 1..Len(ds)-1 : Tail(Effects(ds))[i] = Effects(Tail(ds))[i]
  <2> SUFFICES ASSUME NEW i \in 1..Len(ds)-1
               PROVE  Tail(Effects(ds))[i] = Effects(Tail(ds))[i]
    OBVIOUS
  <2>1. i + 1 \in 1..Len(ds)
    BY <1>2
  <2> QED
    BY <1>1, <1>2, <1>4, <1>5, <2>1, Zenon
<1> QED
  BY <1>3, <1>4, <1>5, <1>6, SeqEqual, Zenon

\* A step that leaves the store alone and queues at most one delta per key is
\* an observation.
LEMMA QueueingObserves ==
  ASSUME NoCompressor, PipelineInv, LockFree, UNCHANGED <<popKey, known>>,
         \A k \in Keys : \/ items'[k] = items[k]
                         \/ \E d \in Delta : items'[k] = Queued(items[k], d)
  PROVE  Channels!Observe
<1> SUFFICES ASSUME NEW k \in Keys
             PROVE  Channels!Extends(Effects(InFlight(k)'), Effects(InFlight(k)))
  BY Zenon DEF Channels!Observe, Effects
<1>1. InFlight(k) = items[k] /\ InFlight(k)' = items'[k]
  BY KeysAssumption, Zenon DEF LockFree, InFlight
<1>2. items[k] \in Deltas
  BY Zenon DEF PipelineInv, FifoInv, TypeOK
<1>3. CASE items'[k] = items[k]
  BY <1>1, <1>3, Zenon DEF Channels!Extends
<1>4. CASE items'[k] # items[k]
  <2>1. PICK d \in Delta : items'[k] = Queued(items[k], d)
    BY <1>4, Zenon
  <2> QED
    BY <1>1, <1>2, <2>1, QueuedExtends, Zenon
<1> QED
  BY <1>3, <1>4, Zenon

\* Handling a delta applies the oldest value of the popped key's channel.
LEMMA HandlingApplies ==
  ASSUME PipelineInv, ProcessDelta
  PROVE  \E p \in Keys : Channels!Apply(p)
<1>1. PICK p \in Keys :
        /\ item \in Seq(Delta) /\ next \in 1..Len(item)
        /\ InFlight(p) = SubSeq(item, next, Len(item))
        /\ InFlight(p)' = SubSeq(item, next+1, Len(item))
        /\ known' = [known EXCEPT ![p] = Effect(item[next])]
        /\ \A k \in Keys : k # p => InFlight(k)' = InFlight(k)
  BY HandleInFlight, Zenon
<1>2. InFlight(p) \in Deltas /\ InFlight(p) # <<>>
  <2>1. \A i \in next..Len(item) : item[i] \in Delta
    BY <1>1
  <2> QED
    BY <1>1, <2>1, SubSeqProperties, SuffixLast DEF Deltas
<1>3. Head(InFlight(p)) = item[next] /\ Tail(InFlight(p)) = InFlight(p)'
  BY <1>1, HeadTailOfSubSeq
<1>4. /\ Effects(InFlight(p)) # <<>>
      /\ Head(Effects(InFlight(p))) = Effect(item[next])
      /\ Tail(Effects(InFlight(p))) = Effects(InFlight(p)')
  BY <1>2, <1>3, EffectsTail, Zenon
<1> DEFINE pend == [k \in Keys |-> Effects(InFlight(k))]
           pendN == [k \in Keys |-> Effects(InFlight(k)')]
<1>5. pendN = [pend EXCEPT ![p] = Tail(@)]
  BY <1>1, <1>4, Zenon
<1>6. pend' = pendN
  BY Zenon DEF Effects
<1>7. known' = [known EXCEPT ![p] = Head(pend[p])] /\ pend[p] # <<>>
  BY <1>1, <1>4, Zenon
<1> QED
  BY <1>5, <1>6, <1>7, Zenon DEF Channels!Apply

\* Every step of the pipeline is a step of the channels, or invisible to them.
LEMMA ChannelsStep ==
  ASSUME NoCompressor, PipelineInv, QueueMatchesItems, [Next]_informerVars
  PROVE  [Channels!Next]_(Channels!chanVars)
<1>0. FifoInv /\ hasKnown = TRUE
  BY Zenon DEF PipelineInv
<1>1. ASSUME UNCHANGED known, \A k \in Keys : InFlight(k)' = InFlight(k)
      PROVE  UNCHANGED Channels!chanVars
  BY <1>1, Zenon DEF Channels!chanVars, Effects
<1>2. UNCHANGED vars => UNCHANGED Channels!chanVars
  BY <1>1, Zenon DEF vars, popVars, fifoVars, InFlight
<1>3. ASSUME NEW k \in Keys, ServerChange(k) PROVE UNCHANGED Channels!chanVars
  BY <1>2, <1>3, Zenon DEF ServerChange
<1>4. CASE List \/ WatchError \/ UNCHANGED informerVars
  BY <1>2, <1>4, Zenon DEF List, WatchError, informerVars
<1>5. CASE SyncWith
  <2> DEFINE list == hist[resourceVersion]
  <2>1. list \in [Keys -> Nat]
    BY <1>5 DEF PipelineInv, InformerTypeOK, Versioned, SyncWith
  <2>2. /\ LockFree /\ UNCHANGED <<popKey, known>> /\ items' = ReplacedItems(list)
    BY <1>5, Zenon DEF SyncWith, Replace, popVars
  <2>3. ASSUME NEW k \in Keys
        PROVE  \/ items'[k] = items[k]
               \/ \E d \in Delta : items'[k] = Queued(items[k], d)
    BY <1>0, <2>1, <2>2, ReplacedKeys, Zenon
  <2> QED
    BY <2>2, <2>3, QueueingObserves, Zenon DEF Channels!Next
<1>6. CASE WatchEvent
  <2>1. PICK k \in Keys, d \in Delta : WatchedChange(k, d)
    BY <1>6, WatchEventChange, Zenon
  <2>2. LockFree /\ UNCHANGED <<popKey, known>>
    BY <1>6, WatchEventChange, Zenon DEF popVars
  <2>3. \A j \in Keys : items'[j] = items[j] \/ items'[j] = Queued(items[j], d)
    BY <1>0, <2>1, Zenon DEF WatchedChange, queueActionLocked, FifoInv, TypeOK
  <2> QED
    BY <2>2, <2>3, QueueingObserves, Zenon DEF Channels!Next
<1>7. CASE ResyncTick
  <2>1. LockFree /\ UNCHANGED <<popKey, known>> /\ items' = ResyncedItems
    BY <1>7, Zenon DEF ResyncTick, Resync, popVars
  <2>2. ASSUME NEW k \in Keys
        PROVE  \/ items'[k] = items[k]
               \/ \E d \in Delta : items'[k] = Queued(items[k], d)
    <3>1. MkDelta("Sync", known[k]) \in Delta
      BY <1>0, DeltaType, Zenon DEF FifoInv, TypeOK
    <3> QED
      BY <2>1, <3>1, Zenon DEF ResyncedItems
  <2> QED
    BY <2>1, <2>2, QueueingObserves, Zenon DEF Channels!Next
<1>8. CASE ControllerPop
  <2>1. UNCHANGED known /\ \A k \in Keys : InFlight(k)' = InFlight(k)
    BY <1>8, PopInFlight, Zenon DEF ControllerPop, Pop
  <2> QED
    BY <1>1, <2>1, Zenon
<1>9. CASE HandleDelta
  BY <1>9, HandlingApplies, Zenon DEF HandleDelta, Channels!Next
<1> QED
  BY <1>3, <1>4, <1>5, <1>6, <1>7, <1>8, <1>9, Zenon DEF Next

\* The Reflector, the queue and the event loop together implement a channel per
\* key: whatever is queued for a key reaches the store in order, nothing skipped
\* and nothing invented, through relists, resyncs and compressed deletions.
THEOREM InformerImplementsChannels ==
  ASSUME NoCompressor
  PROVE  Spec => ChannelsSafe
<1>1. Init => Channels!Init
  <2> SUFFICES ASSUME Init PROVE Channels!Init
    OBVIOUS
  <2>1. \A k \in Keys : InFlight(k) = <<>>
    BY KeysAssumption, Zenon DEF Init, FifoInit, InFlight
  <2>2. \A k \in Keys : Effects(InFlight(k)) = <<>>
    BY <2>1 DEF Effects
  <2>3. known = [k \in Keys |-> NoObj]
    BY Zenon DEF Init, FifoInit
  <2> QED
    BY <2>2, <2>3, Zenon DEF Channels!Init, Channels!NoObj, NoObj
<1>2. PipelineInv /\ QueueMatchesItems /\ [Next]_informerVars
      => [Channels!Next]_(Channels!chanVars)
  BY ChannelsStep, Zenon
<1> QED
  BY <1>1, <1>2, PipelineInvariant, QueueIsItems, PTL DEF Spec, ChannelsSafe, Channels!Safe
-----------------------------------------------------------------------------
(* The store of an informer that has synced is not older than its lists *)

\* The states of k on the server since the oldest list, and the lists of deltas
\* that lead a store to such states only.
RecentStates(k) == {hist[r][k] : r \in {q \in 1..Len(hist) : q >= oldestList}}
LeadsTo(ds, S) == \A i \in 1..Len(ds) : Effect(ds[i]) \in S

\* What holds of the versions: a list comes before everything.
Ordered ==
  /\ populated <=> lastSyncResourceVersion # 0
  /\ phase # "list" => oldestList \in 1..resourceVersion
  /\ populated => oldestList \in 1..lastSyncResourceVersion

\* What holds of each key: everything in flight and every object of the store is
\* recent, and so is an absence, once the first batch has gone through.
RecentKey(k) ==
  /\ LeadsTo(InFlight(k), RecentStates(k))
  /\ known[k] # NoObj => known[k] \in RecentStates(k)
  /\ populated => known[k] \in RecentStates(k) \/ k \in firstBatch \/ popKey = k

RecentInv == Ordered /\ \A k \in Keys : RecentKey(k)

\* Queueing a delta adds at most its effect.
LEMMA QueuedLeadsTo ==
  ASSUME NoCompressor, NEW ds \in Deltas, NEW d \in Delta, NEW S,
         LeadsTo(ds, S), Effect(d) \in S
  PROVE  LeadsTo(Queued(ds, d), S)
<1> DEFINE q == Queued(ds, d)
<1>1. CASE d.type = "Sync" /\ WillObjectBeDeleted(ds)
  BY <1>1, Zenon DEF Queued
<1>2. CASE ~(d.type = "Sync" /\ WillObjectBeDeleted(ds))
  <2>1. q \in Deltas /\ q # <<>> /\ Effect(Last(q)) = Effect(d)
    BY <1>2, QueuedEffect, Zenon
  <2>2. Channels!Extends(Effects(q), Effects(ds))
    BY QueuedExtends, Zenon
  <2> HIDE DEF q
  <2>3. /\ Len(q) \in Nat /\ Len(ds) \in Nat
        /\ Len(Effects(q)) = Len(q) /\ Len(Effects(ds)) = Len(ds)
        /\ \A i \in 1..Len(q) : Effects(q)[i] = Effect(q[i])
        /\ \A i \in 1..Len(ds) : Effects(ds)[i] = Effect(ds[i])
        /\ Effects(q) \in Seq(Nat) /\ Effects(ds) \in Seq(Nat)
    BY <2>1, EffectsType DEF Deltas
  <2>4. ASSUME NEW i \in 1..Len(q) PROVE Effect(q[i]) \in S
    <3>1. CASE Effects(q) = Effects(ds)
      BY <2>3, <3>1, Zenon DEF LeadsTo
    <3>2. CASE i = Len(q)
      BY <2>1, <3>2, Zenon DEF Last
    <3>3. CASE Effects(q) # Effects(ds) /\ i # Len(q)
      <4>1. /\ Len(Effects(q)) = Len(Effects(ds)) + 1
            /\ SubSeq(Effects(q), 1, Len(Effects(ds))) = Effects(ds)
        BY <2>2, <3>3, Zenon DEF Channels!Extends
      <4>2. i \in 1..Len(ds)
        BY <2>3, <3>3, <4>1
      <4>3. Effects(ds)[i] = Effects(q)[i]
        BY <2>3, <4>1, <4>2
      <4> QED BY <2>3, <4>2, <4>3, Zenon DEF LeadsTo
    <3> QED BY <3>1, <3>2, <3>3, Zenon
  <2> QED BY <2>4, Zenon DEF LeadsTo, q
<1> QED BY <1>1, <1>2, Zenon

\* Once something has been listed, what is recent stays so.
LEMMA RecentGrows ==
  ASSUME PipelineInv, Ordered, populated, [Next]_informerVars, NEW k \in Keys
  PROVE  RecentStates(k) \subseteq RecentStates(k)'
<1>0. Len(hist) \in Nat /\ oldestList \in 1..Len(hist)
  BY DEF Ordered, PipelineInv, InformerTypeOK
<1>1. ASSUME NEW j \in Keys, ServerChange(j)
      PROVE  RecentStates(k) \subseteq RecentStates(k)'
  <2>1. Len(hist') = Len(hist) + 1 /\ \A r \in 1..Len(hist) : hist'[r] = hist[r]
    BY <1>1, HistoryGrows, Zenon
  <2>2. oldestList' = oldestList
    BY <1>1, Zenon DEF ServerChange, reflectorVars
  <2> QED BY <1>0, <2>1, <2>2 DEF RecentStates
<1>2. CASE List
  <2>1. oldestList' \in Nat /\ oldestList' <= oldestList /\ hist' = hist
    BY <1>0, <1>2 DEF List
  <2> QED BY <1>0, <2>1 DEF RecentStates
<1>3. CASE UNCHANGED <<hist, oldestList>>
  BY <1>3, Zenon DEF RecentStates
<1> QED BY <1>1, <1>2, <1>3, Zenon DEF Next, SyncWith, WatchEvent, WatchError, ResyncTick, ControllerPop,
        HandleDelta, informerVars, reflectorVars

\* Every step keeps the order of the versions.
LEMMA OrderedNext ==
  ASSUME PipelineInv, Ordered, [Next]_informerVars
  PROVE  Ordered'
<1>0. /\ Len(hist) \in Nat /\ oldestList \in 0..Len(hist) /\ resourceVersion \in 0..Len(hist)
      /\ lastSyncResourceVersion \in 0..Len(hist) /\ populated \in BOOLEAN
      /\ phase = "watch" => resourceVersion = lastSyncResourceVersion
  BY DEF PipelineInv, InformerTypeOK, FifoInv, TypeOK, Versioned
<1>1. CASE List
  BY <1>0, <1>1 DEF List, Ordered, vars, fifoVars
<1>2. CASE SyncWith
  BY <1>0, <1>2 DEF SyncWith, Replace, Ordered
<1>3. CASE WatchEvent
  <2>1. populated' = TRUE
    BY <1>3, Zenon DEF WatchEvent, Add, Update, Delete
  <2>2. /\ phase = "watch" /\ phase' = phase /\ oldestList' = oldestList
        /\ resourceVersion' = resourceVersion + 1 /\ lastSyncResourceVersion' = resourceVersion + 1
    BY <1>3, Zenon DEF WatchEvent
  <2> QED BY <1>0, <2>1, <2>2 DEF Ordered
<1>4. CASE WatchError
  BY <1>4, Zenon DEF WatchError, Ordered, vars, fifoVars
<1>5. CASE UNCHANGED <<populated, phase, resourceVersion, lastSyncResourceVersion, oldestList>>
  BY <1>5, Zenon DEF Ordered
<1> QED BY <1>1, <1>2, <1>3, <1>4, <1>5, Zenon DEF Next, ServerChange, ResyncTick, ControllerPop, HandleDelta,
        Resync, Pop, ProcessDelta, informerVars, reflectorVars, vars, fifoVars

\* A step that only queues deltas with recent effects keeps a key recent.
LEMMA QueueingRecent ==
  ASSUME NoCompressor, PipelineInv, NEW k \in Keys, RecentKey(k), LockFree,
         UNCHANGED <<popKey, known>>, RecentStates(k)' = RecentStates(k),
         \/ items'[k] = items[k]
         \/ \E d \in Delta : Effect(d) \in RecentStates(k) /\ items'[k] = Queued(items[k], d)
  PROVE  LeadsTo(InFlight(k), RecentStates(k))'
<1>1. InFlight(k) = items[k] /\ InFlight(k)' = items'[k]
  BY KeysAssumption, Zenon DEF LockFree, InFlight
<1>2. items[k] \in Deltas /\ LeadsTo(items[k], RecentStates(k))
  BY <1>1, Zenon DEF PipelineInv, FifoInv, TypeOK, RecentKey
<1>3. LeadsTo(items'[k], RecentStates(k))
  BY <1>2, QueuedLeadsTo, Zenon
<1> QED BY <1>1, <1>3, Zenon DEF LeadsTo

\* A relist queues listed states; the first one leaves in the first batch every
\* key that the empty store lacks.
LEMMA SyncWithRecent ==
  ASSUME NoCompressor, PipelineInv, RecentInv, SyncWith, NEW k \in Keys
  PROVE  RecentKey(k)'
<1> DEFINE list == hist[resourceVersion]
<1>1. /\ resourceVersion \in 1..Len(hist) /\ list \in [Keys -> Nat] /\ FifoInv /\ hasKnown
      /\ RecentKey(k) /\ oldestList \in 1..resourceVersion
  BY DEF PipelineInv, InformerTypeOK, Versioned, SyncWith, RecentInv, Ordered
<1>2. list[k] \in RecentStates(k)
  BY <1>1 DEF RecentStates
<1>3. /\ LockFree /\ UNCHANGED <<popKey, known>> /\ items' = ReplacedItems(list)
      /\ RecentStates(k)' = RecentStates(k)
      /\ firstBatch' = IF populated THEN firstBatch
                       ELSE {j \in Listed(list) \cup Gone(list) : ReplacedItems(list)[j] # <<>>}
  BY Zenon DEF SyncWith, Replace, popVars, RecentStates
<1> HIDE DEF list
<1>4. \/ items'[k] = items[k]
      \/ \E d \in Delta : Effect(d) \in RecentStates(k) /\ items'[k] = Queued(items[k], d)
  <2>1. CASE k \in Listed(list)
    <3> DEFINE d == MkDelta("Sync", list[k])
    <3>1. d \in Delta /\ items'[k] = Queued(items[k], d)
      BY <1>1, <1>3, <2>1, ReplacedKeys, Zenon
    <3>2. Effect(d) = list[k]
      BY Zenon DEF Effect, MkDelta
    <3> QED BY <1>2, <3>1, <3>2, Zenon
  <2>2. CASE k \in Gone(list)
    <3> DEFINE d == DeletedFinalStateUnknown(known[k])
    <3>1. d \in Delta /\ items'[k] = Queued(items[k], d) /\ list[k] = NoObj
      BY <1>1, <1>3, <2>2, ReplacedKeys, Zenon
    <3>2. Effect(d) = NoObj
      BY Zenon DEF Effect, DeletedFinalStateUnknown
    <3> QED BY <1>2, <3>1, <3>2, Zenon
  <2> QED BY <1>1, <1>3, <2>1, <2>2, ReplacedKeys, Zenon
<1>5. LeadsTo(InFlight(k), RecentStates(k))'
  BY <1>1, <1>3, <1>4, QueueingRecent, Zenon
<1>6. known'[k] \in RecentStates(k) \/ k \in firstBatch' \/ popKey' = k
  <2>1. CASE populated
    BY <1>1, <1>3, <2>1, Zenon DEF RecentKey
  <2>2. CASE ~populated /\ list[k] = NoObj
    BY <1>1, <1>2, <1>3, <2>2, Zenon DEF PipelineInv, Untouched
  <2>3. CASE ~populated /\ list[k] # NoObj
    <3>1. k \in Listed(list)
      BY <2>3, Zenon DEF Listed
    <3> QED BY <1>1, <1>3, <2>3, <3>1, ReplacedKeys, Zenon
  <2> QED BY <2>1, <2>2, <2>3, Zenon
<1> QED BY <1>1, <1>3, <1>5, <1>6, Zenon DEF RecentKey

\* A watch event queues the state of the next revision.
LEMMA WatchEventRecent ==
  ASSUME NoCompressor, PipelineInv, RecentInv, WatchEvent, NEW k \in Keys
  PROVE  RecentKey(k)'
<1>1. /\ resourceVersion + 1 \in 1..Len(hist) /\ resourceVersion = lastSyncResourceVersion
      /\ resourceVersion # 0 /\ resourceVersion \in 1..Len(hist)
      /\ LockFree /\ UNCHANGED <<hist, popVars, known>>
  BY WatchEventChange, Zenon
<1>2. RecentKey(k) /\ populated /\ oldestList \in 1..resourceVersion
  BY <1>1, Zenon DEF RecentInv, Ordered
<1>3. oldestList' = oldestList /\ firstBatch' = firstBatch
  BY Zenon DEF WatchEvent, Add, Update, Delete
<1>4. hist[resourceVersion + 1][k] \in RecentStates(k) /\ RecentStates(k)' = RecentStates(k)
  BY <1>1, <1>2, <1>3 DEF RecentStates
<1>5. PICK j \in Keys, d \in Delta : WatchedChange(j, d)
  BY WatchEventChange, Zenon
<1>6. \/ items'[k] = items[k]
      \/ Effect(d) \in RecentStates(k) /\ items'[k] = Queued(items[k], d)
  BY <1>4, <1>5, Zenon DEF WatchedChange, queueActionLocked, PipelineInv, FifoInv, TypeOK
<1>7. LeadsTo(InFlight(k), RecentStates(k))'
  BY <1>1, <1>2, <1>4, <1>6, QueueingRecent, Zenon DEF popVars
<1> QED BY <1>1, <1>2, <1>3, <1>4, <1>7, Zenon DEF RecentKey, popVars

\* A resync queues what is in the store.
LEMMA ResyncRecent ==
  ASSUME NoCompressor, PipelineInv, RecentInv, ResyncTick, NEW k \in Keys
  PROVE  RecentKey(k)'
<1>1. /\ LockFree /\ UNCHANGED <<popKey, known, populated, firstBatch>> /\ items' = ResyncedItems
      /\ RecentStates(k)' = RecentStates(k) /\ RecentKey(k)
  BY Zenon DEF ResyncTick, Resync, popVars, RecentStates, RecentInv, reflectorVars
<1>2. MkDelta("Sync", known[k]) \in Delta /\ Effect(MkDelta("Sync", known[k])) = known[k]
  BY DeltaType, Zenon DEF PipelineInv, FifoInv, TypeOK, Effect, MkDelta
<1>3. \/ items'[k] = items[k]
      \/ \E d \in Delta : Effect(d) \in RecentStates(k) /\ items'[k] = Queued(items[k], d)
  BY <1>1, <1>2, Zenon DEF ResyncedItems, RecentKey
<1>4. LeadsTo(InFlight(k), RecentStates(k))'
  BY <1>1, <1>3, QueueingRecent, Zenon
<1> QED BY <1>1, <1>4, Zenon DEF RecentKey

\* Pop takes a key out of the first batch only to handle it.
LEMMA PopRecent ==
  ASSUME PipelineInv, QueueMatchesItems, RecentInv, ControllerPop, NEW k \in Keys
  PROVE  RecentKey(k)'
<1>1. InFlight(k)' = InFlight(k) /\ RecentKey(k) /\ RecentStates(k)' = RecentStates(k)
  BY PopInFlight, Zenon DEF ControllerPop, RecentInv, RecentStates, reflectorVars
<1>2. PICK n \in 1..Len(queue) :
        /\ LockFree /\ \A i \in 1..n-1 : items[queue[i]] = <<>>
        /\ popKey' = queue[n] /\ firstBatch' = firstBatch \ {queue[i] : i \in 1..n}
        /\ UNCHANGED <<populated, known>>
  BY Zenon DEF ControllerPop, Pop
<1>3. \A i \in 1..Len(queue) : items[queue[i]] # <<>>
  BY DEF QueueMatchesItems, Range, PipelineInv, FifoInv, TypeOK
<1>4. n = 1
  BY <1>2, <1>3
<1>5. k \in firstBatch => k \in firstBatch' \/ popKey' = k
  BY <1>2, <1>4
<1>6. popKey # k
  BY <1>2, KeysAssumption, Zenon DEF LockFree
<1> QED BY <1>1, <1>2, <1>5, <1>6, Zenon DEF RecentKey, LeadsTo

\* Handling a delta brings its key to a recent state.
LEMMA HandleRecent ==
  ASSUME PipelineInv, RecentInv, HandleDelta, NEW k \in Keys
  PROVE  RecentKey(k)'
<1>1. PICK p \in Keys :
        /\ p = popKey /\ item \in Seq(Delta) /\ next \in 1..Len(item)
        /\ InFlight(p) = SubSeq(item, next, Len(item))
        /\ InFlight(p)' = SubSeq(item, next+1, Len(item))
        /\ known' = [known EXCEPT ![p] = Effect(item[next])]
        /\ \A j \in Keys : j # p => InFlight(j)' = InFlight(j)
  BY HandleInFlight, Zenon DEF HandleDelta
<1>2. /\ RecentKey(k) /\ RecentStates(k)' = RecentStates(k) /\ UNCHANGED <<firstBatch, populated>>
      /\ known \in [Keys -> Nat]
  BY Zenon DEF HandleDelta, ProcessDelta, RecentInv, RecentStates, reflectorVars, fifoVars,
         PipelineInv, FifoInv, TypeOK
<1>3. CASE k # p
  BY <1>1, <1>2, <1>3, Zenon DEF RecentKey, LeadsTo
<1>4. CASE k = p
  <2>1. \A i \in next..Len(item) : Effect(item[i]) \in RecentStates(k)
    <3> SUFFICES ASSUME NEW i \in next..Len(item) PROVE Effect(item[i]) \in RecentStates(k)
      OBVIOUS
    <3> DEFINE s == SubSeq(item, next, Len(item))
               m == i - next + 1
    <3>1. m \in 1..Len(s) /\ s[m] = item[i]
      BY <1>1
    <3>2. LeadsTo(s, RecentStates(k))
      BY <1>1, <1>2, <1>4, Zenon DEF RecentKey
    <3> HIDE DEF s, m
    <3> QED BY <3>1, <3>2, Zenon DEF LeadsTo
  <2>2. LeadsTo(SubSeq(item, next+1, Len(item)), RecentStates(k))
    <3> DEFINE s == SubSeq(item, next+1, Len(item))
    <3> SUFFICES ASSUME NEW i \in 1..Len(s) PROVE Effect(s[i]) \in RecentStates(k)
      BY Zenon DEF LeadsTo
    <3>1. next + i \in next..Len(item) /\ s[i] = item[next + i]
      BY <1>1
    <3> HIDE DEF s
    <3> QED BY <2>1, <3>1, Zenon
  <2>3. known'[k] \in RecentStates(k)
    BY <1>1, <1>2, <1>4, <2>1
  <2> QED BY <1>1, <1>2, <1>4, <2>2, <2>3, Zenon DEF RecentKey, LeadsTo
<1> QED BY <1>3, <1>4, Zenon

\* Every step keeps the invariant.
LEMMA RecentNext ==
  ASSUME NoCompressor, PipelineInv, QueueMatchesItems, RecentInv, [Next]_informerVars
  PROVE  RecentInv'
<1>1. Ordered'
  BY OrderedNext, Zenon DEF RecentInv
<1> SUFFICES ASSUME NEW k \in Keys PROVE RecentKey(k)'
  BY <1>1, Zenon DEF RecentInv
<1>2. ASSUME UNCHANGED vars PROVE RecentKey(k)'
  <2>1. UNCHANGED <<known, firstBatch, popKey, populated>> /\ InFlight(k)' = InFlight(k) /\ RecentKey(k)
    BY <1>2, Zenon DEF vars, popVars, fifoVars, InFlight, RecentInv
  <2>2. CASE populated
    <3>1. RecentStates(k) \subseteq RecentStates(k)'
      BY <2>2, RecentGrows, Zenon DEF RecentInv
    <3> QED BY <2>1, <3>1, Zenon DEF RecentKey, LeadsTo
  <2>3. CASE ~populated
    <3>1. InFlight(k) = <<>> /\ known[k] = NoObj
      BY <2>3, KeysAssumption, Zenon DEF PipelineInv, Untouched, InFlight, LockFree
    <3> QED BY <2>1, <2>3, <3>1 DEF RecentKey, LeadsTo
  <2> QED BY <2>2, <2>3, Zenon
<1>3. CASE SyncWith
  BY <1>3, SyncWithRecent, Zenon
<1>4. CASE WatchEvent
  BY <1>4, WatchEventRecent, Zenon
<1>5. CASE ResyncTick
  BY <1>5, ResyncRecent, Zenon
<1>6. CASE ControllerPop
  BY <1>6, PopRecent, Zenon
<1>7. CASE HandleDelta
  BY <1>7, HandleRecent, Zenon
<1> QED BY <1>2, <1>3, <1>4, <1>5, <1>6, <1>7, Zenon DEF Next, ServerChange, List, WatchError, informerVars

\* Once HasSynced says true, and while no object is being handled, the store
\* holds for every key a state that the server had at the oldest list or later.
THEOREM SyncedStoreIsRecent ==
  ASSUME NoCompressor
  PROVE  Spec => []SyncedStoreIsNotOlder
<1>1. Init => RecentInv
  <2> SUFFICES ASSUME Init PROVE RecentInv
    OBVIOUS
  <2>1. \A k \in Keys : InFlight(k) = <<>>
    BY KeysAssumption, Zenon DEF Init, FifoInit, InFlight
  <2> QED BY <2>1 DEF Init, FifoInit, RecentInv, Ordered, RecentKey, LeadsTo
<1>2. PipelineInv /\ QueueMatchesItems /\ RecentInv /\ [Next]_informerVars => RecentInv'
  BY RecentNext, Zenon
<1>3. PipelineInv /\ RecentInv => SyncedStoreIsNotOlder
  <2> SUFFICES ASSUME PipelineInv, RecentInv, HasSynced, LockFree, NEW k \in Keys
               PROVE  \E r \in oldestList..Len(hist) : known[k] = hist[r][k]
    BY Zenon DEF SyncedStoreIsNotOlder
  <2>1. firstBatch = {} /\ populated
    BY DEF PipelineInv, FifoInv, TypeOK, FirstBatchAhead, HasSynced
  <2>2. popKey # k
    BY KeysAssumption, Zenon DEF LockFree
  <2>3. known[k] \in RecentStates(k)
    BY <2>1, <2>2, Zenon DEF RecentInv, RecentKey
  <2>4. Len(hist) \in Nat /\ oldestList \in Nat
    BY DEF PipelineInv, InformerTypeOK
  <2> QED BY <2>3, <2>4 DEF RecentStates
<1> QED
  BY <1>1, <1>2, <1>3, PipelineInvariant, QueueIsItems, PTL DEF Spec
-----------------------------------------------------------------------------
(* Caught up, and what HandleDeltas can rely on *)

\* The store of an informer that has caught up with the server equals it, but for the keys
\* whose listed state Replace did not queue: what the Reflector's "keep the given store up
\* to date with the server's contents" comes to when nothing is on its way any more.
THEOREM CaughtUpIsConsistent ==
  ASSUME NoCompressor
  PROVE  Spec => [](CaughtUp => \A k \in Keys \ overlooked : known[k] = Server[k])
<1>1. ASSUME PipelineInv, QueueMatchesItems, OutcomeIsReflected, CaughtUp, NEW k \in Keys \ overlooked
      PROVE  known[k] = Server[k]
  <2>1. items[k] = <<>>
    <3>1. queue = <<>> /\ Range(queue) = {}
      BY <1>1 DEF CaughtUp, Range
    <3> QED BY <1>1, <3>1, Zenon DEF QueueMatchesItems
  <2>2. popKey # k
    BY <1>1, KeysAssumption, Zenon DEF CaughtUp, LockFree
  <2>3. Outcome(k) = known[k]
    BY <2>1, <2>2, Zenon DEF Outcome, InFlight
  <2>4. lastSyncResourceVersion # 0 /\ lastSyncResourceVersion = Len(hist)
    BY <1>1, Zenon DEF PipelineInv, Versioned, CaughtUp
  <2>5. Reflected(k) = Server[k]
    BY <2>4, Zenon DEF Reflected, Server
  <2> QED BY <1>1, <2>3, <2>5, Zenon DEF OutcomeIsReflected
<1>2. PipelineInv /\ QueueMatchesItems /\ OutcomeIsReflected
        => (CaughtUp => \A k \in Keys \ overlooked : known[k] = Server[k])
  BY <1>1, Zenon
<1> QED BY <1>2, PipelineInvariant, QueueIsItems, StoreFollowsReflector, PTL DEF Spec

\* A delta that finds something to do: a deletion follows something other than a deletion,
\* or is the first and the store has an object; every other delta brings an object.
Applies(ds, i, old) ==
  IF ds[i].type = "Deleted"
  THEN IF i = 1 THEN old # NoObj ELSE ds[i-1].type # "Deleted"
  ELSE ds[i].obj # NoObj
AllApply(ds, old) == \A i \in 1..Len(ds) : Applies(ds, i, old)
DeltasApply == \A k \in Keys : AllApply(InFlight(k), known[k])

\* A delta that may be queued behind ds.
MayFollow(d, ds, old) ==
  IF d.type = "Deleted" THEN ds # <<>> \/ old # NoObj ELSE d.obj # NoObj

\* A second deletion takes the place of the first, so that no deletion follows another.
LEMMA QueuedApplies ==
  ASSUME NoCompressor, NEW ds \in Deltas, NEW d \in Delta, NEW old,
         AllApply(ds, old), MayFollow(d, ds, old)
  PROVE  AllApply(Queued(ds, d), old)
<1> DEFINE a == Append(ds, d)
           m == Len(ds)
<1>1. /\ a \in Deltas /\ Len(a) = m + 1 /\ m \in Nat /\ a[m + 1] = d
      /\ \A i \in 1..m : a[i] = ds[i]
  BY DEF Deltas
<1>2. CASE d.type = "Sync" /\ WillObjectBeDeleted(ds)
  BY <1>2, Zenon DEF Queued
<1>3. CASE ~(d.type = "Sync" /\ WillObjectBeDeleted(ds))
  <2>1. DedupDeltas(a) \in Deltas
    BY <1>1, DedupType, Zenon
  <2>2. Queued(ds, d) = DedupDeltas(a)
    BY <1>1, <1>3, <2>1, Zenon DEF Queued, NoCompressor
  <2> HIDE DEF a, m
  <2>3. CASE m + 1 >= 2 /\ IsDeletionDup(a[m + 1], a[m])
    <3> DEFINE t == TheDeletion(a[m + 1], a[m])
               p == SubSeq(a, 1, m - 1)
               q == Append(p, t)
    <3>0. m >= 1 /\ m + 1 - 1 = m /\ m + 1 - 2 = m - 1
      BY <1>1, <2>3
    <3>1. DedupDeltas(a) = q
      BY <1>1, <2>3, <3>0 DEF DedupDeltas
    <3>2. t \in Delta /\ t.type = "Deleted" /\ ds[m].type = "Deleted"
      <4>1. a[m + 1] \in Delta /\ a[m] \in Delta /\ a[m] = ds[m]
        BY <1>1, <3>0 DEF Deltas
      <4> QED BY <4>1, <2>3, Zenon DEF TheDeletion, IsDeletionDup
    <3>3. p \in Seq(Delta) /\ Len(p) = m - 1 /\ \A i \in 1..m-1 : p[i] = a[i]
      BY <1>1, <3>0 DEF Deltas
    <3> HIDE DEF t, p
    <3>4. Len(q) = m /\ q[m] = t /\ \A i \in 1..m-1 : q[i] = p[i]
      BY <1>1, <3>0, <3>2, <3>3, AppendProperties
    <3>5. \A i \in 1..m-1 : q[i] = ds[i]
      BY <1>1, <3>3, <3>4
    <3> HIDE DEF q
    <3>6. ASSUME NEW i \in 1..m PROVE Applies(q, i, old)
      <4>1. Applies(ds, i, old)
        BY <3>6, Zenon DEF AllApply, m
      <4>2. q[i].type = ds[i].type /\ (i # m => q[i] = ds[i])
        BY <1>1, <3>2, <3>4, <3>5, <3>6
      <4>3. i # 1 => q[i-1] = ds[i-1]
        BY <1>1, <3>5, <3>6
      <4>4. i = m => ds[i].type = "Deleted"
        BY <3>2, Zenon
      <4> QED BY <4>1, <4>2, <4>3, <4>4, Zenon DEF Applies
    <3> QED BY <2>2, <3>1, <3>4, <3>6, Zenon DEF AllApply
  <2>4. CASE ~(m + 1 >= 2 /\ IsDeletionDup(a[m + 1], a[m]))
    <3>1. DedupDeltas(a) = a
      <4>1. m + 1 - 1 = m
        BY <1>1
      <4> QED BY <1>1, <2>4, <4>1 DEF DedupDeltas
    <3>2. ASSUME NEW i \in 1..m PROVE Applies(a, i, old)
      <4>1. Applies(ds, i, old) /\ a[i] = ds[i]
        BY <1>1, <3>2, Zenon DEF AllApply, m
      <4>2. i # 1 => a[i-1] = ds[i-1]
        BY <1>1, <3>2
      <4> QED BY <4>1, <4>2, Zenon DEF Applies
    <3>3. Applies(a, m + 1, old)
      <4>1. m = 0 => ds = <<>>
        BY DEF m, Deltas
      <4>2. m + 1 - 1 = m /\ (m # 0 => m + 1 >= 2) /\ (m + 1 = 1 <=> m = 0)
        BY <1>1
      <4>3. d.type = "Deleted" /\ m # 0 => a[m].type # "Deleted"
        BY <1>1, <2>4, <4>2, Zenon DEF IsDeletionDup
      <4>4. d.type = "Deleted" /\ m = 0 => old # NoObj
        BY <4>1, Zenon DEF MayFollow
      <4>5. d.type # "Deleted" => d.obj # NoObj
        BY Zenon DEF MayFollow
      <4> QED BY <1>1, <4>2, <4>3, <4>4, <4>5 DEF Applies
    <3>4. \A i \in 1 .. m + 1 : i \in 1..m \/ i = m + 1
      BY <1>1
    <3>5. \A i \in 1 .. m + 1 : Applies(a, i, old)
      BY <3>2, <3>3, <3>4, Zenon
    <3> QED BY <1>1, <2>2, <3>1, <3>5, Zenon DEF AllApply
  <2> QED BY <2>3, <2>4, Zenon
<1> QED BY <1>2, <1>3, Zenon

\* A step that queues at most one delta that may follow keeps a key's deltas applicable.
LEMMA QueueingApplies ==
  ASSUME NoCompressor, PipelineInv, NEW k \in Keys, AllApply(InFlight(k), known[k]), LockFree,
         UNCHANGED <<popKey, known>>,
         \/ items'[k] = items[k]
         \/ \E d \in Delta : MayFollow(d, items[k], known[k]) /\ items'[k] = Queued(items[k], d)
  PROVE  AllApply(InFlight(k), known[k])'
<1>1. InFlight(k) = items[k] /\ InFlight(k)' = items'[k]
  BY KeysAssumption, Zenon DEF LockFree, InFlight
<1>2. items[k] \in Deltas /\ AllApply(items[k], known[k])
  BY <1>1, Zenon DEF PipelineInv, FifoInv, TypeOK
<1>3. AllApply(items'[k], known[k])
  BY <1>2, QueuedApplies, Zenon
<1> QED BY <1>1, <1>3, Zenon DEF AllApply, Applies

\* Replace deletes what the store has, and brings what is listed.
LEMMA SyncWithApplies ==
  ASSUME NoCompressor, PipelineInv, DeltasApply, SyncWith, NEW k \in Keys
  PROVE  AllApply(InFlight(k), known[k])'
<1> DEFINE list == hist[resourceVersion]
<1>1. resourceVersion \in 1..Len(hist) /\ hist \in Seq([Keys -> Nat])
  BY DEF PipelineInv, InformerTypeOK, Versioned, SyncWith
<1>2. list \in [Keys -> Nat] /\ FifoInv /\ hasKnown /\ AllApply(InFlight(k), known[k])
  BY <1>1 DEF PipelineInv, DeltasApply
<1>3. LockFree /\ UNCHANGED <<popKey, known>> /\ items' = ReplacedItems(list)
  BY DEF SyncWith, Replace, popVars
<1> HIDE DEF list
<1>4. CASE k \in Listed(list)
  <2> DEFINE d == MkDelta("Sync", list[k])
  <2>1. d \in Delta /\ items'[k] = Queued(items[k], d) /\ list[k] # NoObj
    BY <1>2, <1>3, <1>4, ReplacedKeys, Zenon
  <2>2. MayFollow(d, items[k], known[k])
    BY <2>1 DEF MayFollow, MkDelta
  <2> HIDE DEF d
  <2> QED BY <1>2, <1>3, <2>1, <2>2, QueueingApplies, Zenon
<1>5. CASE k \in Gone(list)
  <2> DEFINE d == DeletedFinalStateUnknown(known[k])
  <2>1. d \in Delta /\ items'[k] = Queued(items[k], d) /\ known[k] # NoObj
    BY <1>2, <1>3, <1>5, ReplacedKeys, Zenon
  <2>2. MayFollow(d, items[k], known[k])
    BY <2>1 DEF MayFollow, DeletedFinalStateUnknown
  <2> HIDE DEF d
  <2> QED BY <1>2, <1>3, <2>1, <2>2, QueueingApplies, Zenon
<1>6. CASE k \notin Listed(list) /\ k \notin Gone(list)
  <2>1. items'[k] = items[k]
    BY <1>2, <1>3, <1>6, ReplacedKeys, Zenon
  <2> QED BY <1>2, <1>3, <2>1, QueueingApplies, Zenon
<1> QED BY <1>4, <1>5, <1>6, Zenon

\* Delete drops the deletion of what is neither known nor queued.
LEMMA WatchEventApplies ==
  ASSUME NoCompressor, PipelineInv, DeltasApply, WatchEvent, NEW k \in Keys
  PROVE  AllApply(InFlight(k), known[k])'
<1> DEFINE old(j) == hist[resourceVersion][j]
           new(j) == hist[resourceVersion+1][j]
<1>1. PICK j \in Keys :
        /\ old(j) # new(j)
        /\ \/ old(j) = NoObj /\ Add(j, new(j))
           \/ old(j) # NoObj /\ new(j) # NoObj /\ Update(j, new(j))
           \/ new(j) = NoObj /\ Delete(j, old(j))
  BY Zenon DEF WatchEvent
<1>2. old(j) \in Nat /\ new(j) \in Nat
  <2>1. /\ resourceVersion \in 1..Len(hist) /\ resourceVersion + 1 \in 1..Len(hist)
        /\ hist \in Seq([Keys -> Nat])
    BY DEF WatchEvent, PipelineInv, InformerTypeOK, Versioned
  <2> QED BY <2>1
<1> HIDE DEF old, new
<1>3. LockFree /\ UNCHANGED <<popKey, known>> /\ AllApply(InFlight(k), known[k]) /\ hasKnown
  BY <1>1, Zenon DEF Add, Update, Delete, popVars, DeltasApply, PipelineInv
<1>4. \/ UNCHANGED items
      \/ \E d \in Delta : MayFollow(d, items[j], known[j]) /\ queueActionLocked(j, d)
  <2>1. CASE old(j) = NoObj /\ Add(j, new(j))
    <3>1. MkDelta("Added", new(j)) \in Delta
      BY <1>2, DeltaType, Zenon
    <3>2. MayFollow(MkDelta("Added", new(j)), items[j], known[j])
      BY <1>1, <2>1 DEF MayFollow, MkDelta
    <3> QED BY <2>1, <3>1, <3>2, Zenon DEF Add
  <2>2. CASE new(j) # NoObj /\ Update(j, new(j))
    <3>1. MkDelta("Updated", new(j)) \in Delta
      BY <1>2, DeltaType, Zenon
    <3>2. MayFollow(MkDelta("Updated", new(j)), items[j], known[j])
      BY <2>2 DEF MayFollow, MkDelta
    <3> QED BY <2>2, <3>1, <3>2, Zenon DEF Update
  <2>3. CASE Delete(j, old(j))
    <3>1. MkDelta("Deleted", old(j)) \in Delta
      BY <1>2, DeltaType, Zenon
    <3>2. CASE items[j] = <<>> /\ known[j] = NoObj
      BY <1>3, <2>3, <3>2, Zenon DEF Delete
    <3>3. CASE ~(items[j] = <<>> /\ known[j] = NoObj)
      <4>1. queueActionLocked(j, MkDelta("Deleted", old(j)))
        BY <1>3, <2>3, <3>3, Zenon DEF Delete
      <4>2. MayFollow(MkDelta("Deleted", old(j)), items[j], known[j])
        BY <3>3 DEF MayFollow, MkDelta
      <4> QED BY <3>1, <4>1, <4>2, Zenon
    <3> QED BY <3>2, <3>3, Zenon
  <2> QED BY <1>1, <2>1, <2>2, <2>3, Zenon
<1>5. \/ items'[k] = items[k]
      \/ \E d \in Delta : MayFollow(d, items[k], known[k]) /\ items'[k] = Queued(items[k], d)
  <2>1. items \in [Keys -> Deltas]
    BY Zenon DEF PipelineInv, FifoInv, TypeOK
  <2> QED BY <1>4, <2>1, Zenon DEF queueActionLocked
<1> QED BY <1>3, <1>5, QueueingApplies, Zenon

\* Resync brings what the store has.
LEMMA ResyncApplies ==
  ASSUME NoCompressor, PipelineInv, DeltasApply, ResyncTick, NEW k \in Keys
  PROVE  AllApply(InFlight(k), known[k])'
<1>1. /\ LockFree /\ UNCHANGED <<popKey, known>> /\ items' = ResyncedItems
      /\ AllApply(InFlight(k), known[k])
  BY Zenon DEF ResyncTick, Resync, popVars, DeltasApply
<1>2. MkDelta("Sync", known[k]) \in Delta
  BY DeltaType DEF PipelineInv, FifoInv, TypeOK
<1>3. known[k] # NoObj => MayFollow(MkDelta("Sync", known[k]), items[k], known[k])
  BY DEF MayFollow, MkDelta
<1>4. \/ items'[k] = items[k]
      \/ \E d \in Delta : MayFollow(d, items[k], known[k]) /\ items'[k] = Queued(items[k], d)
  BY <1>1, <1>2, <1>3 DEF ResyncedItems
<1> QED BY <1>1, <1>4, QueueingApplies, Zenon

\* After a delta that brought an object the store has one.
LEMMA HandleApplies ==
  ASSUME PipelineInv, DeltasApply, HandleDelta, NEW k \in Keys
  PROVE  AllApply(InFlight(k), known[k])'
<1>1. PICK p \in Keys :
        /\ p = popKey /\ item \in Seq(Delta) /\ next \in 1..Len(item)
        /\ InFlight(p) = SubSeq(item, next, Len(item))
        /\ InFlight(p)' = SubSeq(item, next+1, Len(item))
        /\ known' = [known EXCEPT ![p] = Effect(item[next])]
        /\ \A j \in Keys : j # p => InFlight(j)' = InFlight(j)
  BY HandleInFlight, Zenon DEF HandleDelta
<1>2. known \in [Keys -> Nat]
  BY Zenon DEF PipelineInv, FifoInv, TypeOK
<1>3. CASE k # p
  BY <1>1, <1>2, <1>3, Zenon DEF DeltasApply, AllApply, Applies
<1>4. CASE k = p
  <2> DEFINE s == SubSeq(item, next, Len(item))
             t == SubSeq(item, next+1, Len(item))
             e == Effect(item[next])
  <2>1. /\ Len(s) \in Nat /\ Len(t) = Len(s) - 1 /\ Len(s) >= 1 /\ s[1] = item[next]
        /\ \A i \in 1..Len(t) : t[i] = s[i+1]
    BY <1>1
  <2>2. AllApply(s, known[k])
    BY <1>1, <1>4, Zenon DEF DeltasApply
  <2>3. InFlight(k)' = t /\ known'[k] = e
    BY <1>1, <1>2, <1>4, Zenon
  <2> HIDE DEF s, t
  <2>4. s[1].type # "Deleted" => e # NoObj
    <3>1. 1 \in 1..Len(s)
      BY <2>1
    <3>2. Applies(s, 1, known[k])
      BY <2>2, <3>1, Zenon DEF AllApply
    <3> QED BY <2>1, <3>2, Zenon DEF Applies, Effect
  <2> HIDE DEF e
  <2>5. ASSUME NEW i \in 1..Len(t) PROVE Applies(t, i, e)
    <3>1. Applies(s, i+1, known[k]) /\ t[i] = s[i+1]
      BY <2>1, <2>2, <2>5 DEF AllApply
    <3>2. i + 1 # 1 /\ i + 1 - 1 = i
      BY <2>5
    <3>3. t[i].type = "Deleted" => s[i].type # "Deleted"
      BY <3>1, <3>2 DEF Applies
    <3>4. t[i].type # "Deleted" => t[i].obj # NoObj
      BY <3>1, Zenon DEF Applies
    <3>5. i # 1 => s[i] = t[i-1]
      BY <2>1, <2>5
    <3> QED BY <2>4, <3>3, <3>4, <3>5, Zenon DEF Applies
  <2> QED BY <2>3, <2>5, Zenon DEF AllApply, Applies
<1> QED BY <1>3, <1>4, Zenon

\* Every step keeps the deltas applicable.
LEMMA AppliesNext ==
  ASSUME NoCompressor, PipelineInv, QueueMatchesItems, DeltasApply, [Next]_informerVars
  PROVE  DeltasApply'
<1> SUFFICES ASSUME NEW k \in Keys PROVE AllApply(InFlight(k), known[k])'
  BY Zenon DEF DeltasApply
<1>1. ASSUME known' = known, InFlight(k)' = InFlight(k) PROVE AllApply(InFlight(k), known[k])'
  BY <1>1, Zenon DEF DeltasApply, AllApply, Applies
<1>2. CASE UNCHANGED vars
  BY <1>1, <1>2, Zenon DEF vars, popVars, fifoVars, InFlight
<1>3. CASE ControllerPop
  BY <1>1, <1>3, PopInFlight, Zenon DEF ControllerPop, Pop
<1> QED BY <1>2, <1>3, SyncWithApplies, WatchEventApplies, ResyncApplies, HandleApplies, Zenon
        DEF Next, ServerChange, List, WatchError, informerVars

\* HandleDeltas deletes from the indexer, and tells its listeners of a deletion, only when
\* the object is there; every other delta brings an object.  (Module SharedInformer starts
\* from this: its deltas fit the store.)
THEOREM DeltasFitTheStore ==
  ASSUME NoCompressor
  PROVE  Spec => [](~LockFree => IF item[next].type = "Deleted"
                                 THEN known[popKey] # NoObj
                                 ELSE item[next].obj # NoObj)
<1>1. Init => DeltasApply
  <2> SUFFICES ASSUME Init, NEW k \in Keys PROVE AllApply(InFlight(k), known[k])
    BY Zenon DEF DeltasApply
  <2>1. InFlight(k) = <<>>
    BY KeysAssumption, Zenon DEF Init, FifoInit, InFlight
  <2> QED BY <2>1 DEF AllApply
<1>2. PipelineInv /\ QueueMatchesItems /\ DeltasApply /\ [Next]_informerVars => DeltasApply'
  BY AppliesNext, Zenon
<1>3. ASSUME PipelineInv, DeltasApply, ~LockFree
      PROVE  IF item[next].type = "Deleted" THEN known[popKey] # NoObj ELSE item[next].obj # NoObj
  <2>1. popKey \in Keys /\ item \in Seq(Delta) /\ next \in 1..Len(item)
    BY <1>3 DEF PipelineInv, FifoInv, TypeOK, LockFree, Deltas
  <2> DEFINE s == SubSeq(item, next, Len(item))
  <2>2. 1 \in 1..Len(s) /\ s[1] = item[next]
    BY <2>1
  <2>3. AllApply(s, known[popKey])
    BY <1>3, <2>1, Zenon DEF DeltasApply, InFlight
  <2> HIDE DEF s
  <2> QED BY <2>2, <2>3, Zenon DEF AllApply, Applies
<1>4. PipelineInv /\ DeltasApply
        => (~LockFree => IF item[next].type = "Deleted" THEN known[popKey] # NoObj
                         ELSE item[next].obj # NoObj)
  BY <1>3, Zenon
<1> QED BY <1>1, <1>2, <1>4, PipelineInvariant, QueueIsItems, PTL DEF Spec
=============================================================================
