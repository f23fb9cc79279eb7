----------------------------- MODULE DeltaFIFO -----------------------------
(***************************************************************************)
(* client-go's DeltaFIFO (tools/cache/delta_fifo.go): a queue of object    *)
(* keys, each with the list of changes (Deltas) that happened to the       *)
(* object while it waited.  A producer calls Add, Update, Delete, Replace  *)
(* and Resync; a consumer calls Pop, whose process function runs under the *)
(* queue's lock and keeps the knownObjects store up to date.               *)
(*                                                                         *)
(* Every method holds f.lock from beginning to end, so every method is one *)
(* action.  Pop is the exception: the process function is a loop over the  *)
(* popped deltas that other threads can observe through knownObjects, so   *)
(* it is one action per delta, and the other methods wait while it runs.   *)
(*                                                                         *)
(* An object is represented by its resourceVersion, a positive number.     *)
(***************************************************************************)
EXTENDS Integers, Sequences, FiniteSets, Functions

CONSTANTS
  Keys,         \* the keys that keyFunc computes
  NoKey,        \* "no key": no Pop is running its process function
  Compress(_)   \* deltaCompressor.Compress; the identity when it is nil

NoObj == 0                  \* "no object": absent from a store or a list
Obj   == Nat \ {NoObj}

\* What a producer inserted or a compressor returned; DeletedFinalStateUnknown
\* objects are marked by "unknown" and may hold no object at all.
Delta == [type : {"Added", "Updated", "Deleted", "Sync"},
          obj : Nat, unknown : BOOLEAN]
Deltas == Seq(Delta)

ASSUME KeysAssumption == IsFiniteSet(Keys) /\ NoKey \notin Keys

VARIABLES
  queue,        \* f.queue: the keys, in the order they are to be popped
  items,        \* f.items: deltas by key; <<>> stands for a key not in the map
  populated,    \* f.populated
  initialPopulationCount,
  hasKnown,     \* f.knownObjects # nil
  known,        \* f.knownObjects: key -> object, NoObj when it is not there
  popKey,       \* Pop's local id, NoKey when no process function is running
  item,         \* Pop's local item, the deltas passed to process
  next,         \* the index in item of the delta that process handles next
  firstBatch    \* history: queued keys of the first Replace, not popped yet

fifoVars == <<queue, items, populated, initialPopulationCount, hasKnown>>
popVars  == <<popKey, item, next>>
vars     == <<fifoVars, popVars, known, firstBatch>>

Last(ds) == ds[Len(ds)]
-----------------------------------------------------------------------------
(* Deltas of one key: what queueActionLocked makes of them.                *)

MkDelta(t, o) == [type |-> t, obj |-> o, unknown |-> FALSE]
DeletedFinalStateUnknown(o) == [type |-> "Deleted", obj |-> o, unknown |-> TRUE]

\* Both are deletions: keep the older one unless its final state is unknown.
IsDeletionDup(a, b) == a.type = "Deleted" /\ b.type = "Deleted"
TheDeletion(a, b)   == IF b.unknown THEN a ELSE b

DedupDeltas(ds) ==
  LET n == Len(ds) IN
  IF n >= 2 /\ IsDeletionDup(ds[n], ds[n-1])
  THEN Append(SubSeq(ds, 1, n-2), TheDeletion(ds[n], ds[n-1]))
  ELSE ds

WillObjectBeDeleted(ds) == ds # <<>> /\ Last(ds).type = "Deleted"

\* The deltas of a key after queueActionLocked(d.type, d.obj).
Queued(ds, d) ==
  IF d.type = "Sync" /\ WillObjectBeDeleted(ds)
  THEN ds
  ELSE Compress(DedupDeltas(Append(ds, d)))

\* All the orders in which a Go map or a list can yield the elements of S.
Orders(S) == Bijection(1..Cardinality(S), S)

\* Keys that were not in items and are now: their ids go to the queue.
Fresh(S, new) == {k \in S : items[k] = <<>> /\ new[k] # <<>>}

LockFree == popKey = NoKey

\* Mutants of queueActionLocked: the new id goes to the front of the queue; ...
queueActionFirst(k, d) ==
  LET newDeltas == Queued(items[k], d) IN
  /\ items' = [items EXCEPT ![k] = newDeltas]
  /\ queue' = IF items[k] = <<>> /\ newDeltas # <<>>
              THEN <<k>> \o queue ELSE queue
\* ... an id is appended although the key has one; ...
queueActionAlways(k, d) ==
  /\ items' = [items EXCEPT ![k] = Queued(items[k], d)]
  /\ queue' = Append(queue, k)
\* ... no id is appended.
queueActionNoId(k, d) ==
  /\ items' = [items EXCEPT ![k] = Queued(items[k], d)]
  /\ UNCHANGED queue

queueActionLocked(k, d) ==
  LET newDeltas == Queued(items[k], d) IN
  /\ items' = [items EXCEPT ![k] = newDeltas]
  /\ queue' = IF items[k] = <<>> /\ newDeltas # <<>>
              THEN Append(queue, k) ELSE queue
-----------------------------------------------------------------------------
(* Producers                                                               *)

Add(k, o) ==
  /\ LockFree
  /\ populated' = TRUE
  /\ queueActionLocked(k, MkDelta("Added", o))
  /\ UNCHANGED <<initialPopulationCount, hasKnown, popVars, known, firstBatch>>

Update(k, o) ==
  /\ LockFree
  /\ populated' = TRUE
  /\ queueActionLocked(k, MkDelta("Updated", o))
  /\ UNCHANGED <<initialPopulationCount, hasKnown, popVars, known, firstBatch>>

\* Mutant: a deletion of an unknown key is dropped even when the key is queued.
DeleteIgnoringItems(k, o) ==
  /\ LockFree
  /\ populated' = TRUE
  /\ IF hasKnown /\ known[k] = NoObj
     THEN UNCHANGED <<items, queue>>
     ELSE queueActionLocked(k, MkDelta("Deleted", o))
  /\ UNCHANGED <<initialPopulationCount, hasKnown, popVars, known, firstBatch>>

\* A deletion of a key that is neither known nor queued is dropped.
Delete(k, o) ==
  /\ LockFree
  /\ populated' = TRUE
  /\ IF items[k] = <<>> /\ (~hasKnown \/ known[k] = NoObj)
     THEN UNCHANGED <<items, queue>>
     ELSE queueActionLocked(k, MkDelta("Deleted", o))
  /\ UNCHANGED <<initialPopulationCount, hasKnown, popVars, known, firstBatch>>

\* Mutant: the item goes back to the map, its id not to the queue.
addIfNotPresentNoId(k, ds) ==
  /\ populated' = TRUE
  /\ items' = IF items[k] # <<>> THEN items ELSE [items EXCEPT ![k] = ds]
  /\ UNCHANGED queue

addIfNotPresent(k, ds) ==
  /\ populated' = TRUE
  /\ IF items[k] # <<>>
     THEN UNCHANGED <<items, queue>>
     ELSE /\ items' = [items EXCEPT ![k] = ds]
          /\ queue' = Append(queue, k)

AddIfNotPresent(k, ds) ==
  /\ LockFree
  /\ addIfNotPresent(k, ds)
  /\ UNCHANGED <<initialPopulationCount, hasKnown, popVars, known, firstBatch>>

\* The keys Replace finds missing from the list, and their last known object:
\* in knownObjects when there is one, in the queue's own items otherwise.
Gone(list) ==
  {k \in Keys : /\ list[k] = NoObj
                /\ IF hasKnown THEN known[k] # NoObj ELSE items[k] # <<>>}
LastKnown(k) == IF hasKnown THEN known[k] ELSE Last(items[k]).obj

Listed(list) == {k \in Keys : list[k] # NoObj}

\* list: key -> listed object, NoObj for a key that is not in the list.
ReplacedItems(list) ==
  [k \in Keys |->
     IF k \in Listed(list) THEN Queued(items[k], MkDelta("Sync", list[k]))
     ELSE IF k \in Gone(list)
          THEN Queued(items[k], DeletedFinalStateUnknown(LastKnown(k)))
          ELSE items[k]]

\* Mutant: the listed objects are not counted.
ReplacePopulationOfGone(list) == IF hasKnown THEN Cardinality(Gone(list)) ELSE 0

ReplacePopulation(list) ==
  Cardinality(Listed(list)) + IF hasKnown THEN Cardinality(Gone(list)) ELSE 0

Replace(list) ==
  LET new == ReplacedItems(list) IN
  /\ LockFree
  /\ items' = new
  /\ \E l \in Orders(Fresh(Listed(list), new)), d \in Orders(Fresh(Gone(list), new)) :
       queue' = queue \o (l \o d)
  /\ populated' = TRUE
  /\ initialPopulationCount' = IF populated THEN initialPopulationCount
                               ELSE ReplacePopulation(list)
  /\ firstBatch' = IF populated THEN firstBatch
                   ELSE {k \in Listed(list) \cup Gone(list) : new[k] # <<>>}
  /\ UNCHANGED <<hasKnown, popVars, known>>

\* Mutant: keys with queued deltas are resynced too.
ResyncedItemsUnchecked ==
  [k \in Keys |-> IF hasKnown /\ known[k] # NoObj
                  THEN Queued(items[k], MkDelta("Sync", known[k]))
                  ELSE items[k]]

\* A key with queued deltas is skipped: its known object is out of date.
ResyncedItems ==
  [k \in Keys |-> IF hasKnown /\ known[k] # NoObj /\ items[k] = <<>>
                  THEN Queued(<<>>, MkDelta("Sync", known[k]))
                  ELSE items[k]]

Resync ==
  /\ LockFree
  /\ items' = ResyncedItems
  /\ \E l \in Orders(Fresh(Keys, ResyncedItems)) : queue' = queue \o l
  /\ UNCHANGED <<populated, initialPopulationCount, hasKnown, popVars, known, firstBatch>>
-----------------------------------------------------------------------------
(* The consumer                                                            *)

\* Mutant: the counter is decremented without the test.
CountdownUnguarded(n) == initialPopulationCount - n

\* The population counter after n ids have been taken from the queue.
Countdown(n) == IF initialPopulationCount > n THEN initialPopulationCount - n ELSE 0

\* Pop's loop takes ids until one of them, the n-th, still has deltas.
Pop ==
  \E n \in 1..Len(queue) :
    /\ LockFree
    /\ \A i \in 1..n-1 : items[queue[i]] = <<>>
    /\ items[queue[n]] # <<>>
    /\ popKey' = queue[n]
    /\ item' = items[queue[n]]
    /\ next' = 1
    /\ items' = [items EXCEPT ![queue[n]] = <<>>]
    /\ queue' = SubSeq(queue, n+1, Len(queue))
    /\ initialPopulationCount' = Countdown(n)
    /\ firstBatch' = firstBatch \ {queue[i] : i \in 1..n}
    /\ UNCHANGED <<populated, hasKnown, known>>

\* No id has deltas (a compressor emptied them): Pop takes them all and waits.
PopOnlyStaleIds ==
  /\ LockFree
  /\ queue # <<>>
  /\ \A i \in 1..Len(queue) : items[queue[i]] = <<>>
  /\ queue' = <<>>
  /\ initialPopulationCount' = Countdown(Len(queue))
  /\ firstBatch' = firstBatch \ {queue[i] : i \in 1..Len(queue)}
  /\ UNCHANGED <<items, populated, hasKnown, popVars, known>>

\* What remains in a store after a delta has been applied to it.
Effect(d) == IF d.type = "Deleted" THEN NoObj ELSE d.obj

\* Mutant: only the newest delta is applied.
ProcessNewest ==
  /\ ~LockFree
  /\ known' = IF hasKnown THEN [known EXCEPT ![popKey] = Effect(Last(item))] ELSE known
  /\ popKey' = NoKey /\ item' = <<>> /\ next' = 0
  /\ UNCHANGED <<fifoVars, firstBatch>>

\* The process function handles one delta; after the last one Pop returns.
\* The store it keeps is the knownObjects of the queue, when there is one.
ProcessDelta ==
  /\ ~LockFree
  /\ known' = IF hasKnown THEN [known EXCEPT ![popKey] = Effect(item[next])] ELSE known
  /\ IF next < Len(item)
     THEN next' = next + 1 /\ UNCHANGED <<popKey, item>>
     ELSE popKey' = NoKey /\ item' = <<>> /\ next' = 0
  /\ UNCHANGED <<fifoVars, firstBatch>>

\* The process function returns ErrRequeue: the whole item goes back.
ProcessRequeue ==
  /\ ~LockFree
  /\ addIfNotPresent(popKey, item)
  /\ popKey' = NoKey /\ item' = <<>> /\ next' = 0
  /\ UNCHANGED <<initialPopulationCount, hasKnown, known, firstBatch>>
-----------------------------------------------------------------------------
(* NewDeltaFIFO *)

\* knownObjects may be nil, or a store that already holds objects.
FifoInit(store) ==
  /\ queue = <<>>
  /\ items = [k \in Keys |-> <<>>]
  /\ populated = FALSE
  /\ initialPopulationCount = 0
  /\ hasKnown \in BOOLEAN
  /\ known = IF hasKnown THEN store ELSE [k \in Keys |-> NoObj]
  /\ popKey = NoKey
  /\ item = <<>>
  /\ next = 0
  /\ firstBatch = {}
-----------------------------------------------------------------------------
(* Properties *)

\* Every variable has the type of the Go field or local it stands for.
TypeOK ==
  /\ queue \in Seq(Keys)
  /\ items \in [Keys -> Deltas]
  /\ populated \in BOOLEAN
  /\ initialPopulationCount \in Nat
  /\ hasKnown \in BOOLEAN
  /\ known \in [Keys -> Nat]
  /\ popKey \in Keys \cup {NoKey}
  /\ item \in Deltas
  /\ next \in Nat
  /\ LockFree <=> item = <<>>
  /\ ~LockFree => next \in 1..Len(item)
  /\ firstBatch \subseteq Keys

\* No change is stranded: a key with deltas has an id in the queue, whatever
\* the compressor does and however often items are requeued, so that some
\* later Pop hands the deltas out.
NoItemStranded == \A k \in Keys : items[k] # <<>> => k \in Range(queue)

\* f.populated && f.initialPopulationCount == 0
HasSynced == populated /\ initialPopulationCount = 0

\* HasSynced says true only once every key that the first Replace put in the
\* queue has been popped, whatever was added, resynced, replaced again or
\* requeued in between.
SyncedMeansFirstBatchPopped == HasSynced => firstBatch = {}

\* The comment on the items field: the items in the set are in the queue and
\* vice versa (each once).  False for a compressor that can return no deltas.
QueueMatchesItems ==
  /\ \A k \in Keys : items[k] # <<>> <=> k \in Range(queue)
  /\ IsInjective(queue)

\* Ids are popped in the order they were queued: a step takes ids from the
\* front of the queue and adds new ones behind those that remain.  The comment on
\* Pop says so.  Replace is such a step, although its comment says that the queue
\* is reset and then has the listed items in no particular order, and the one on
\* FullResyncPeriod in controller.go that it replaces the entire queue.
FirstInFirstOut ==
  [][\E n \in 0..Len(queue) :
       /\ Len(queue') >= Len(queue) - n
       /\ SubSeq(queue', 1, Len(queue) - n) = SubSeq(queue, n+1, Len(queue))
       /\ n > 0 => Len(queue') = Len(queue) - n]_queue

=============================================================================
