------------------------------ MODULE Informer ------------------------------
(***************************************************************************)
(* client-go's informer pipeline: an API server (external), the Reflector  *)
(* that lists and watches it (tools/cache/reflector.go), the DeltaFIFO it  *)
(* feeds, and the controller whose process loop applies the deltas to the  *)
(* indexer, the store that clients read (controller.go, HandleDeltas in    *)
(* shared_informer.go).                                                    *)
(*                                                                         *)
(* The store is the DeltaFIFO's knownObjects, written only by HandleDeltas *)
(* under the queue's lock, and the queue has no compressor.                *)
(***************************************************************************)
EXTENDS DeltaFIFO

CONSTANTS
  MaxRevision,  \* bound: the server stops changing at this revision
  MaxRelists    \* bound: the number of times the watch fails

ASSUME LimitsAssumption == MaxRevision \in Nat \ {0} /\ MaxRelists \in Nat

VARIABLES
  hist,         \* the server: hist[r] is its contents at resourceVersion r
  phase,        \* where ListAndWatch is: "list", "sync" or "watch"
  resourceVersion,           \* ListAndWatch's local
  lastSyncResourceVersion,   \* the Reflector's field, 0 for ""
  relists,      \* the number of watches that have failed
  overlooked,   \* history: keys whose listed state Replace failed to queue
  oldestList    \* history: the oldest resourceVersion ever listed

reflectorVars == <<phase, resourceVersion, lastSyncResourceVersion, relists,
                   overlooked, oldestList>>
informerVars == <<vars, hist, reflectorVars>>

\* An object is represented by the revision of its last change.
Server == hist[Len(hist)]

\* What the Reflector has told the queue: the server at the last sync.
Reflected(k) == IF lastSyncResourceVersion = 0 THEN NoObj
                ELSE hist[lastSyncResourceVersion][k]

Init ==
  /\ FifoInit([k \in Keys |-> NoObj])
  /\ hasKnown = TRUE
  /\ hist \in {<<s>> : s \in [Keys -> {NoObj, 1}]}
  /\ phase = "list"
  /\ resourceVersion = 0
  /\ lastSyncResourceVersion = 0
  /\ relists = 0
  /\ overlooked = {}
  /\ oldestList = 0
-----------------------------------------------------------------------------
(* The API server *)

\* A client creates, changes or deletes an object: the next revision.
ServerChange(k) ==
  LET r == Len(hist) + 1 IN
  /\ r <= MaxRevision
  /\ \E o \in {NoObj, r} : /\ o # Server[k]
                           /\ hist' = Append(hist, [Server EXCEPT ![k] = o])
  /\ UNCHANGED <<vars, reflectorVars>>
-----------------------------------------------------------------------------
(* The Reflector *)

\* Mutant: the watch is to start one revision after the list's.
ListOffByOne ==
  /\ phase = "list"
  /\ \E r \in 1..Len(hist) :
       /\ resourceVersion' = r + 1
       /\ oldestList' = IF oldestList = 0 \/ r < oldestList THEN r ELSE oldestList
  /\ phase' = "sync"
  /\ UNCHANGED <<vars, hist, lastSyncResourceVersion, relists, overlooked>>

\* List with ResourceVersion "0": the server may answer from any revision.
List ==
  /\ phase = "list"
  /\ \E r \in 1..Len(hist) :
       /\ resourceVersion' = r
       /\ oldestList' = IF oldestList = 0 \/ r < oldestList THEN r ELSE oldestList
  /\ phase' = "sync"
  /\ UNCHANGED <<vars, hist, lastSyncResourceVersion, relists, overlooked>>

\* The two cases in which Replace queues nothing that brings a key to its
\* listed state: the key's Sync is ignored because its last queued delta is a
\* deletion; or the key is gone and only queued, not known, so that no deletion
\* is detected.
Overlooked(list) ==
  {k \in Keys : /\ items[k] # <<>>
                /\ \/ list[k] # NoObj /\ WillObjectBeDeleted(items[k])
                   \/ list[k] = NoObj /\ known[k] = NoObj /\ ~WillObjectBeDeleted(items[k])}

\* syncWith hands the list to Replace; then the watch starts.
SyncWith ==
  /\ phase = "sync"
  /\ Replace(hist[resourceVersion])
  /\ lastSyncResourceVersion' = resourceVersion
  /\ overlooked' = Overlooked(hist[resourceVersion])
  /\ phase' = "watch"
  /\ UNCHANGED <<hist, resourceVersion, relists, oldestList>>

\* watchHandler receives the event of the next revision and queues it.
WatchEvent ==
  LET r == resourceVersion + 1 IN
  /\ phase = "watch"
  /\ r <= Len(hist)
  /\ \E k \in Keys :
       LET old == hist[resourceVersion][k]
           new == hist[r][k] IN
       /\ old # new
       /\ \/ old = NoObj /\ Add(k, new)
          \/ old # NoObj /\ new # NoObj /\ Update(k, new)
          \/ new = NoObj /\ Delete(k, old)
       /\ overlooked' = overlooked \ {k}
  /\ resourceVersion' = r
  /\ lastSyncResourceVersion' = r
  /\ UNCHANGED <<hist, phase, relists, oldestList>>

\* The watch ends with an error, or cannot be started: ListAndWatch returns
\* and Run calls it again.  (A watch that ends without one, or is refused a
\* connection, is restarted from resourceVersion: no state changes.)
WatchError ==
  /\ phase = "watch"
  /\ relists < MaxRelists
  /\ relists' = relists + 1
  /\ phase' = "list"
  /\ UNCHANGED <<vars, hist, resourceVersion, lastSyncResourceVersion, overlooked, oldestList>>

\* The resync goroutine, started after the first list; the one of a finished
\* ListAndWatch may tick once more before it sees cancelCh.
ResyncTick ==
  /\ lastSyncResourceVersion # 0
  /\ Resync
  /\ UNCHANGED <<hist, reflectorVars>>
-----------------------------------------------------------------------------
(* The controller *)

\* processLoop pops; HandleDeltas applies the deltas to the indexer.
ControllerPop == Pop /\ UNCHANGED <<hist, reflectorVars>>
HandleDelta == ProcessDelta /\ UNCHANGED <<hist, reflectorVars>>

Next ==
  \/ \E k \in Keys : ServerChange(k)
  \/ List \/ SyncWith \/ WatchEvent \/ WatchError \/ ResyncTick
  \/ ControllerPop \/ HandleDelta

\* The Reflector and the controller are goroutines that run until stopCh is
\* closed; the server answers lists and delivers watch events.  Strong fairness
\* where the Reflector competes with Pop for the queue's lock: a Go mutex hands
\* itself over to a waiter that has waited for long.
Fairness ==
  /\ WF_informerVars(List) /\ SF_informerVars(SyncWith) /\ SF_informerVars(WatchEvent)
  /\ WF_informerVars(ControllerPop) /\ WF_informerVars(HandleDelta)

Spec == Init /\ [][Next]_informerVars /\ Fairness
-----------------------------------------------------------------------------
(* Properties *)

\* The types of the Reflector's state.
InformerTypeOK ==
  /\ hist \in Seq([Keys -> Nat]) /\ Len(hist) \in 1..MaxRevision
  /\ phase \in {"list", "sync", "watch"}
  /\ resourceVersion \in 0..Len(hist)
  /\ lastSyncResourceVersion \in 0..Len(hist)
  /\ relists \in 0..MaxRelists
  /\ overlooked \subseteq Keys
  /\ oldestList \in 0..Len(hist)

\* The deltas of k that have not reached the store, oldest first.
\* (While Pop handles k it holds the lock, and nothing is queued for k.)
InFlight(k) == IF popKey = k THEN SubSeq(item, next, Len(item)) ELSE items[k]

\* What the store will hold for k once everything in flight is applied.
Outcome(k) == IF InFlight(k) = <<>> THEN known[k] ELSE Effect(Last(InFlight(k)))

\* Watch events, relists, resyncs, retried and partly handled pops in any order:
\* what is in flight leads the store to exactly what the Reflector has seen,
\* except for the keys that the last relist overlooked.
OutcomeIsReflected == \A k \in Keys \ overlooked : Outcome(k) = Reflected(k)

\* Nothing is in flight and the Reflector has seen the whole history.
CaughtUp ==
  /\ phase = "watch" /\ lastSyncResourceVersion = Len(hist)
  /\ queue = <<>> /\ LockFree

\* Once HasSynced says true, the store holds for every key the state of the
\* server at some revision no older than the oldest list.
SyncedStoreIsNotOlder ==
  HasSynced /\ LockFree =>
    \A k \in Keys : \E r \in oldestList..Len(hist) : known[k] = hist[r][k]

\* When changes and failures stop, the store comes to equal the server and
\* stays so, except for overlooked keys.
EventuallyConsistent == \A k \in Keys : <>[](k \in overlooked \/ known[k] = Server[k])

\* "keep the given store up to date with the server's contents" (NewReflector):
\* no object of the store is missing from the server once it has caught up ...
NoGhost == CaughtUp => \A k \in Keys : Server[k] = NoObj => known[k] = NoObj

\* ... and no object of the server is missing from the store.
NoLoss == CaughtUp => \A k \in Keys : Server[k] # NoObj => known[k] = Server[k]

\* The abstract view of the pipeline: a channel per key from what the Reflector
\* observes to the store.
Effects(ds) == [i \in 1..Len(ds) |-> Effect(ds[i])]
Channels == INSTANCE KeyedChannels
              WITH pending <- [k \in Keys |-> Effects(InFlight(k))], store <- known

\* The queue neither drops, reorders nor invents what was queued for a key ...
ChannelsSafe == Channels!Safe
\* ... and every queued value reaches the store.
ChannelsLive == Channels!Live
=============================================================================
