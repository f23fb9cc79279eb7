# A verification project for Istio's vendored control-plane runtime

The repository is the vendor tree of Istio: the libraries its control plane is
built from. Most of its lines are data (generated API types, protobuf code,
Unicode tables) or clients of external services. What is hard to get right, and
shared by every Istio component that watches Kubernetes or configures Envoy, is a
small concurrent runtime. This project models that runtime in TLA+, checks it with
TLC and proves its main properties with TLAPS.

## The system

A Kubernetes controller, such as Pilot's, is a pipeline:

```
 API server --list/watch--> Reflector --Add/Update/Delete/Replace/Resync--> DeltaFIFO
      --Pop--> controller (HandleDeltas) --> indexer (the store) + listeners
      --keys--> work queue / delaying queue --Get/Done--> workers
```

* **Reflector** (`k8s.io/client-go/tools/cache/reflector.go`) lists a resource,
  hands the list to the queue with `Replace`, then applies watch events; a failed
  watch starts over with a list, and a goroutine calls `Resync` periodically.
* **DeltaFIFO** (`delta_fifo.go`) keeps, per key, the changes not yet handed out,
  and a queue of the keys. `Pop` runs its process function under the queue's lock.
* **Controller / shared informer** (`controller.go`, `shared_informer.go`) pops,
  applies the deltas to the indexer and notifies listeners. The indexer is also
  the queue's `knownObjects`, against which `Replace` detects deletions.
* **Work queue, delaying queue** (`k8s.io/client-go/util/workqueue`) hand each
  item to one worker at a time, and items to be retried after a delay.
* **xDS snapshot cache and server** (`go-control-plane/pkg/cache/simple.go`,
  `server/server.go`) are the other end: a management server sets a snapshot per
  node; a stream from an Envoy asks for each resource type with a version and a
  nonce; the cache answers at once or leaves an open watch that the next snapshot
  answers; the stream's `process` loop sends the answers with fresh nonces.
* **Shared informer listeners** (`shared_informer.go`, `util/buffer/ring_growing.go`)
  fan the changes out: `sharedProcessor` sends each notification to the listeners,
  and each listener's `pop` and `run` goroutines buffer it and call the handler.
* **Leader election** (`k8s.io/client-go/tools/leaderelection`) lets one of several
  replicas act: each keeps trying to write its name and the time into a record in an
  annotation of a lock object, and stops when it could not renew it for
  `RenewDeadline`.

`PROJECT.json` lists every part with its status, and the hazards with the source
line at which they bite.

## Modules

| module | models | state and actions |
|---|---|---|
| `DeltaFIFO` | `delta_fifo.go`, the effect of `HandleDeltas` | `queue`, `items`, `populated`, `initialPopulationCount` are the fields; `known` is `knownObjects`; `popKey`, `item`, `next` are `Pop`'s locals. One action per method, because each holds `f.lock`; `Pop` is followed by one `ProcessDelta` per delta, because the store is visible to others in between. |
| `DeltaFIFOClients` | any callers of a DeltaFIFO | every method, at any time, with any argument |
| `MCDeltaFIFO` | | a compressor that drops an object added and deleted while it waits |
| `PopClose` | `Pop`, `Close`, `IsClosed`, `controller.Run` | the lock operations inside `Pop` as separate steps, against `Close`, which takes another lock |
| `Informer` | `reflector.go`, `controller.go` over `DeltaFIFO` | `hist` is the (external) API server: its contents at every revision; `phase`, `resourceVersion`, `lastSyncResourceVersion` are the Reflector's |
| `MCInformer` | | the nil compressor |
| `KeyedChannels` | what queue and event loop promise | one ordered channel per key from the Reflector to the store |
| `WorkQueue` | `queue.go` and its workers | the four fields, and where each worker is in its Get/Done loop |
| `WorkSet` | what a work queue promises | a set of marked items, each worked on by one worker at a time |
| `DelayingQueue` | `delaying_queue.go` over `WorkQueue` | channel, heap, timer, clock; the callers of `AddAfter` and `waitingLoop` step by step |
| `SnapshotCache` | `simple.go`, `snapshot.go`, `status.go` for one node | `snaps`, `current` are the snapshots set and `snapshots[node]`; `watches` is `status[node].watches`; `value` holds what is in each watch's channel. One operator per method, each under `cache.mu`. |
| `XdsServer` | `server.go` over `SnapshotCache` | per stream the fields of `watches` (channel, cancel function and nonce per type) and `streamNonce`; `Receive`, `Watch`, `Send`, `End` are the steps of `process`; the (external) Envoy applies, rejects, reconnects |
| `RingGrowing` | `ring_growing.go` | a ring as a record of the struct's fields; `ReadOne` and `WriteOne` as functions of it |
| `SharedInformer` | `shared_informer.go` over `RingGrowing` | `store` is the indexer; the three locks (`startedLock`, `blockDeltas`, the `RWMutex` `listenersLock` with its waiting writer) and the unbuffered channels are explicit; actions are the steps between lock and channel operations of `Run`, `HandleDeltas`, `distribute`, `AddEventHandler`, `shouldResync`, `sharedProcessor.run`, and each listener's `pop` and `run` |
| `MCSharedInformer` | | a slow listener that joins before the start and never resyncs, one that joins at any time and does |
| `LeaderElection` | `leaderelection.go`, `configmaplock.go`, `JitterUntil` and `Poll` of `wait.go` | `record`, `exists`, `current`, `late` are the (external) lock object, who has read its present version, and the writes on their way; per elector the fields of `LeaderElector`, the locals of `tryAcquireOrRenew` and the timers. A call of the API is a request, its handling by the server and its return. |
| `MCLeaderElection` | | two electors with skewed clocks, one of them with slow and failing calls |
| `ConfigFeed` | what cache and server promise an Envoy | per type, moves to later published snapshots, each taken whole |
| `DeltaFIFO_proofs`, `Informer_proofs`, `WorkQueue_proofs`, `XdsServer_proofs`, `XdsStreams_proofs`, `XdsFeed_proofs`, `LeaderElection_proofs`, `SharedInformer_proofs` | | theorems |

Objects are represented by their resource version (0 is "no object"), keys and
items by model values. Errors of `keyFunc` and of the store, metrics and logging
are left out. The variables called *history* in the modules (`firstBatch`,
`overlooked`, `oldestList`, `owed`, `missed`, `writtenAt`), and `silent` of `XdsServer`, record the past for
a property and guard no action.

A snapshot is the set of names of its clusters, which is also the set of names of
its endpoints, as the cache asks of its caller in ADS mode; its version is its place
in the order of `SetSnapshot` calls, so versions are distinct, as it asks too. Two of
the four types are modelled; listeners and routes are a second such pair, handled by
the same code. The Envoy is modelled from what cache and server expect of it: it
answers each response with the response's nonce and its new version (or its old one,
when it rejects it), asks for endpoints when the clusters it is told of change, and
reconnects. A stream it has left may live on in the server for a while, and a request
already read from it is still handled.

`SharedInformer` abstracts the queue in front of it, which is `DeltaFIFO`'s matter: a
call of `HandleDeltas` gets any deltas of one key that fit the store, a change
(`Change`), a Sync with another object from a list (`Relist`), a Sync with nothing new
(`Resync`) or a deletion of what is there; that the queue delivers no others is proved
on the side of `Informer` (`DeltasFitTheStore`). An object's version is here the number
of the change of the store that brought it, so it grows also when a list is served from
an old revision. Which listeners are due at a resync is any choice, and so is when: a
`shouldResync` may come as soon as the controller runs. This makes one deadlock of the
code reachable, which the module names `Wedged`: `distribute` has `listenersLock` for
reading and waits for a listener that `sharedProcessor.run` has not started, a
`shouldResync` waits for the lock, and `run`, which needs it for reading, is kept out
behind that writer. `run` is spawned before the controller, so it takes a goroutine not
scheduled for a whole resync period. `Delivered` and `Completes` except this state by
name, and nothing else.

In `LeaderElection` time is counted in ticks, and the clocks run at one rate with any
offsets. A call of elector e takes up to `MaxCall[e]`, pauses of the process
included. Only electors in `Flaky` see errors, lose answers or crash; what
they wrote may be applied later, unless another write comes first, as every
write carries the version that was read. The leader's own copy of its record is
represented by its holder, which is all that the code uses of it.

An operator introduced as a *mutant* stands just before the definition it varies
and shows that a property is not vacuous: with the definition replaced by the
mutant, TLC finds the property violated. `PROJECT.json` pairs them.

## Runs

| run | result | what it shows |
|---|---|---|
| `deltafifo` | holds | With a compressor that empties items, without `knownObjects` or with one that holds anything at the start, and items requeued at any point: no delta is stranded (`NoItemStranded`), `HasSynced` is not early (`SyncedMeansFirstBatchPopped`), ids leave in order (`FirstInFirstOut`, as `Pop`'s comment says; the comment of `Replace` says otherwise, see below), no delta waits for ever (`EventuallyPopped`). |
| `informer` | holds | `OutcomeIsReflected`: store plus everything in flight is exactly what the Reflector last saw, but for keys the last relist overlooked. `SyncedStoreIsNotOlder`: after `HasSynced` the store is not older than the oldest list. `EventuallyConsistent`: it catches up. `ChannelsSafe`, `ChannelsLive`: the refinement of `KeyedChannels`. |
| `informer_ghost` | violated | A key that is queued but not in the store when a relist finds it gone gets no deletion, and the store comes to hold it; a later relist, or an event of the key, corrects that. |
| `informer_loss` | violated | A key whose deletion is queued when a relist finds it re-created loses the new object, until a later relist or event brings it. |
| `pop_close` | violated | `Close` can broadcast between `Pop`'s test of the closed flag and its wait; the process loop of a stopped controller then never returns. |
| `workqueue` | holds | `QueueIsDirtyIdle`, `NoSleepOverWork` (no lost wakeup), `DrainedBeforeExit`, `ShutDownCompletes`, and the refinement of `WorkSet` (`SetSafe`, `SetLive`). |
| `delayingqueue` | holds | An accepted item is always waiting no later than the earliest time asked for (`OwedIsWaiting`), is added in the end (`OwedIsPaid`), and no caller is stuck on a full channel (`AddAfterReturns`). |
| `xds` | holds | No watch is answered twice, so the send under the cache's lock never blocks (`OpenWatchIsEmpty`); no watch outlives its request or stream (`WatchesAreOwned`); the refinement of `ConfigFeed` (`ImplementsFeed`); the Envoy ends up with the last snapshot unless the cache has dropped, without an answer, a watch it still waits on (`Converges`). |
| `xds_latest` | violated | Without that exception the Envoy may stay behind for ever: a request refused for lack of names leaves no watch, and a later snapshot that the request does cover is not sent. |
| `leader` | holds | An elector that leads holds the lock, so no two lead at once (`LeaderHoldsLock`); one whose calls succeed is never unseated (`StableLeader`); `LeaderTransitions` counts changes of the holder exactly although answers are lost (`HolderChangesAreCounted`); a lapsed lock is taken within a lease, two waits and six calls (`LapsedLockIsTaken`). |
| `listeners` | holds | What a listener was told last of a key is what the store has, once nothing is left to be told (`ListenersAgree`, but for the Syncs below); each notification fits the one before it (`SentFits`); the cache is as fresh as any notification (`CacheIsFresher`); nobody sends on a closed channel (`NoSendOnClosed`); handlers catch up (`Delivered`); `AddEventHandler`, `HandleDeltas` and the end of `Run` complete (`Completes`); both but for `Wedged`. |
| `listeners_missed` | violated | A change that a relist brings goes out as a Sync, to the listeners due at the last `shouldResync` only: one that was not due then, and so any that never resyncs, is not told of it. |

The violated properties are statements of comments in the code; `findings` in
`PROJECT.json` quotes them. The two cases in which `Replace` fails to bring a key to
its listed state are named once, by `Overlooked` in `Informer`; everything else the
`informer` run checks holds for the keys that are not overlooked. Likewise `missed` in
`SharedInformer` holds the keys of which a listener was not sent the last change.

One finding comes with a property that holds. `FirstInFirstOut` is what the comment on
`Pop` says; the comments on `Replace` (`delta_fifo.go:462`: the "queue is reset" and
holds the given items "in no particular order") and on `FullResyncPeriod`
(`controller.go:45`) describe another queue. The code appends: ids that were queued
before a `Replace` stay, in front. Only the order of the ids it appends may vary.

The comment on the fields of DeltaFIFO, "items in the set are in the queue and vice
versa" (`delta_fifo.go:97`), is `QueueMatchesItems`. The `informer` run checks it, and
`QueueIsItems` proves it, for the nil compressor of the informers. It does not survive
a compressor that returns no deltas, which leaves the id in the queue; `deltafifo` runs
with such a compressor and checks the weaker `NoItemStranded`.

**Bounds.** Two keys are enough for everything that relates a key to another (order,
the initial population); within one key two queued deltas reach every case of
`DedupDeltas` and of an ignored `Sync`. `MaxQueue` = 3 with two keys lets an id be in
the queue twice. Three revisions and two failed watches let a key be created,
deleted and re-created around relists served from old revisions. Three workers and
three items give a worker that sleeps, one that takes the item meant for it and one
that re-adds. `ChanCap` = 1 makes the channel full; `MaxTime` = 2 lets two delays of
one item overtake each other. The clock stops at `MaxTime`, and nothing is due
later. In `xds` three snapshots, {a} or {a, b} each, let names grow, shrink and stay
while requests are on their way; two streams and one fault (a broken stream, a
rejected response or a cleared snapshot) give a stream that overlaps the next.
In `leader` a lease of 10 ticks is the shortest that the assumptions allow for a
renewal deadline of 2, calls of 1 and a second of 2; `MaxTime` = 15 is long enough for
an acquisition, a lapse and a takeover with a restart in between, and `MaxLate` = 1
leaves one write behind. In `listeners` the slow listener may have four notifications
of one key, one with its handler, one in `pop` and two in a ring of initial size 1, so
that the ring grows and wraps while the other listener joins, resyncs or is stopped;
two versions let the object be changed by the watch or by a list, deleted and created
again. One key is enough for order, because notifications of different keys share only
the buffer; a list of several keys for a late listener, and rings that grow while
wrapped, are covered by the proofs.

**Fairness.** Goroutines that run for ever are weakly fair: the process loop, the
workers, `waitingLoop`, the Reflector's loop, and `Close` once `stopCh` is closed.
No client is obliged to call anything, no watch is obliged to fail. Strong fairness
is used in three places: where the Reflector competes with `Pop` for `f.lock`
(`SyncWith`, `WatchEvent`) and `Pop` with the producers (`PopLock`), because a Go
mutex hands itself over to a goroutine that has waited long; and for the receive
case of `waitingLoop`'s select, because Go picks at random among the ready cases.
In `XdsServer` each process loop is weakly fair, and so is the Envoy in reading what it
is sent and reconnecting; snapshots, clears, rejections and broken streams are not.
In `SharedInformer` a listener's goroutines are weakly fair; those who wait for a lock
(`Deltas`, `Join`, `Processor`, `EndRun`) are strongly fair, because an `RWMutex` that is
unlocked lets the waiting readers in before the next writer and a `Mutex` is handed over
to one who waits long. Handlers are assumed to return. `LeaderElection` needs no
fairness: `LapsedLockIsTaken` bounds the time instead, as in real time a timer fires and
a call returns before the clock passes their limits (`Due`).

Deadlock is checked in `deltafifo`, `informer` and `workqueue`, where some client can
always call. It is not in `delayingqueue`, where the clock ends, nor in `pop_close`,
where a stopped loop is meant to end, nor in the xDS runs, which come to rest when
the Envoy has the last snapshot the bound allows, nor in `leader`, where the clock ends,
nor in `listeners`, where `Run` returns: there `Completes` says that nothing but `Wedged` is stuck.

## Proofs

TLAPS proves the following for every number of keys, items and workers, and without
the bounds of the runs. The theorems marked *at rest* are the safety halves of liveness
properties: a state in which nobody can take another step by themselves is one in which
the goal is reached. What fairness adds to them is that such a state is approached.

* `DeltaFIFO_proofs` (for every compressor that maps deltas to deltas): `TypeOK`,
  `NoItemStranded`, `FirstInFirstOut`, `SyncedMeansFirstBatchPopped`. The last is not inductive: the
  invariant `FifoInv` adds that before the queue is populated it has only ids that
  `Resync` queued, of known objects and each once (`Unpopulated`), and that each key of
  the first batch not popped yet is among the first `initialPopulationCount` ids
  (`FirstBatchAhead`). The first `Replace` establishes this by counting: the ids in the
  queue are then different, and each is of a listed key or of a known one that is gone,
  which is what `initialPopulationCount` is the number of. Since ids are only ever
  appended behind and taken from the front, together with the count, it survives
  stale ids, requeues and later Replaces. `FirstInFirstOut` is proved per action: each
  takes some ids from the front or appends some, never both.
* `Informer_proofs` (for the nil compressor): `InformerTypeOK`, `QueueMatchesItems`,
  `OutcomeIsReflected`, `SyncedStoreIsNotOlder`, and `ChannelsSafe`, the refinement. The inductive invariant
  `PipelineInv` adds to `FifoInv` that one revision changes one key (`OneChange`),
  that the Reflector's versions are those it listed and watched (`Versioned`), that a key being
  handled has nothing queued (`PopsAlone`), and that nothing is queued or stored before the
  first list (`Untouched`). The proof has one lemma per action; each
  action but `HandleDelta` extends the deltas in flight of every key by at most one.
  For `SyncedStoreIsNotOlder`, `RecentInv` says that every delta in flight leads to a
  state the server had since the oldest list, that every object of the store is such a
  state, and that an absence is one too, unless the key is still in the first batch or
  being handled; `HasSynced` means that the first batch is gone. `DeltasFitTheStore`:
  a deletion meets an object in the store, and any other delta brings one. It rests on
  `DeltasApply`, about all deltas in flight: no deletion follows another (this is what
  `dedupDeltas` is for), and one that comes first has an object to delete (this is why
  `Delete` drops the deletion of a key neither known nor queued). `CaughtUpIsConsistent`
  (*at rest*, for `EventuallyConsistent`): with an empty queue and the whole history seen,
  the store equals the server but for overlooked keys.
* `WorkQueue_proofs`: `WorkTypeOK`, `QueueIsDirtyIdle`, `NoSleepOverWork`,
  `DrainedBeforeExit`, and `SetSafe`, the refinement. `WorkInv` adds that each item in
  `processing` is held by exactly one worker, and that workers leave only during a
  shutdown, when none sleeps. `NoSleepOverWork` is inductive as it stands, by counting
  the workers on their way into `Get`. `WorkersRestWhenDone` (*at rest*, for `SetLive` and
  `ShutDownCompletes`): when all workers sleep or have left, nothing is dirty or being
  processed, and after `ShutDown` none sleeps.
  For the delaying queue: `DelayTypeOK`; `OwedIsWaiting`, inductive with the types, by
  following an entry from the channel to the heap, where only an earlier one replaces it;
  `DelayingQueueIsWorkQueue`, that each of its steps is a step of the work queue or leaves
  it alone. From this the work queue's own theorems carry over without being proved
  again (`DelayingQueueKeepsOrder`, `DelayingQueueImplementsSet`). `LoopStaysToRead`
  (for `AddAfterReturns` and `OwedIsPaid`): the loop that reads the channel ends only
  during a shutdown.
* `XdsServer_proofs` (ADS or not): `XdsTypeOK`, `OpenWatchIsEmpty`, `WatchesAreOwned`.
  `ServerInv` adds that an open watch's identity names the stream and type that hold
  it, that no watch is open for a request between its cancel and its `CreateWatch`,
  and that a stream's nonces do not exceed `streamNonce`.
* `XdsStreams_proofs` (the invariant and its lemmas) and `XdsFeed_proofs` (the induction;
  for ADS): `ImplementsFeed`. The refinement needs that a response the
  Envoy applies is newer than what it runs, which no single guard ensures: `FeedInv`
  says, for the Envoy's stream and each type, that a response is in at most one of the
  places between cache and Envoy (`ToClientInv`, `HeldInv`, `HandledInv`,
  `WatchedInv`), that a request the server will accept carries the version the Envoy
  runs (`ToServerInv`, `NonceInv`: this is what the nonces are for), and that every
  response is a whole snapshot (`SnapshotInv`). `RestsInSync` (*at rest*, for
  `Converges`): when no message is on the Envoy's stream and its `process` loop waits with
  nothing to receive, the Envoy has the current snapshot for every type, unless the cache
  has dropped a watch without an answer (`silent`). `PendingInv` says why: for each type
  the Envoy wants, a request that the server will accept, a response, or an open watch
  exists somewhere on the stream, or it is in `silent`; `WatchesAreCurrent` that an open watch has
  the version of the current snapshot; `HoldsSnapshot` that what the Envoy runs is
  what the snapshot of its version holds.
* `LeaderElection_proofs` (for every number of electors, offsets, call times and faults
  that satisfy `LeaseIsLong`): `LeaderTypeOK`, `LeaderHoldsLock`, `StableLeader`,
  `HolderChangesAreCounted`, `LapsedLockIsTaken`. The argument joins two clocks through
  the record. `ObservedInv`: an elector that waits saw the record no earlier than the
  time written in it, so it takes over only when that time is a lease ago (`Lapsed`, part of
  `ReadInv`, and of `LockInv` for writes that arrive late). `LeadInv`: the deadline of a
  leader is at most `RenewDeadline`, two calls and a second after the time in the record.
  `TimeInv`: a leader is past its deadline by at most the last tries of its poll. A
  leader and a takeover would together need a lease shorter than `LeaseIsLong`.
  `ReliableInv` and `WaitInv` follow an elector whose calls do not fail: it sees each
  record soon after it was written, and tries again soon after the lease has run out.
* `SharedInformer_proofs` (for every number of keys and listeners, every set of resyncing
  and late listeners and every initial size of the rings): `SharedTypeOK`,
  `ListenersAgree`, `CacheIsFresher`, `NoSendOnClosed`, `SentFits`, `SomebodyGoesOn`,
  `WedgeLasts`. The first lemmas are about
  the ring: `ReadOne` and `WriteOne`, wrapping and growing, remove the first element and
  append one behind the others. `ListenersAgree` is not inductive: `LockInv` says who works under
  which lock (this is what keeps `HandleDeltas` and a late listener apart, and `Run`
  from closing a channel in use), `BufferInv` that the ring is empty when `pop`'s
  variable is and that no notification is newer than the store, and `AgreeInv` says what
  a listener has been told of a key while a notification of it is still to be
  sent: the object that this notification follows. `SomebodyGoesOn` (*at rest*, for
  `Completes` and `Delivered`): as long as somebody holds `startedLock` or `blockDeltas`,
  `Run` is on its way back, or a handler does not know what the store has, one of the
  goroutines is not waiting, unless the state is `Wedged`; `WedgeLasts` shows that nothing
  ends that state, so that the exception is a deadlock and not a delay. The guards of their steps are written out (`CanHandle` and so
  on), as `ENABLED` is beyond the proof system. `ProgressInv` adds to `LockInv` who reads
  under `listenersLock`, and that the goroutines of listeners run from the start of
  the processor to the closing of their channel; the proof follows who waits for whom, and
  finds one circle, which is `Wedged`.

Assumptions: the keys and the workers are finite sets, the "none" values are not
among them, and the compressor is typed or nil, a hypothesis of the theorems that
need it. The delays of `AddAfter` are positive (0 is added at once) and its channel has
room for one entry at least. For `LeaderElection`, `NewLeaderElector`'s own checks and `LeaseIsLong`:
`LeaseDuration >= RenewDeadline + 6 * MaxCall[e] + Second`. The second is not checked by
the code, which bounds neither calls nor pauses: it is what a configuration has to provide for. For `SharedInformer`, `Nil` is not a notification, the names of
owners of locks are distinct, and a call of `HandleDeltas` has at least one delta
(`MaxBatch` is positive). For `SnapshotCache`, every snapshot names at least one cluster
and its endpoints: the code also accepts snapshots that are "partial" (`simple.go:38`),
with no resources of a type, which are not covered.

Only model-checked: the liveness properties (`EventuallyPopped`,
`EventuallyConsistent`, `ChannelsLive`, `ShutDownCompletes`, `SetLive`, `OwedIsPaid`,
`AddAfterReturns`, `Converges`, `Delivered`, `Completes`): reasoning from fairness, and
`ENABLED`, are out of the proof system's reach. For all of them the safety half is
proved: the theorems at rest, `NoItemStranded` for `EventuallyPopped`,
`QueueMatchesItems` for `ChannelsLive`, and `OwedIsWaiting` with `LoopStaysToRead` for
`OwedIsPaid`. Every safety invariant, action property and
safe refinement that a passing run checks has a theorem.

## Not modelled

* Rate limiters and the ingress task queue: floating-point arithmetic on durations.
  What they return is the delay of an `AddAfter`, which `DelayingQueue` lets be anything.
* The arithmetic of resync periods in the shared informer: any set of listeners may be
  due at a resync. Indexers and the mutation detector hold no protocol state.
* xDS streams of a single type, which are ADS streams with three of the four watches
  absent and a cache that does not ask for all names; unary fetches, which are reads;
  and the reader goroutine after its stream's `process` has returned.
* The watch broadcaster, the event recorder and fortio's periodic runner: they are not
  part of the pipelines above, and share no state with them.
* `FIFO` and `Heap`: a DeltaFIFO without deltas, and a heap under one lock.
* Generated API types and clientsets, gRPC, HTTP/2, protobuf and text libraries, clients
  of external services, logging and command-line libraries. They hold no protocol state
  of the control plane, or are data.

Left for later: one specification that composes `Informer` with `SharedInformer`. Their
interface is stated and proved on one side (`DeltasFitTheStore`) and assumed on the other.
