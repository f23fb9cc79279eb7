--------------------------- MODULE SharedInformer ---------------------------
(***************************************************************************)
(* The shared informer and its listeners (client-go, tools/cache,          *)
(* shared_informer.go).  The goroutines are: Run with the process loop of  *)
(* its controller, which calls HandleDeltas; sharedProcessor.run; the      *)
(* Reflector's resync loop, which calls shouldResync; the callers of       *)
(* AddEventHandler, before the start or at any time after it; and for each *)
(* listener pop and run.  They meet at three locks: startedLock,           *)
(* blockDeltas, and listenersLock, an RWMutex, whose pending writer keeps  *)
(* new readers out.  Channels are unbuffered: add waits for pop.           *)
(*                                                                         *)
(* The queue in front of HandleDeltas is module DeltaFIFO's matter: here a *)
(* call gets any deltas that fit the store.  An object is its version: the *)
(* number of the change of the store that brought it, whatever its         *)
(* resourceVersion.                                                        *)
(***************************************************************************)
EXTENDS RingGrowing

CONSTANTS
  Keys,          \* keys of objects
  Listeners,     \* the handlers that are given to AddEventHandler
  Resyncing,     \* those with a resyncPeriod other than 0
  Late,          \* bound: those who may be given to it after the start
  Nobody,        \* no owner of a lock
  MaxVersion,    \* bound: the changes of objects
  MaxBatch,      \* bound: the deltas of one call of HandleDeltas
  MaxPending,    \* bound, listener -> no new call while pop has so many notifications
  InitialSize    \* initialBufferSize

VARIABLES
  store,         \* s.indexer: key -> version of its object, Absent if none
  version,       \* the newest version of any object
  dpc, key, left, \* HandleDeltas: where it is, its key, the deltas it may still have
  note, isSync,  \* the notification it distributes, and whether as a Sync
  targets,       \* the listeners that distribute has still to send it to
  blockDeltas,   \* the owner of s.blockDeltas
  started, stopped, runPC, \* s.started, s.stopped, where Run is
  startedLock,   \* the owner of s.startedLock
  listeners, syncingListeners, listenersStarted, \* the fields of sharedProcessor
  processorPC,   \* where sharedProcessor.run is
  readers, writerWaits, \* listenersLock: who read, and whether a writer waits for them
  joinPC, toList, \* listener -> where AddEventHandler is, the keys it has still to add
  lpc,           \* listener -> its goroutines pop and run
  addClosed,     \* the listeners whose addCh is closed
  next, ring,    \* listener -> pop's notification, and its pendingNotifications
  handling,      \* listener -> the notification that run has given to the handler
  view,          \* listener -> what its handler knows: key -> version
  missed         \* history, listener -> the keys whose last change it was not sent

deltaVars == <<store, version, dpc, key, left, note, isSync, targets>>
runVars == <<started, stopped, runPC>>
processorVars == <<listeners, syncingListeners, listenersStarted, processorPC>>
rwVars == <<readers, writerWaits>>
joinVars == <<joinPC, toList>>
bufferVars == <<next, ring>>
handlerVars == <<handling, view>>
vars == <<deltaVars, blockDeltas, runVars, startedLock, processorVars, rwVars, joinVars,
          lpc, addClosed, bufferVars, handlerVars, missed>>

Absent == 0

-----------------------------------------------------------------------------
(* Notifications *)

Versions == 0 .. MaxVersion

addNotification(k, new) == [kind |-> "add", key |-> k, old |-> Absent, obj |-> new]
updateNotification(k, old, new) == [kind |-> "update", key |-> k, old |-> old, obj |-> new]
deleteNotification(k) == [kind |-> "delete", key |-> k, old |-> Absent, obj |-> Absent]

Notes == [kind : {"add", "update", "delete"}, key : Keys, old : Versions, obj : Versions]

ASSUME InformerAssumption ==
  /\ Resyncing \subseteq Listeners /\ Nobody \notin Listeners
  /\ Nil \notin Notes /\ "deltas" \notin Listeners \cup {Nobody}
  /\ MaxVersion \in Nat /\ MaxBatch \in Nat \ {0} /\ MaxPending \in [Listeners -> Nat] /\ InitialSize \in Nat \ {0}

\* pop holds Held(l) notifications, the oldest in its variable, which is number 0.
Held(l) == IF next[l] = Nil THEN 0 ELSE 1 + ring[l].readable
Nth(l, i) == IF i = 0 THEN next[l] ELSE At(ring[l], i - 1)

Init ==
  /\ store = [k \in Keys |-> Absent] /\ version = 0
  /\ dpc = "idle" /\ key = Nil /\ left = 0 /\ note = Nil /\ isSync = FALSE /\ targets = {}
  /\ blockDeltas = Nobody
  /\ started = FALSE /\ stopped = FALSE /\ runPC = "new" /\ startedLock = Nobody
  /\ listeners = {} /\ syncingListeners = {} /\ listenersStarted = FALSE
  /\ processorPC = "none"
  /\ readers = {} /\ writerWaits = FALSE
  /\ joinPC = [l \in Listeners |-> "out"] /\ toList = [l \in Listeners |-> {}]
  /\ lpc = [l \in Listeners |-> "off"] /\ addClosed = {}
  /\ next = [l \in Listeners |-> Nil]
  /\ ring = [l \in Listeners |-> NewRingGrowing(InitialSize)]
  /\ handling = [l \in Listeners |-> Nil]
  /\ view = [l \in Listeners |-> [k \in Keys |-> Absent]]
  /\ missed = [l \in Listeners |-> {}]

-----------------------------------------------------------------------------
(* HandleDeltas and distribute, called by the process loop *)

\* The process loop calls HandleDeltas with some deltas of key k.
HandleDeltas(k) ==
  /\ runPC = "running" /\ dpc = "idle" /\ blockDeltas = Nobody
  /\ store[k] # Absent \/ version < MaxVersion
  /\ \A l \in Listeners : Held(l) < MaxPending[l]
  /\ blockDeltas' = "deltas"
  /\ dpc' = "next" /\ key' = k /\ left' = MaxBatch
  /\ UNCHANGED <<store, version, note, isSync, targets, runVars, startedLock, processorVars, rwVars,
                 joinVars, lpc, addClosed, bufferVars, handlerVars, missed>>

\* Mutant: an object that the store has already is not stored again.
NotifyOnly(o, notification, sync) ==
  /\ dpc = "next" /\ left > 0
  /\ store' = IF store[key] # Absent /\ o # Absent THEN store ELSE [store EXCEPT ![key] = o]
  /\ note' = notification /\ isSync' = sync
  /\ dpc' = "distribute" /\ left' = left - 1
  /\ UNCHANGED <<key, targets, blockDeltas, runVars, startedLock, processorVars, rwVars, joinVars,
                 lpc, addClosed, bufferVars, handlerVars, missed>>

\* The store has changed to o, and distribute is called.
Notify(o, notification, sync) ==
  /\ dpc = "next" /\ left > 0
  /\ store' = [store EXCEPT ![key] = o]
  /\ note' = notification /\ isSync' = sync
  /\ dpc' = "distribute" /\ left' = left - 1
  /\ UNCHANGED <<key, targets, blockDeltas, runVars, startedLock, processorVars, rwVars, joinVars,
                 lpc, addClosed, bufferVars, handlerVars, missed>>

\* case Sync, Added, Updated: an object that is there is updated, another added.
Upsert(o, sync) ==
  Notify(o, IF store[key] # Absent THEN updateNotification(key, store[key], o)
                                   ELSE addNotification(key, o), sync)

\* Added or Updated, from the watch: an object that is new.
Change ==
  /\ version < MaxVersion
  /\ version' = version + 1
  /\ Upsert(version + 1, FALSE)

\* Sync, from a list that has a newer object than the store.
Relist ==
  /\ version < MaxVersion
  /\ version' = version + 1
  /\ Upsert(version + 1, TRUE)

\* Sync, from a resync or a list that brings nothing new.
Resync ==
  /\ dpc = "next" /\ store[key] # Absent
  /\ Upsert(store[key], TRUE)
  /\ UNCHANGED version

\* case Deleted: DeltaFIFO queues a deletion only of an object that the store has,
\* or will have when the deltas queued before it have been handled.
Delete ==
  /\ dpc = "next" /\ store[key] # Absent
  /\ Notify(Absent, deleteNotification(key), FALSE)
  /\ UNCHANGED version

\* The notification tells of a change, not only of a resync.
Changes(n) == n.old # n.obj \/ n.kind = "delete"

\* distribute takes the read lock and chooses whom to notify.
distribute ==
  /\ dpc = "distribute" /\ ~writerWaits
  /\ readers' = readers \cup {"deltas"}
  /\ targets' = IF isSync THEN syncingListeners ELSE listeners
  /\ missed' = [l \in Listeners |->
                   IF l \in listeners \ targets' /\ Changes(note) THEN missed[l] \cup {key} ELSE missed[l]]
  /\ dpc' = "send"
  /\ UNCHANGED <<store, version, key, left, note, isSync, blockDeltas, runVars, startedLock, processorVars,
                 writerWaits, joinVars, lpc, addClosed, bufferVars, handlerVars>>

\* Mutant: a notification that finds the ring full is dropped.
addUnlessFull(l, n) ==
  /\ lpc[l] = "on"
  /\ IF next[l] = Nil
       THEN next' = [next EXCEPT ![l] = n] /\ UNCHANGED ring
       ELSE /\ ring' = IF ring[l].readable = ring[l].n THEN ring ELSE [ring EXCEPT ![l] = WriteOne(@, n)]
            /\ UNCHANGED next

\* listener.add meets pop's receive from addCh: pop keeps the notification in
\* its variable when that is free, otherwise in the ring.
add(l, n) ==
  /\ lpc[l] = "on"
  /\ IF next[l] = Nil
       THEN next' = [next EXCEPT ![l] = n] /\ UNCHANGED ring
       ELSE ring' = [ring EXCEPT ![l] = WriteOne(@, n)] /\ UNCHANGED next

Send(l) ==
  /\ dpc = "send" /\ l \in targets
  /\ add(l, note)
  /\ targets' = targets \ {l}
  /\ missed' = [missed EXCEPT ![l] = @ \ {key}]
  /\ UNCHANGED <<store, version, dpc, key, left, note, isSync, blockDeltas, runVars, startedLock,
                 processorVars, rwVars, joinVars, lpc, addClosed, handlerVars>>

\* Mutant: distribute returns without RUnlock.
DistributedLocked ==
  /\ dpc = "send" /\ targets = {}
  /\ dpc' = "next" /\ note' = Nil /\ isSync' = FALSE
  /\ UNCHANGED <<store, version, key, left, targets, blockDeltas, runVars, startedLock, processorVars, rwVars,
                 joinVars, lpc, addClosed, bufferVars, handlerVars, missed>>

\* distribute returns; the loop goes on with the next delta.
Distributed ==
  /\ dpc = "send" /\ targets = {}
  /\ readers' = readers \ {"deltas"}
  /\ dpc' = "next" /\ note' = Nil /\ isSync' = FALSE
  /\ UNCHANGED <<store, version, key, left, targets, blockDeltas, runVars, startedLock, processorVars, writerWaits,
                 joinVars, lpc, addClosed, bufferVars, handlerVars, missed>>

\* The deltas, one or more, have been handled.
DeltasHandled ==
  /\ dpc = "next" /\ left < MaxBatch
  /\ blockDeltas' = Nobody
  /\ dpc' = "idle" /\ key' = Nil /\ left' = 0
  /\ UNCHANGED <<store, version, note, isSync, targets, runVars, startedLock, processorVars, rwVars,
                 joinVars, lpc, addClosed, bufferVars, handlerVars, missed>>

-----------------------------------------------------------------------------
(* AddEventHandler *)

addListenerLocked(l) ==
  /\ listeners' = listeners \cup {l}
  /\ syncingListeners' = syncingListeners \cup {l}

\* AddEventHandler takes startedLock.  Before the start addListener finds
\* listenersLock free and the call returns.
AddEventHandler(l) ==
  /\ joinPC[l] = "out" /\ startedLock = Nobody /\ (started => l \in Late)
  /\ \/ /\ stopped
        /\ joinPC' = [joinPC EXCEPT ![l] = "refused"]
        /\ UNCHANGED <<startedLock, processorVars>>
     \/ /\ ~stopped /\ ~started
        /\ addListenerLocked(l)
        /\ joinPC' = [joinPC EXCEPT ![l] = "in"]
        /\ UNCHANGED <<startedLock, listenersStarted, processorPC>>
     \/ /\ ~stopped /\ started
        /\ startedLock' = l
        /\ joinPC' = [joinPC EXCEPT ![l] = "block"]
        /\ UNCHANGED processorVars
  /\ UNCHANGED <<deltaVars, blockDeltas, runVars, rwVars, toList, lpc, addClosed, bufferVars,
                 handlerVars, missed>>

\* Mutant: a late handler joins without blockDeltas.
BlockNothing(l) ==
  /\ joinPC[l] = "block"
  /\ joinPC' = [joinPC EXCEPT ![l] = "add"]
  /\ UNCHANGED <<deltaVars, blockDeltas, runVars, startedLock, processorVars, rwVars, toList, lpc, addClosed,
                 bufferVars, handlerVars, missed>>

\* 1. stop sending add/update/delete notifications
BlockDeltas(l) ==
  /\ joinPC[l] = "block" /\ blockDeltas = Nobody
  /\ blockDeltas' = l
  /\ joinPC' = [joinPC EXCEPT ![l] = "add"]
  /\ UNCHANGED <<deltaVars, runVars, startedLock, processorVars, rwVars, toList, lpc, addClosed,
                 bufferVars, handlerVars, missed>>

\* addListener gets listenersLock and starts the listener, if the others have
\* been started; then 2. do a list against the store
addListener(l) ==
  /\ joinPC[l] = "add" /\ readers = {} /\ ~writerWaits
  /\ addListenerLocked(l)
  /\ lpc' = [lpc EXCEPT ![l] = IF listenersStarted THEN "on" ELSE "off"]
  /\ toList' = [toList EXCEPT ![l] = {k \in Keys : store[k] # Absent}]
  /\ joinPC' = [joinPC EXCEPT ![l] = "list"]
  /\ UNCHANGED <<deltaVars, blockDeltas, runVars, startedLock, listenersStarted, processorPC, rwVars,
                 addClosed, bufferVars, handlerVars, missed>>

\* 3. send synthetic "Add" events to the new handler
AddItem(l, k) ==
  /\ joinPC[l] = "list" /\ k \in toList[l]
  /\ add(l, addNotification(k, store[k]))
  /\ toList' = [toList EXCEPT ![l] = @ \ {k}]
  /\ UNCHANGED <<deltaVars, blockDeltas, runVars, startedLock, processorVars, rwVars, joinPC, lpc,
                 addClosed, handlerVars, missed>>

\* 4. unblock
Joined(l) ==
  /\ joinPC[l] = "list" /\ toList[l] = {}
  /\ blockDeltas' = Nobody /\ startedLock' = Nobody
  /\ joinPC' = [joinPC EXCEPT ![l] = "in"]
  /\ UNCHANGED <<deltaVars, runVars, processorVars, rwVars, toList, lpc, addClosed, bufferVars,
                 handlerVars, missed>>

-----------------------------------------------------------------------------
(* sharedProcessor.shouldResync, called by the Reflector's resync loop *)

\* The resync loop is there once Run has started the controller; one that is late
\* may call shouldResync after the stop.  Lock waits for the readers, and from now
\* on keeps new ones out.
ResyncWaits ==
  /\ started /\ ~writerWaits /\ readers # {}
  /\ writerWaits' = TRUE
  /\ UNCHANGED <<deltaVars, blockDeltas, runVars, startedLock, processorVars, readers, joinVars, lpc,
                 addClosed, bufferVars, handlerVars, missed>>

\* With the lock: any of the listeners that resync may be due.
shouldResync(due) ==
  /\ started /\ readers = {}
  /\ due \subseteq listeners \cap Resyncing
  /\ syncingListeners' = due
  /\ writerWaits' = FALSE
  /\ UNCHANGED <<deltaVars, blockDeltas, runVars, startedLock, listeners, listenersStarted, processorPC,
                 readers, joinVars, lpc, addClosed, bufferVars, handlerVars, missed>>

-----------------------------------------------------------------------------
(* Run and sharedProcessor.run *)

Run ==
  /\ runPC = "new" /\ startedLock = Nobody
  /\ started' = TRUE /\ runPC' = "running" /\ processorPC' = "spawned"
  /\ UNCHANGED <<deltaVars, blockDeltas, stopped, startedLock, listeners, syncingListeners,
                 listenersStarted, rwVars, joinVars, lpc, addClosed, bufferVars, handlerVars, missed>>

\* stopCh is closed, the process loop has ended and controller.Run returns.
ControllerReturns ==
  /\ runPC = "running" /\ dpc = "idle"
  /\ runPC' = "stopping"
  /\ UNCHANGED <<deltaVars, blockDeltas, started, stopped, startedLock, processorVars, rwVars, joinVars,
                 lpc, addClosed, bufferVars, handlerVars, missed>>

\* Mutant: stopped is set without startedLock.
RunStopsAtOnce ==
  /\ runPC = "stopping"
  /\ stopped' = TRUE /\ runPC' = "waiting"
  /\ UNCHANGED <<deltaVars, blockDeltas, started, startedLock, processorVars, rwVars, joinVars, lpc,
                 addClosed, bufferVars, handlerVars, missed>>

\* The deferred calls: no new listeners, then tell the processor to stop.
RunStops ==
  /\ runPC = "stopping" /\ startedLock = Nobody
  /\ stopped' = TRUE /\ runPC' = "waiting"
  /\ UNCHANGED <<deltaVars, blockDeltas, started, startedLock, processorVars, rwVars, joinVars, lpc,
                 addClosed, bufferVars, handlerVars, missed>>

RunReturns ==
  /\ runPC = "waiting" /\ processorPC = "done"
  /\ runPC' = "done"
  /\ UNCHANGED <<deltaVars, blockDeltas, started, stopped, startedLock, processorVars, rwVars, joinVars,
                 lpc, addClosed, bufferVars, handlerVars, missed>>

\* Under the read lock, the goroutines of the listeners are started.
StartListeners ==
  /\ processorPC = "spawned" /\ ~writerWaits
  /\ lpc' = [l \in Listeners |-> IF l \in listeners THEN "on" ELSE lpc[l]]
  /\ listenersStarted' = TRUE /\ processorPC' = "started"
  /\ UNCHANGED <<deltaVars, blockDeltas, runVars, startedLock, listeners, syncingListeners, rwVars,
                 joinVars, addClosed, bufferVars, handlerVars, missed>>

\* processorStopCh is closed: close every addCh, and keep the read lock.
CloseListeners ==
  /\ processorPC = "started" /\ runPC = "waiting" /\ ~writerWaits
  /\ readers' = readers \cup {"processor"}
  /\ addClosed' = listeners /\ processorPC' = "closing"
  /\ UNCHANGED <<deltaVars, blockDeltas, runVars, startedLock, listeners, syncingListeners,
                 listenersStarted, writerWaits, joinVars, lpc, bufferVars, handlerVars, missed>>

\* p.wg.Wait returns.
ProcessorReturns ==
  /\ processorPC = "closing" /\ \A l \in listeners : lpc[l] = "gone"
  /\ readers' = readers \ {"processor"} /\ processorPC' = "done"
  /\ UNCHANGED <<deltaVars, blockDeltas, runVars, startedLock, listeners, syncingListeners,
                 listenersStarted, writerWaits, joinVars, lpc, addClosed, bufferVars, handlerVars, missed>>

-----------------------------------------------------------------------------
(* A listener's pop and run *)

\* Mutant: pop does not read the ring after a dispatch.
PopNextOnly(l) ==
  /\ lpc[l] = "on" /\ next[l] # Nil /\ handling[l] = Nil
  /\ handling' = [handling EXCEPT ![l] = next[l]]
  /\ next' = [next EXCEPT ![l] = Nil] /\ UNCHANGED ring
  /\ UNCHANGED <<deltaVars, blockDeltas, runVars, startedLock, processorVars, rwVars, joinVars, lpc,
                 addClosed, view, missed>>

\* case nextCh <- notification: run takes it, pop reads the next from the ring.
PopNext(l) ==
  /\ lpc[l] = "on" /\ next[l] # Nil /\ handling[l] = Nil
  /\ handling' = [handling EXCEPT ![l] = next[l]]
  /\ IF ring[l].readable = 0
       THEN next' = [next EXCEPT ![l] = Nil] /\ UNCHANGED ring
       ELSE next' = [next EXCEPT ![l] = Element(ring[l])] /\ ring' = [ring EXCEPT ![l] = ReadOne(@)]
  /\ UNCHANGED <<deltaVars, blockDeltas, runVars, startedLock, processorVars, rwVars, joinVars, lpc,
                 addClosed, view, missed>>

\* addCh is closed: pop returns and what it holds is lost; nextCh is closed.
PopReturns(l) ==
  /\ lpc[l] = "on" /\ l \in addClosed
  /\ lpc' = [lpc EXCEPT ![l] = "stopping"]
  /\ next' = [next EXCEPT ![l] = Nil]
  /\ ring' = [ring EXCEPT ![l] = NewRingGrowing(InitialSize)]
  /\ UNCHANGED <<deltaVars, blockDeltas, runVars, startedLock, processorVars, rwVars, joinVars,
                 addClosed, handlerVars, missed>>

\* OnAdd, OnUpdate or OnDelete returns.
Handle(l) ==
  /\ handling[l] # Nil
  /\ view' = [view EXCEPT ![l][handling[l].key] = handling[l].obj]
  /\ handling' = [handling EXCEPT ![l] = Nil]
  /\ UNCHANGED <<deltaVars, blockDeltas, runVars, startedLock, processorVars, rwVars, joinVars, lpc,
                 addClosed, bufferVars, missed>>

\* run finds nextCh closed.
ListenerReturns(l) ==
  /\ lpc[l] = "stopping" /\ handling[l] = Nil
  /\ lpc' = [lpc EXCEPT ![l] = "gone"]
  /\ UNCHANGED <<deltaVars, blockDeltas, runVars, startedLock, processorVars, rwVars, joinVars,
                 addClosed, bufferVars, handlerVars, missed>>

-----------------------------------------------------------------------------

Deltas ==
  \/ Change \/ Relist \/ Resync \/ Delete
  \/ distribute \/ Distributed \/ DeltasHandled \/ \E l \in Listeners : Send(l)

Join(l) ==
  \/ BlockDeltas(l) \/ addListener(l) \/ Joined(l)
  \/ \E k \in Keys : AddItem(l, k)

Resyncs == \E due \in SUBSET Listeners : shouldResync(due)
EndRun == RunStops \/ RunReturns
Processor == StartListeners \/ CloseListeners \/ ProcessorReturns
Listen(l) == PopNext(l) \/ PopReturns(l) \/ Handle(l) \/ ListenerReturns(l)

Next ==
  \/ \E k \in Keys : HandleDeltas(k)
  \/ Deltas
  \/ \E l \in Listeners : AddEventHandler(l) \/ Join(l) \/ Listen(l)
  \/ ResyncWaits \/ Resyncs
  \/ Run \/ ControllerReturns \/ EndRun \/ Processor

\* A goroutine that can go on does.  RWMutex.Unlock lets the waiting readers in
\* before the next writer, and a sync.Mutex is handed to a caller that waits
\* long: those who wait for a lock get it when it is free again and again.
\* Nothing makes deltas, resyncs, handlers or the end of the controller come.
Fairness ==
  /\ SF_vars(Deltas) /\ WF_vars(writerWaits /\ Resyncs) /\ SF_vars(EndRun) /\ SF_vars(Processor)
  /\ \A l \in Listeners : SF_vars(Join(l)) /\ WF_vars(Listen(l))

Safe == Init /\ [][Next]_vars
Spec == Safe /\ Fairness
-----------------------------------------------------------------------------
(* Properties *)

\* Every variable stays in its domain, the indices of each ring inside its array.
SharedTypeOK ==
  /\ store \in [Keys -> Versions] /\ version \in Versions
  /\ dpc \in {"idle", "next", "distribute", "send"} /\ key \in Keys \cup {Nil} /\ left \in 0 .. MaxBatch
  /\ note \in Notes \cup {Nil} /\ isSync \in BOOLEAN /\ targets \subseteq listeners
  /\ blockDeltas \in Listeners \cup {Nobody, "deltas"}
  /\ started \in BOOLEAN /\ stopped \in BOOLEAN
  /\ runPC \in {"new", "running", "stopping", "waiting", "done"}
  /\ startedLock \in Listeners \cup {Nobody}
  /\ listeners \subseteq Listeners /\ syncingListeners \subseteq listeners
  /\ listenersStarted \in BOOLEAN
  /\ processorPC \in {"none", "spawned", "started", "closing", "done"}
  /\ readers \subseteq {"deltas", "processor"} /\ writerWaits \in BOOLEAN
  /\ joinPC \in [Listeners -> {"out", "block", "add", "list", "in", "refused"}]
  /\ toList \in [Listeners -> SUBSET Keys]
  /\ lpc \in [Listeners -> {"off", "on", "stopping", "gone"}] /\ addClosed \subseteq Listeners
  /\ next \in [Listeners -> Notes \cup {Nil}] /\ DOMAIN ring = Listeners
  /\ \A l \in Listeners : RingOK(ring[l], Notes)
  /\ handling \in [Listeners -> Notes \cup {Nil}]
  /\ view \in [Listeners -> [Keys -> Versions]] /\ missed \in [Listeners -> SUBSET Keys]

\* Listener l has been told that k is v: so says its last notification of k, be
\* it with pop, with the handler, or handled.
Told(l, k, v) ==
  \/ \E i \in 0 .. Held(l) - 1 :
       /\ Nth(l, i).key = k /\ Nth(l, i).obj = v
       /\ \A j \in i + 1 .. Held(l) - 1 : Nth(l, j).key # k
  \/ /\ \A j \in 0 .. Held(l) - 1 : Nth(l, j).key # k
     /\ IF handling[l] # Nil /\ handling[l].key = k THEN handling[l].obj = v ELSE view[l][k] = v

\* HandleDeltas has changed key k in the store and has not yet told l of it.
Awaits(l, k) == key = k /\ (dpc = "distribute" \/ (dpc = "send" /\ l \in targets))
Untold(l, k) == Awaits(l, k) \/ k \in toList[l]

\* The listeners agree with the cache: whenever HandleDeltas and AddEventHandler
\* have nothing left to tell a listener about a key, the last notification sent
\* to it, through rendezvous, variable and ring, gives the object that the store
\* has.  The one exception is what the code does with Syncs: a key whose last
\* change came from a list while the listener was not resyncing.
ListenersAgree ==
  \A l \in listeners \ addClosed, k \in Keys :
    ~Untold(l, k) /\ k \notin missed[l] => Told(l, k, store[k])

\* "capable of distributing notifications for changes to the cache to multiple
\* listeners who registered via AddEventHandler" (shared_informer.go:33): the
\* same without the exception.  distribute sends the changes that a list brings
\* to the listeners of the last resync only.
ChangesAreDistributed ==
  \A l \in listeners \ addClosed, k \in Keys : ~Untold(l, k) => Told(l, k, store[k])

\* n follows for a handler that has the object o of n's key.
Follows(n, o) ==
  \/ n.kind = "add" /\ o = Absent
  \/ n.kind = "update" /\ o # Absent /\ o = n.old
  \/ n.kind = "delete" /\ o # Absent

\* A listener is sent an add for an object that it has not been told of, an update
\* from the object that it has been told last, and a delete for an object that it
\* has been told of, whatever joins, relists and resyncs come between; unless it
\* has missed a change of that key.
SentFits ==
  [][\A l \in Listeners :
       /\ Send(l) /\ key \notin missed[l] => \E v \in Versions : Told(l, key, v) /\ Follows(note, v)
       /\ \A k \in Keys : AddItem(l, k) => Told(l, k, Absent)]_vars

\* "When you receive a notification, the cache will be AT LEAST as fresh as the
\* notification" (shared_informer.go:35): no notification on its way to a handler
\* or in it is of an object newer than the store has or has had.
CacheIsFresher ==
  \A l \in Listeners :
    \A n \in {note, handling[l]} \cup {Nth(l, i) : i \in 0 .. Held(l) - 1} :
      n # Nil => store[n.key] = Absent \/ n.obj <= store[n.key]

\* Nobody sends to a listener whose addCh is closed, which would panic: stopped
\* refuses new handlers, startedLock holds Run back while one joins, and Run
\* closes processorStopCh only after the controller has returned.
NoSendOnClosed ==
  /\ targets \cap addClosed = {}
  /\ \A l \in addClosed : joinPC[l] = "in"
  /\ addClosed # {} => dpc = "idle" /\ addClosed = listeners

\* The one deadlock of the code: distribute has listenersLock for reading and
\* sends to a listener that has no goroutines yet, a shouldResync waits to write
\* and keeps new readers out, and sharedProcessor.run, which would start the
\* goroutines, has to read.  It takes a processor that has not run for a whole
\* resync period after the first list.
Wedged == processorPC = "spawned" /\ writerWaits /\ targets # {}

\* The changes being bounded, the handlers are all brought up to date with the
\* store, but for the keys of which they have missed a change, unless the
\* informer stops or is wedged: however often it resyncs, nothing that pop and
\* its ring hold stays there.
UpToDate == \A l \in listeners, k \in Keys : k \in missed[l] \/ view[l][k] = store[k]
Delivered == []<>(UpToDate \/ runPC # "running" \/ Wedged)

\* But for the wedge no wait for a lock or a channel lasts for ever:
\* AddEventHandler gives back startedLock, and blockDeltas like HandleDeltas, and
\* Run returns once the controller has.
Completes ==
  /\ []<>(startedLock = Nobody \/ Wedged) /\ []<>(blockDeltas = Nobody \/ Wedged)
  /\ []<>(runPC \in {"new", "running", "done"} \/ Wedged)
=============================================================================
