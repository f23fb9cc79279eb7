----------------------------- MODULE WorkQueue -----------------------------
(***************************************************************************)
(* client-go's work queue (util/workqueue/queue.go) and the workers of a   *)
(* controller: each calls Get, works on the item, calls Done, and starts   *)
(* again, until Get says that the queue shuts down.                        *)
(*                                                                         *)
(* Every method holds cond.L from beginning to end, so it is one action;   *)
(* Get is several, because it gives up the lock in cond.Wait.              *)
(***************************************************************************)
EXTENDS Integers, Sequences, FiniteSets, Functions

CONSTANTS
  Items,
  Workers,
  NoItem        \* the worker has no item

ASSUME WorkersAssumption == IsFiniteSet(Workers) /\ Workers # {}
ASSUME NoItemAssumption == NoItem \notin Items

VARIABLES
  queue,        \* the order in which items are worked on
  dirty,        \* the items that need to be processed
  processing,   \* the items that are being processed
  shuttingDown,
  pc,           \* worker -> where it is: see WorkTypeOK
  holds         \* worker -> the item Get returned to it

queueVars == <<queue, dirty, processing, shuttingDown>>
workVars == <<queueVars, pc, holds>>

At(l) == {w \in Workers : pc[w] = l}

WorkInit ==
  /\ queue = <<>>
  /\ dirty = {}
  /\ processing = {}
  /\ shuttingDown = FALSE
  /\ pc = [w \in Workers |-> "get"]
  /\ holds = [w \in Workers |-> NoItem]

\* cond.Signal(): one of the workers in cond.Wait, if any, goes back to its
\* loop, where it has to take the lock again.
Signal(p) ==
  IF At("wait") = {} THEN {p} ELSE {[p EXCEPT ![w] = "get"] : w \in At("wait")}
-----------------------------------------------------------------------------
\* Mutants of Add: an item that is dirty already is queued again; ...
AddTwice(i) ==
  /\ ~shuttingDown
  /\ dirty' = dirty \cup {i}
  /\ IF i \in processing
     THEN UNCHANGED <<queue, pc>>
     ELSE queue' = Append(queue, i) /\ pc' \in Signal(pc)
  /\ UNCHANGED <<processing, shuttingDown, holds>>
\* ... nobody is woken; ...
AddNoSignal(i) ==
  /\ ~shuttingDown
  /\ i \notin dirty
  /\ dirty' = dirty \cup {i}
  /\ queue' = IF i \in processing THEN queue ELSE Append(queue, i)
  /\ UNCHANGED <<pc, processing, shuttingDown, holds>>
\* ... an item that is being processed is queued at once.
AddWhileProcessing(i) ==
  /\ ~shuttingDown
  /\ i \notin dirty
  /\ dirty' = dirty \cup {i}
  /\ queue' = Append(queue, i) /\ pc' \in Signal(pc)
  /\ UNCHANGED <<processing, shuttingDown, holds>>

Add(i) ==
  /\ ~shuttingDown
  /\ i \notin dirty
  /\ dirty' = dirty \cup {i}
  /\ IF i \in processing
     THEN UNCHANGED <<queue, pc>>
     ELSE queue' = Append(queue, i) /\ pc' \in Signal(pc)
  /\ UNCHANGED <<processing, shuttingDown, holds>>

\* Mutant: Get returns the item together with shutdown = shuttingDown.
GetItemAndShutdown(w) ==
  /\ pc[w] = "get"
  /\ queue # <<>>
  /\ queue' = Tail(queue)
  /\ processing' = processing \cup {Head(queue)}
  /\ dirty' = dirty \ {Head(queue)}
  /\ holds' = [holds EXCEPT ![w] = Head(queue)]
  /\ pc' = [pc EXCEPT ![w] = IF shuttingDown THEN "exit" ELSE "work"]
  /\ UNCHANGED shuttingDown

GetItem(w) ==
  /\ pc[w] = "get"
  /\ queue # <<>>
  /\ queue' = Tail(queue)
  /\ processing' = processing \cup {Head(queue)}
  /\ dirty' = dirty \ {Head(queue)}
  /\ holds' = [holds EXCEPT ![w] = Head(queue)]
  /\ pc' = [pc EXCEPT ![w] = "work"]
  /\ UNCHANGED shuttingDown

GetWaits(w) ==
  /\ pc[w] = "get"
  /\ queue = <<>> /\ ~shuttingDown
  /\ pc' = [pc EXCEPT ![w] = "wait"]
  /\ UNCHANGED <<queueVars, holds>>

\* Mutant: Get gives up although there are items.
GetShutdownEarly(w) ==
  /\ pc[w] = "get"
  /\ shuttingDown
  /\ pc' = [pc EXCEPT ![w] = "exit"]
  /\ UNCHANGED <<queueVars, holds>>

GetShutdown(w) ==
  /\ pc[w] = "get"
  /\ queue = <<>> /\ shuttingDown
  /\ pc' = [pc EXCEPT ![w] = "exit"]
  /\ UNCHANGED <<queueVars, holds>>

\* Mutant: Done does not look at dirty.
DoneForgets(w) ==
  /\ pc[w] = "work"
  /\ processing' = processing \ {holds[w]}
  /\ holds' = [holds EXCEPT ![w] = NoItem]
  /\ pc' = [pc EXCEPT ![w] = "get"]
  /\ UNCHANGED <<queue, dirty, shuttingDown>>

Done(w) ==
  /\ pc[w] = "work"
  /\ processing' = processing \ {holds[w]}
  /\ holds' = [holds EXCEPT ![w] = NoItem]
  /\ LET p == [pc EXCEPT ![w] = "get"] IN
     IF holds[w] \in dirty
     THEN queue' = Append(queue, holds[w]) /\ pc' \in Signal(p)
     ELSE queue' = queue /\ pc' = p
  /\ UNCHANGED <<dirty, shuttingDown>>

\* Mutant: Signal instead of Broadcast.
ShutDownSignals ==
  /\ shuttingDown' = TRUE
  /\ pc' \in Signal(pc)
  /\ UNCHANGED <<queue, dirty, processing, holds>>

ShutDown ==
  /\ shuttingDown' = TRUE
  /\ pc' = [w \in Workers |-> IF pc[w] = "wait" THEN "get" ELSE pc[w]]
  /\ UNCHANGED <<queue, dirty, processing, holds>>
-----------------------------------------------------------------------------
Get(w) == GetItem(w) \/ GetWaits(w) \/ GetShutdown(w)

WorkNext ==
  \/ \E i \in Items : Add(i)
  \/ \E w \in Workers : Get(w) \/ Done(w)
  \/ ShutDown

\* Workers are goroutines that keep running and finish the item they hold;
\* nothing obliges a client to add items or to shut the queue down.
WorkSpec ==
  /\ WorkInit /\ [][WorkNext]_workVars
  /\ \A w \in Workers : WF_workVars(Get(w)) /\ WF_workVars(Done(w))
-----------------------------------------------------------------------------
\* Every variable has its type, and a worker holds an item exactly while it
\* works on it.
WorkTypeOK ==
  /\ queue \in Seq(Items)
  /\ dirty \subseteq Items
  /\ processing \subseteq Items
  /\ shuttingDown \in BOOLEAN
  /\ pc \in [Workers -> {"get", "wait", "work", "exit"}]
  /\ holds \in [Workers -> Items \cup {NoItem}]
  /\ \A w \in Workers : pc[w] = "work" <=> holds[w] # NoItem

\* The comment on Type.queue, and its converse: the queue holds, once each, the
\* items that are dirty and not being processed, so that none is handed out
\* twice and none is left behind.
QueueIsDirtyIdle ==
  /\ Range(queue) = dirty \ processing
  /\ IsInjective(queue)

\* No lost wakeup: Signal wakes one worker only, and another may take the item
\* first, yet while a worker sleeps there are enough others on their way into
\* Get for all the items in the queue.
NoSleepOverWork == At("wait") # {} => Len(queue) <= Cardinality(At("get"))

\* "As soon as the worker goroutines have drained the existing items in the
\* queue, they will be instructed to exit" (ShutDown): the last worker leaves
\* no item behind, not even one that was added again while it was processed.
DrainedBeforeExit == At("exit") = Workers => dirty = {} /\ processing = {}

\* After ShutDown every worker is told to exit in the end.
ShutDownCompletes == shuttingDown ~> At("exit") = Workers

\* The queue implements the set of marked items.
Set == INSTANCE WorkSet WITH marked <- dirty, busy <- holds, stopped <- shuttingDown

\* No item is worked on by two workers, an item added while it is being
\* processed is processed again, and nothing is added after ShutDown ...
SetSafe == Set!Safe
\* ... and every item that is added is processed.
SetLive == Set!Live
=============================================================================
