--------------------------- MODULE DelayingQueue ---------------------------
(***************************************************************************)
(* client-go's delaying queue (util/workqueue/delaying_queue.go): callers  *)
(* of AddAfter send their item and the time it is due through the buffered *)
(* channel waitingForAddCh to the goroutine of waitingLoop, which keeps    *)
(* them in a heap and adds each to the work queue once it is due.          *)
(*                                                                         *)
(* waitingForQueue and waitingEntryByData hold the same entries and belong *)
(* to the one goroutine: they are a single function from items to times.   *)
(***************************************************************************)
EXTENDS WorkQueue

CONSTANTS
  Callers,      \* the goroutines that call AddAfter
  Delays,       \* the durations they pass, other than 0
  ChanCap,      \* the capacity of waitingForAddCh (1000 in the code)
  MaxTime       \* bound: the clock stops here, and nothing is due later

ASSUME DelayAssumption ==
  Delays \subseteq Nat \ {0} /\ MaxTime \in Nat /\ ChanCap \in Nat \ {0}

Never == MaxTime + 1          \* "no entry", "no timer", "nothing owed"
Due == 0..MaxTime

VARIABLES
  now,          \* q.clock
  stopCh,       \* q.stopCh is closed
  ch,           \* waitingForAddCh: entries [data, readyAt]
  cpc,          \* caller -> where it is in AddAfter: "idle" or "send"
  entry,        \* caller -> its waitFor entry
  lpc,          \* where waitingLoop is
  loopNow,      \* its local now, 0 when it is out of scope
  waiting,      \* its heap: item -> readyAt, Never when it is not waiting
  nextReadyAt,  \* when its timer fires, Never outside the select
  owed          \* history: item -> earliest readyAt sent since it was last added

loopVars == <<lpc, loopNow, waiting, nextReadyAt>>
callVars == <<cpc, entry>>
delayVars == <<workVars, now, stopCh, ch, callVars, loopVars, owed>>

NoEntry == [data |-> NoItem, readyAt |-> Never]
\* The first time of the heap, Never when it is empty.
Earliest(f) == CHOOSE t \in Range(f) \cup {Never} : \A u \in Range(f) : t <= u

DelayInit ==
  /\ WorkInit
  /\ now = 0
  /\ stopCh = FALSE
  /\ ch = <<>>
  /\ cpc = [c \in Callers |-> "idle"]
  /\ entry = [c \in Callers |-> NoEntry]
  /\ lpc = "top"
  /\ loopNow = 0
  /\ waiting = [i \in Items |-> Never]
  /\ nextReadyAt = Never
  /\ owed = [i \in Items |-> Never]

\* q.Add, which does nothing when the queue shuts down or the item is dirty.
CallAdd(i) ==
  \/ Add(i)
  \/ (shuttingDown \/ i \in dirty) /\ UNCHANGED workVars
-----------------------------------------------------------------------------
(* AddAfter *)

\* An item with no delay is added at once.  (The ShuttingDown test before
\* q.Add changes nothing: Add has its own.)
AddNow(i) ==
  /\ CallAdd(i)
  /\ UNCHANGED <<now, stopCh, ch, callVars, loopVars, owed>>

\* The ShuttingDown test; then the select computes when the item is due.
AddAfter(c, i, d) ==
  /\ cpc[c] = "idle"
  /\ ~shuttingDown
  /\ now + d <= MaxTime
  /\ cpc' = [cpc EXCEPT ![c] = "send"]
  /\ entry' = [entry EXCEPT ![c] = [data |-> i, readyAt |-> now + d]]
  /\ UNCHANGED <<workVars, now, stopCh, ch, loopVars, owed>>

Return(c) ==
  /\ cpc' = [cpc EXCEPT ![c] = "idle"]
  /\ entry' = [entry EXCEPT ![c] = NoEntry]

Send(c) ==
  /\ cpc[c] = "send"
  /\ Len(ch) < ChanCap
  /\ ch' = Append(ch, entry[c])
  /\ owed' = [owed EXCEPT ![entry[c].data] =
                IF entry[c].readyAt < @ THEN entry[c].readyAt ELSE @]
  /\ Return(c)
  /\ UNCHANGED <<workVars, now, stopCh, loopVars>>

GiveUp(c) ==
  /\ cpc[c] = "send"
  /\ stopCh
  /\ Return(c)
  /\ UNCHANGED <<workVars, now, stopCh, ch, loopVars, owed>>
-----------------------------------------------------------------------------
(* waitingLoop *)

LoopTop ==
  /\ lpc = "top"
  /\ IF shuttingDown
     THEN lpc' = "exit" /\ UNCHANGED loopNow
     ELSE lpc' = "ready" /\ loopNow' = now
  /\ UNCHANGED <<workVars, now, stopCh, ch, callVars, waiting, nextReadyAt, owed>>

\* The loop adds an item: whatever was owed for it is paid.
LoopAdd(i) == CallAdd(i) /\ owed' = [owed EXCEPT ![i] = Never]

\* The first entry of the heap is due.
AddReady(i) ==
  /\ lpc = "ready"
  /\ waiting[i] = Earliest(waiting)
  /\ waiting[i] <= loopNow
  /\ LoopAdd(i)
  /\ waiting' = [waiting EXCEPT ![i] = Never]
  /\ UNCHANGED <<now, stopCh, ch, callVars, lpc, loopNow, nextReadyAt>>

\* Mutant: the operands of the subtraction are swapped.
SetTimerReversed ==
  /\ lpc = "ready"
  /\ Earliest(waiting) > loopNow
  /\ nextReadyAt' = IF Earliest(waiting) = Never THEN Never
                    ELSE now + (loopNow - Earliest(waiting))
  /\ lpc' = "select" /\ loopNow' = 0
  /\ UNCHANGED <<workVars, now, stopCh, ch, callVars, waiting, owed>>

\* No entry is due; the timer runs from the present moment, which may be later
\* than loopNow.
SetTimer ==
  /\ lpc = "ready"
  /\ Earliest(waiting) > loopNow
  /\ nextReadyAt' = IF Earliest(waiting) = Never THEN Never
                    ELSE now + (Earliest(waiting) - loopNow)
  /\ lpc' = "select" /\ loopNow' = 0
  /\ UNCHANGED <<workVars, now, stopCh, ch, callVars, waiting, owed>>

\* <-stopCh, <-heartbeat and <-nextReadyAt.
SelectStop ==
  /\ lpc = "select" /\ stopCh
  /\ lpc' = "exit" /\ nextReadyAt' = Never
  /\ UNCHANGED <<workVars, now, stopCh, ch, callVars, loopNow, waiting, owed>>

Heartbeat ==
  /\ lpc = "select"
  /\ lpc' = "top" /\ nextReadyAt' = Never
  /\ UNCHANGED <<workVars, now, stopCh, ch, callVars, loopNow, waiting, owed>>

SelectTimer ==
  /\ lpc = "select" /\ nextReadyAt <= now
  /\ lpc' = "top" /\ nextReadyAt' = Never
  /\ UNCHANGED <<workVars, now, stopCh, ch, callVars, loopNow, waiting, owed>>

\* Mutant: the newest entry wins.
insertNewest(e) == waiting' = [waiting EXCEPT ![e.data] = e.readyAt]

\* insert: a second entry for an item only ever makes it due sooner.
insert(e) ==
  waiting' = [waiting EXCEPT ![e.data] = IF e.readyAt < @ THEN e.readyAt ELSE @]

\* Mutant: an entry that is due when it is received is dropped.
ReceiveDropsDue ==
  /\ lpc \in {"select", "drain"}
  /\ ch # <<>>
  /\ IF Head(ch).readyAt > now THEN insert(Head(ch)) ELSE UNCHANGED waiting
  /\ ch' = Tail(ch)
  /\ lpc' = "drain" /\ nextReadyAt' = Never
  /\ UNCHANGED <<workVars, owed, now, stopCh, callVars, loopNow>>

\* An entry is received, first in the select, then in the draining loop.
Receive ==
  /\ lpc \in {"select", "drain"}
  /\ ch # <<>>
  /\ IF Head(ch).readyAt > now
     THEN insert(Head(ch)) /\ UNCHANGED <<workVars, owed>>
     ELSE LoopAdd(Head(ch).data) /\ UNCHANGED waiting
  /\ ch' = Tail(ch)
  /\ lpc' = "drain" /\ nextReadyAt' = Never
  /\ UNCHANGED <<now, stopCh, callVars, loopNow>>

Drained ==
  /\ lpc = "drain" /\ ch = <<>>
  /\ lpc' = "top"
  /\ UNCHANGED <<workVars, now, stopCh, ch, callVars, loopNow, waiting, nextReadyAt, owed>>
-----------------------------------------------------------------------------
\* ShutDown: the work queue first, then stopCh.  (A second call would panic.)
DelayingShutDown ==
  /\ ~shuttingDown
  /\ ShutDown
  /\ UNCHANGED <<now, stopCh, ch, callVars, loopVars, owed>>

\* Mutant: ShutDown leaves stopCh open.
StopChStaysOpen == FALSE /\ UNCHANGED delayVars

CloseStopCh ==
  /\ shuttingDown /\ ~stopCh
  /\ stopCh' = TRUE
  /\ UNCHANGED <<workVars, now, ch, callVars, loopVars, owed>>

Tick ==
  /\ now < MaxTime
  /\ now' = now + 1
  /\ UNCHANGED <<workVars, stopCh, ch, callVars, loopVars, owed>>

Worker(w) ==
  /\ Get(w) \/ Done(w)
  /\ UNCHANGED <<now, stopCh, ch, callVars, loopVars, owed>>

Loop ==
  \/ LoopTop \/ (\E i \in Items : AddReady(i)) \/ SetTimer
  \/ SelectStop \/ SelectTimer \/ Heartbeat \/ Receive \/ Drained
Finish(c) == Send(c) \/ GiveUp(c)

DelayNext ==
  \/ \E c \in Callers, i \in Items, d \in Delays : AddAfter(c, i, d)
  \/ \E c \in Callers : Finish(c)
  \/ \E i \in Items : AddNow(i)
  \/ Loop
  \/ DelayingShutDown \/ CloseStopCh \/ Tick
  \/ \E w \in Workers : Worker(w)

\* The loop's goroutine, the callers and the workers keep running, the clock
\* and the heartbeat keep ticking, and ShutDown returns once it is called.
\* Strong fairness for the receive case of the loop's select: Go chooses at
\* random among the cases that are ready.
DelaySpec ==
  /\ DelayInit /\ [][DelayNext]_delayVars
  /\ WF_delayVars(Loop) /\ SF_delayVars(Receive)
  /\ WF_delayVars(Tick) /\ WF_delayVars(CloseStopCh)
  /\ \A c \in Callers : WF_delayVars(Finish(c))
  /\ \A w \in Workers : WF_delayVars(Worker(w))
-----------------------------------------------------------------------------
\* The types of the delaying queue's state.
DelayTypeOK ==
  /\ now \in Due /\ stopCh \in BOOLEAN
  /\ ch \in Seq([data : Items, readyAt : Due]) /\ Len(ch) <= ChanCap
  /\ cpc \in [Callers -> {"idle", "send"}]
  /\ entry \in [Callers -> [data : Items, readyAt : Due] \cup {NoEntry}]
  /\ \A c \in Callers : IF cpc[c] = "idle" THEN entry[c] = NoEntry
                        ELSE entry[c] \in [data : Items, readyAt : Due]
  /\ lpc \in {"top", "ready", "select", "drain", "exit"}
  /\ loopNow \in 0..now
  /\ waiting \in [Items -> Due \cup {Never}]
  /\ nextReadyAt \in Nat
  /\ owed \in [Items -> Due \cup {Never}]

\* The times at which item i is waiting to be added, in the heap or the channel.
DueTimes(i) ==
  {waiting[i]} \cup {ch[n].readyAt : n \in {m \in 1..Len(ch) : ch[m].data = i}}

\* Entries that overtake, repeat or replace one another are never forgotten or
\* put off: an item that was sent is still waiting, and due no later than the
\* earliest time that was asked for.
OwedIsWaiting ==
  \A i \in Items : owed[i] # Never => \E t \in DueTimes(i) : t <= owed[i]

\* An item that AddAfter accepted is added in the end, unless the queue shuts
\* down first.
OwedIsPaid == \A i \in Items : owed[i] # Never ~> (owed[i] = Never \/ shuttingDown)

\* "unblock if ShutDown() is called": no caller of AddAfter is stuck on a full
\* channel that nobody reads any more.
AddAfterReturns == \A c \in Callers : cpc[c] # "idle" ~> cpc[c] = "idle"
=============================================================================
