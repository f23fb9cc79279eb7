------------------------------ MODULE PopClose ------------------------------
(***************************************************************************)
(* Stopping a controller: the goroutine of Run that closes the queue when  *)
(* stopCh is closed (controller.go), DeltaFIFO.Close, and the process loop *)
(* that may be anywhere in Pop (delta_fifo.go; fifo.go has the same code). *)
(*                                                                         *)
(* Pop holds f.lock while it tests the queue and the closed flag, but the  *)
(* flag is guarded by closedLock alone, so the steps between two lock      *)
(* operations of Pop are actions of their own here.  The deltas are left   *)
(* out: the queue is the number of ids in it.                              *)
(***************************************************************************)
EXTENDS Naturals

CONSTANT MaxQueue   \* bound: the Reflector leaves a queue of this length alone

VARIABLES
  pending,   \* len(f.queue)
  locked,    \* f.lock is held by Pop
  closed,    \* f.closed
  stopped,   \* stopCh is closed
  pc         \* where the process loop is

closeVars == <<pending, locked, closed, stopped, pc>>

CloseInit ==
  /\ pending = 0
  /\ locked = FALSE
  /\ closed = FALSE
  /\ stopped = FALSE
  /\ pc = "lock"

\* f.cond.Broadcast(): the loop is woken if it is waiting, and only then.
Broadcast == pc' = IF pc = "waiting" THEN "lock" ELSE pc

\* The Reflector queues an id under f.lock, until it sees stopCh closed.
Enqueue ==
  /\ ~locked /\ ~stopped /\ pending < MaxQueue
  /\ pending' = pending + 1
  /\ Broadcast
  /\ UNCHANGED <<locked, closed, stopped>>

Stop ==
  /\ ~stopped
  /\ stopped' = TRUE
  /\ UNCHANGED <<pending, locked, closed, pc>>

\* Close holds closedLock, not f.lock.
Close ==
  /\ stopped /\ ~closed
  /\ closed' = TRUE
  /\ Broadcast
  /\ UNCHANGED <<pending, locked, stopped>>

\* Pop is called, or cond.Wait returns: take f.lock.
PopLock ==
  /\ pc = "lock" /\ ~locked
  /\ locked' = TRUE
  /\ pc' = IF pending = 0 THEN "isClosed" ELSE "process"
  /\ UNCHANGED <<pending, closed, stopped>>

\* An id is taken and processed, Pop returns, and processLoop calls it again.
PopProcess ==
  /\ pc = "process"
  /\ pending' = pending - 1
  /\ locked' = FALSE
  /\ pc' = "lock"
  /\ UNCHANGED <<closed, stopped>>

\* f.IsClosed(): Pop returns FIFOClosedError and processLoop ends, or goes on
\* to wait.
PopIsClosed ==
  /\ pc = "isClosed"
  /\ locked' = ~closed
  /\ pc' = IF closed THEN "returned" ELSE "wait"
  /\ UNCHANGED <<pending, closed, stopped>>

\* f.cond.Wait(): join the waiters and release f.lock.
PopWait ==
  /\ pc = "wait"
  /\ locked' = FALSE
  /\ pc' = "waiting"
  /\ UNCHANGED <<pending, closed, stopped>>

PopStep == PopLock \/ PopProcess \/ PopIsClosed \/ PopWait

CloseNext == Enqueue \/ Stop \/ Close \/ PopStep

\* The goroutine that waits for stopCh and the process loop are scheduled; f.lock
\* is handed to a waiter in the end.
CloseSpec ==
  /\ CloseInit /\ [][CloseNext]_closeVars
  /\ WF_closeVars(Close) /\ WF_closeVars(PopProcess \/ PopIsClosed \/ PopWait)
  /\ SF_closeVars(PopLock)
-----------------------------------------------------------------------------
\* Pop's comment on Close(): the broadcast "causes this loop to continue and
\* return from the Pop()", so the process loop of a stopped controller ends.
StoppedLoopReturns == stopped ~> pc = "returned"
=============================================================================
