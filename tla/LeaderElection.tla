--------------------------- MODULE LeaderElection ---------------------------
(***************************************************************************)
(* client-go's leader election (tools/leaderelection/leaderelection.go):   *)
(* electors read and write a record kept in an annotation of a lock object *)
(* (resourcelock/configmaplock.go) on the API server, which is external    *)
(* and refuses a write that does not carry the object's resourceVersion.   *)
(* What matters of a version is whether it is still the object's: current  *)
(* holds the electors for which it is, and late only such writes, as the   *)
(* others will be refused.                                                 *)
(*                                                                         *)
(* An elector judges a lease by its own clock: it takes over a record that *)
(* it has not seen change for LeaseDuration. The clocks run at one rate    *)
(* and differ by any offset. A call of the API takes up to MaxCall, may be *)
(* answered with an error, and a write whose caller got an error may be    *)
(* applied before or at any time after. Electors crash and restart under   *)
(* the same identity.                                                      *)
(*                                                                         *)
(* Of the record, LeaseDurationSeconds is never read, and AcquireTime      *)
(* changes only when LeaderTransitions does: both are left out.            *)
(***************************************************************************)
EXTENDS Integers, FiniteSets

CONSTANTS
  Electors,
  NoHolder,       \* the empty HolderIdentity
  LeaseDuration, RenewDeadline, RetryPeriod,
  Second,         \* the resolution of a time in the record, in ticks
  Offset,         \* elector -> how far its clock is ahead
  MaxCall,        \* elector -> the longest a call of the API takes, pauses included
  Flaky,          \* the electors whose calls may fail, and which may crash
  MaxTime,        \* bound: the clock stops here
  Created,        \* the lock object is there from the start, without a record
  MaxLate         \* bound: the writes on their way whose callers have given up

ASSUME LeaseAssumption ==
  /\ NoHolder \notin Electors
  /\ LeaseDuration \in Nat /\ RenewDeadline \in Nat /\ RetryPeriod \in Nat \ {0}
  /\ Second \in Nat \ {0} /\ Created \in BOOLEAN
  /\ MaxTime \in Nat /\ MaxLate \in Nat /\ Flaky \subseteq Electors
  /\ Offset \in [Electors -> Nat] /\ MaxCall \in [Electors -> Nat]

\* What NewLeaderElector checks.
NewLeaderElector ==
  /\ LeaseDuration > RenewDeadline
  /\ 5 * RenewDeadline > 6 * RetryPeriod

\* What the lease must allow for on top of that: the last renewal and the two
\* tries with which Poll ends are two calls each, and the record shows the time
\* of a renewal in whole seconds.
LeaseIsLong ==
  \A e \in Electors : LeaseDuration >= RenewDeadline + 6 * MaxCall[e] + Second

ASSUME ConfigAssumption == NewLeaderElector /\ LeaseIsLong

VARIABLES
  now,              \* the time, without the offsets
  record,           \* the lock object's annotation
  exists,           \* the lock object has been created
  current,          \* the electors that read the object in its present version
  late,             \* records on their way to it whose writers have given up
  pc,               \* elector -> where it is, see below
  leading,          \* elector -> acquire has returned and renew has not
  tryNow,           \* elector -> tryAcquireOrRenew's now
  old,              \* elector -> the object it read last: [record, found]
  observedRecord, observedTime, reportedLeader,   \* its fields
  wakeAt,           \* elector -> when the loop's timer or the poll's ticker is due
  deadline,         \* elector -> when the poll's timer closes the channel
  lastTry,          \* elector -> the channel was closed before this try
  callStart,        \* elector -> when the call under way was made
  writtenAt         \* history: when the record was last written

lockVars == <<record, exists, current, writtenAt, late>>
observed == <<observedRecord, observedTime>>
timers == <<wakeAt, deadline>>
tryVars == <<tryNow, old, lastTry, callStart>>
vars == <<now, lockVars, pc, leading, tryVars, observed, reportedLeader, timers>>

\* "idle": waiting for the next try. In a try: "get" before and "got" after the
\* server has read the object; "write" before the server has handled the write,
\* "ok" or "conflict" after. "stopped": Run has returned, or the process is gone.
Calling == {"get", "got", "write", "ok", "conflict"}

RecordOf(e) == [holder |-> e, renewTime |-> 0, transitions |-> 0]
Blank == RecordOf(NoHolder)
NoObject == [record |-> Blank, found |-> FALSE]

\* The longest wait between two tries of acquire.
Jittered == (11 * RetryPeriod) \div 5

\* A record as Create and Update store it: json.Marshal writes a metav1.Time in
\* whole seconds.
Marshal(r) == [r EXCEPT !.renewTime = r.renewTime - (r.renewTime % Second)]

Init ==
  /\ now = 0
  /\ record = Blank
  /\ exists = Created
  /\ current = {}
  /\ writtenAt = 0
  /\ late = {}
  /\ pc = [e \in Electors |-> "idle"]
  /\ leading = [e \in Electors |-> FALSE]
  /\ tryNow = [e \in Electors |-> 0]
  /\ old = [e \in Electors |-> NoObject]
  /\ observedRecord = [e \in Electors |-> Blank]
  /\ observedTime = [e \in Electors |-> -LeaseDuration]
  /\ reportedLeader = [e \in Electors |-> NoHolder]
  /\ wakeAt = [e \in Electors |-> 0]
  /\ deadline = [e \in Electors |-> 0]
  /\ lastTry = [e \in Electors |-> FALSE]
  /\ callStart = [e \in Electors |-> 0]
-----------------------------------------------------------------------------
(* The loops around tryAcquireOrRenew *)

\* maybeReportTransition, after a try of acquire and after a Poll of renew.
maybeReportTransition(e) ==
  reportedLeader' = [reportedLeader EXCEPT ![e] = observedRecord'[e].holder]

\* tryAcquireOrRenew returns: its locals are gone.
EndTry(e) ==
  /\ tryNow' = [tryNow EXCEPT ![e] = 0]
  /\ old' = [old EXCEPT ![e] = NoObject]
  /\ lastTry' = [lastTry EXCEPT ![e] = FALSE]
  /\ callStart' = [callStart EXCEPT ![e] = 0]

\* A try has succeeded: acquire returns and renew begins, or the next Poll does,
\* with its ticker and its timer.
Succeed(e) ==
  /\ pc' = [pc EXCEPT ![e] = "idle"]
  /\ leading' = [leading EXCEPT ![e] = TRUE]
  /\ wakeAt' = [wakeAt EXCEPT ![e] = now + RetryPeriod]
  /\ deadline' = [deadline EXCEPT ![e] = now + RenewDeadline]
  /\ maybeReportTransition(e)
  /\ EndTry(e)

\* A try of acquire has failed: JitterUntil waits for up to 2.2 periods.
AcquireAgain(e) ==
  /\ ~leading[e]
  /\ pc' = [pc EXCEPT ![e] = "idle"]
  /\ \E d \in RetryPeriod .. Jittered : wakeAt' = [wakeAt EXCEPT ![e] = now + d]
  /\ maybeReportTransition(e)
  /\ UNCHANGED <<leading, deadline>>

\* Ticks that come during a try are dropped; the ticker keeps its rhythm.
NextTick(e) ==
  LET pollStart == deadline[e] - RenewDeadline IN
  now + RetryPeriod - ((now - pollStart) % RetryPeriod)

\* A try of renew has failed, and the poll goes on.
PollAgain(e) ==
  /\ leading[e] /\ ~lastTry[e]
  /\ pc' = [pc EXCEPT ![e] = "idle"]
  /\ wakeAt' = [wakeAt EXCEPT ![e] = NextTick(e)]
  /\ UNCHANGED <<leading, deadline, reportedLeader>>

\* Mutant: a process that stops goes on leading.
StopLeads(e) ==
  /\ pc' = [pc EXCEPT ![e] = "stopped"]
  /\ wakeAt' = [wakeAt EXCEPT ![e] = 0]
  /\ deadline' = [deadline EXCEPT ![e] = 0]
  /\ UNCHANGED leading

\* Run returns, or the process is gone.
Stop(e) ==
  /\ pc' = [pc EXCEPT ![e] = "stopped"]
  /\ leading' = [leading EXCEPT ![e] = FALSE]
  /\ wakeAt' = [wakeAt EXCEPT ![e] = 0]
  /\ deadline' = [deadline EXCEPT ![e] = 0]

\* The try after the deadline has failed: renew and Run return.
StopLeading(e) ==
  /\ leading[e] /\ lastTry[e]
  /\ Stop(e)
  /\ maybeReportTransition(e)

Fail(e) == EndTry(e) /\ (AcquireAgain(e) \/ PollAgain(e) \/ StopLeading(e))
-----------------------------------------------------------------------------
(* tryAcquireOrRenew *)

\* The timer of acquire or the ticker of renew fires; or, with last, the channel
\* of the poll is closed and WaitFor calls the condition once more.
Try(e, last) ==
  /\ pc[e] = "idle"
  /\ IF last THEN leading[e] /\ now >= deadline[e]
     ELSE now >= wakeAt[e] /\ (leading[e] => now <= deadline[e])
  /\ lastTry' = [lastTry EXCEPT ![e] = last]
  /\ tryNow' = [tryNow EXCEPT ![e] = now]
  /\ callStart' = [callStart EXCEPT ![e] = now]
  /\ wakeAt' = [wakeAt EXCEPT ![e] = 0]
  /\ pc' = [pc EXCEPT ![e] = "get"]
  /\ UNCHANGED <<now, lockVars, leading, old, observed, reportedLeader, deadline>>

\* The server reads the object for Get.
ServerGet(e) ==
  /\ pc[e] = "get"
  /\ old' = [old EXCEPT ![e] = [record |-> record, found |-> exists]]
  /\ current' = current \cup {e}
  /\ pc' = [pc EXCEPT ![e] = "got"]
  /\ UNCHANGED <<now, record, exists, writtenAt, late, leading, tryNow, lastTry,
                 callStart, observed, reportedLeader, timers>>

\* Mutant: every read counts as a change.
ObserveAlways(e) ==
  /\ observedRecord' = [observedRecord EXCEPT ![e] = old[e].record]
  /\ observedTime' = [observedTime EXCEPT ![e] = now]

\* observedRecord and observedTime after e has read or written its own record: what
\* the code uses of it is the holder.
ObserveOwn(e) ==
  /\ observedRecord' = [observedRecord EXCEPT ![e] = RecordOf(e)]
  /\ observedTime' = [observedTime EXCEPT ![e] = 0]

\* "2. Record obtained": a record that differs from the last is seen to change now.
Observe(e) ==
  IF old[e].record.holder = e THEN ObserveOwn(e)
  ELSE IF old[e].record = observedRecord[e] THEN UNCHANGED observed
  ELSE /\ observedRecord' = [observedRecord EXCEPT ![e] = old[e].record]
       /\ observedTime' = [observedTime EXCEPT ![e] = now]

\* Mutant: the lease is taken to run until the deadline for renewals.
HeldByOtherShort(e) ==
  /\ observedTime'[e] + RenewDeadline > tryNow[e]
  /\ old[e].record.holder # e

\* Mutant: the holder is not compared with the elector.
HeldByAnyone(e) == observedTime'[e] + LeaseDuration > tryNow[e]

\* The lock is held by another and has not expired.
HeldByOther(e) ==
  /\ observedTime'[e] + LeaseDuration > tryNow[e]
  /\ old[e].record.holder # e

Write(e) ==
  /\ pc' = [pc EXCEPT ![e] = "write"]
  /\ callStart' = [callStart EXCEPT ![e] = now]
  /\ UNCHANGED <<now, lockVars, leading, tryNow, old, lastTry, reportedLeader, timers>>

\* Get returns. There is no object: Create it.
GetNotFound(e) ==
  /\ pc[e] = "got" /\ ~old[e].found
  /\ Write(e)
  /\ UNCHANGED observed

\* There is one, held by this elector or by one that has not renewed: Update it.
GetFree(e) ==
  /\ pc[e] = "got" /\ old[e].found
  /\ Observe(e)
  /\ ~HeldByOther(e)
  /\ Write(e)

\* There is one, and another elector's lease: the try fails.
GetHeld(e) ==
  /\ pc[e] = "got" /\ old[e].found
  /\ Observe(e)
  /\ HeldByOther(e)
  /\ Fail(e)
  /\ current' = current \ {e}
  /\ UNCHANGED <<now, record, exists, writtenAt, late>>

\* Mutant: a renewal counts as a transition.
NewRecordCounts(e) ==
  [holder |-> e, renewTime |-> tryNow[e] + Offset[e],
   transitions |-> old[e].record.transitions + (IF old[e].found THEN 1 ELSE 0)]

\* "3. We're going to try to update": the record that Create or Update writes.
NewRecord(e) ==
  [holder |-> e, renewTime |-> tryNow[e] + Offset[e],
   transitions |-> old[e].record.transitions
                   + (IF old[e].found /\ old[e].record.holder # e THEN 1 ELSE 0)]

\* The server stores a record: what the electors read and the writes still on
\* their way carry an old version now.
Store(r) ==
  /\ record' = Marshal(r)
  /\ exists' = TRUE
  /\ current' = {}
  /\ writtenAt' = now
  /\ late' = {}

\* The server handles Create or Update.
ServerWrite(e) ==
  /\ pc[e] = "write"
  /\ IF e \in current THEN Store(NewRecord(e)) ELSE UNCHANGED lockVars
  /\ pc' = [pc EXCEPT ![e] = IF e \in current THEN "ok" ELSE "conflict"]
  /\ UNCHANGED <<now, leading, tryVars, observed, reportedLeader, timers>>

\* Create or Update returns.
WriteOk(e) ==
  /\ pc[e] = "ok"
  /\ ObserveOwn(e)
  /\ Succeed(e)
  /\ UNCHANGED <<now, lockVars>>

WriteConflict(e) ==
  /\ pc[e] = "conflict"
  /\ UNCHANGED <<now, lockVars, observed>>
  /\ Fail(e)
-----------------------------------------------------------------------------
(* Faults *)

\* A write that its caller no longer waits for is lost or may still arrive.
Abandon(e) ==
  /\ \/ late' = late
     \/ /\ pc[e] = "write" /\ e \in current /\ Cardinality(late) < MaxLate
        /\ late' = late \cup {NewRecord(e)}
  /\ current' = current \ {e}
  /\ UNCHANGED <<now, record, exists, writtenAt>>

\* The call under way returns an error, whether or not it took effect.
CallFails(e) ==
  /\ e \in Flaky /\ pc[e] \in Calling
  /\ Abandon(e)
  /\ UNCHANGED observed
  /\ Fail(e)

\* The fields of a LeaderElector as NewLeaderElector leaves them.
NewElector(e) ==
  /\ observedRecord' = [observedRecord EXCEPT ![e] = Blank]
  /\ observedTime' = [observedTime EXCEPT ![e] = -LeaseDuration]
  /\ reportedLeader' = [reportedLeader EXCEPT ![e] = NoHolder]

LateWrite(r) ==
  /\ Store(r)
  /\ UNCHANGED <<now, pc, leading, tryVars, observed, reportedLeader, timers>>

Crash(e) ==
  /\ e \in Flaky /\ pc[e] # "stopped"
  /\ Abandon(e)
  /\ EndTry(e)
  /\ Stop(e)
  /\ NewElector(e)

\* The process starts again and calls Run.
Restart(e) ==
  /\ pc[e] = "stopped"
  /\ pc' = [pc EXCEPT ![e] = "idle"]
  /\ wakeAt' = [wakeAt EXCEPT ![e] = now]
  /\ NewElector(e)
  /\ UNCHANGED <<now, lockVars, leading, tryVars, deadline>>
-----------------------------------------------------------------------------
\* Elector e has something to do before time passes.
Due(e) ==
  \/ pc[e] = "idle" /\ (now >= wakeAt[e] \/ (leading[e] /\ now >= deadline[e]))
  \/ pc[e] \in Calling /\ now >= callStart[e] + MaxCall[e]

Tick ==
  /\ now < MaxTime
  /\ \A e \in Electors : ~Due(e)
  /\ now' = now + 1
  /\ UNCHANGED <<lockVars, pc, leading, tryVars, observed, reportedLeader, timers>>

Step(e) ==
  \/ \E last \in BOOLEAN : Try(e, last)
  \/ ServerGet(e) \/ GetNotFound(e) \/ GetHeld(e) \/ GetFree(e)
  \/ ServerWrite(e) \/ WriteOk(e) \/ WriteConflict(e)

Next ==
  \/ Tick
  \/ \E e \in Electors : Step(e) \/ CallFails(e) \/ Crash(e) \/ Restart(e)
  \/ \E r \in late : LateWrite(r)

Spec == Init /\ [][Next]_vars
-----------------------------------------------------------------------------
(* Properties *)

Records == [holder : Electors \cup {NoHolder}, renewTime : Nat, transitions : Nat]

\* The types of the lock's and the electors' state; only an elector that runs leads,
\* only one in a try has read the object, and only a poll has a last try.
LeaderTypeOK ==
  /\ now \in Nat
  /\ record \in Records /\ exists \in BOOLEAN /\ current \subseteq Electors
  /\ late \subseteq Records
  /\ pc \in [Electors -> Calling \cup {"idle", "stopped"}]
  /\ leading \in [Electors -> BOOLEAN] /\ lastTry \in [Electors -> BOOLEAN]
  /\ tryNow \in [Electors -> Nat] /\ callStart \in [Electors -> Nat]
  /\ wakeAt \in [Electors -> Nat] /\ deadline \in [Electors -> Nat]
  /\ old \in [Electors -> [record : Records, found : BOOLEAN]]
  /\ observedRecord \in [Electors -> Records] /\ observedTime \in [Electors -> Int]
  /\ reportedLeader \in [Electors -> Electors \cup {NoHolder}]
  /\ writtenAt \in Nat
  /\ \A e \in Electors : /\ leading[e] => pc[e] # "stopped"
                         /\ e \in current => pc[e] \in {"got", "write"}
                         /\ lastTry[e] => leading[e] /\ pc[e] \in Calling

\* Slow and failed calls, lost answers, writes that arrive late, skewed clocks,
\* crashes and restarts: an elector that leads still holds the lock, so that no two
\* lead at once.  It depends on what the code does not check: clocks that run at one
\* rate, and a lease long enough for the calls and pauses there are (LeaseIsLong).
LeaderHoldsLock == \A e \in Electors : leading[e] => record.holder = e

\* An elector whose calls do not fail goes on leading, however its calls interleave
\* with those of the others, their failures, their late writes and their restarts.
StableLeader == [][\A e \in Electors \ Flaky : leading[e] => leading'[e]]_vars

\* LeaderTransitions counts the changes of the holder exactly, also when the answer
\* to a write is lost and the elector writes again.
HolderChangesAreCounted ==
  [][exists =>
       record'.transitions = record.transitions + (IF record'.holder = record.holder THEN 0 ELSE 1)]_vars

\* A lock that is not renewed is taken over: within the length of a lease, two
\* waits and six calls of its last write an elector whose calls do not fail has it.
LapsedLockIsTaken ==
  \A e \in Electors \ Flaky :
    now > writtenAt + LeaseDuration + 2 * Jittered + 6 * MaxCall[e] => record.holder = e
=============================================================================
