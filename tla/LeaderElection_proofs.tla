------------------------ MODULE LeaderElection_proofs ------------------------
(***************************************************************************)
(* Proofs about LeaderElection, for every number of electors, every        *)
(* configuration that satisfies LeaseIsLong, every offset of the clocks,   *)
(* every bound on the calls and on the time.                               *)
(***************************************************************************)
EXTENDS LeaderElection, TLAPS

\* A record shows a time that has passed on its holder's clock.
Stamped(r) == r.holder \in Electors => r.renewTime <= now + Offset[r.holder]

\* For all but b the lease of the record has run out.
Lapsed(b) ==
  record.holder \in Electors \ {b} =>
    record.renewTime + LeaseDuration <= now + Offset[record.holder]

LockInv ==
  /\ Stamped(record)
  /\ ~exists => record = Blank
  /\ \A r \in late :
       /\ r.holder \in Flaky
       /\ Stamped(r)
       /\ Lapsed(r.holder)
       /\ exists => r.transitions = record.transitions
                                      + (IF r.holder = record.holder THEN 0 ELSE 1)

ReadInv(e) ==
  /\ Stamped(old[e].record)
  /\ e \in current => old[e] = [record |-> record, found |-> exists]
  /\ e \in current /\ pc[e] = "write" => Lapsed(e)

ObservedInv(e) ==
  /\ observedTime[e] <= now
  /\ observedRecord[e].holder \in Electors \ {e} =>
       observedRecord[e].renewTime <= observedTime[e] + Offset[observedRecord[e].holder]

TimeInv(e) ==
  /\ pc[e] \in Calling => /\ tryNow[e] <= callStart[e] /\ callStart[e] <= tryNow[e] + MaxCall[e]
                          /\ callStart[e] <= now /\ now <= callStart[e] + MaxCall[e]
                          /\ pc[e] \in {"get", "got"} => callStart[e] = tryNow[e]
  /\ leading[e] /\ pc[e] = "idle" => /\ deadline[e] <= now + RenewDeadline
                                     /\ now <= deadline[e] + 2 * MaxCall[e]
  /\ leading[e] /\ pc[e] \in Calling => /\ deadline[e] <= tryNow[e] + RenewDeadline
                                        /\ tryNow[e] <= deadline[e] + 2 * MaxCall[e]
                                        /\ ~lastTry[e] => tryNow[e] <= deadline[e]

LeadInv(e) ==
  /\ leading[e] \/ pc[e] = "ok" => record.holder = e
  /\ leading[e] => deadline[e] + Offset[e]
                     <= record.renewTime + Second - 1 + 2 * MaxCall[e] + RenewDeadline
  /\ pc[e] = "ok" => tryNow[e] + Offset[e] <= record.renewTime + Second - 1
  /\ \A r \in late : r.holder = e =>
       /\ pc[e] # "ok"
       /\ leading[e] => deadline[e] + Offset[e] <= r.renewTime + RenewDeadline

ReliableInv(e) ==
  e \notin Flaky =>
    /\ pc[e] # "stopped"
    /\ leading[e] => /\ pc[e] # "conflict"
                     /\ pc[e] \in {"got", "write"} => e \in current

\* Elector e, which does not fail, has seen the record that another holds.
Fresh(e) ==
  /\ observedRecord[e] = record
  /\ observedTime[e] <= writtenAt + Jittered + 3 * MaxCall[e]

\* t is the time of a try, before or after e has seen the record.
Soon(e, t) ==
  \/ t <= writtenAt + Jittered + 2 * MaxCall[e]
  \/ Fresh(e) /\ t <= observedTime[e] + LeaseDuration - 1 + MaxCall[e] + Jittered

WaitInv(e) ==
  e \notin Flaky =>
    /\ pc[e] = "idle" /\ ~leading[e] => now <= wakeAt[e] /\ wakeAt[e] <= now + Jittered
    /\ record.holder # e =>
         /\ pc[e] = "idle" => Soon(e, wakeAt[e])
         /\ pc[e] = "get" => Soon(e, tryNow[e])
         /\ pc[e] = "got" /\ e \in current => Soon(e, tryNow[e])
         /\ pc[e] = "write" /\ e \in current =>
              tryNow[e] <= writtenAt + LeaseDuration - 1 + 2 * Jittered + 4 * MaxCall[e]
         /\ pc[e] \in {"got", "write"} /\ e \notin current => tryNow[e] <= writtenAt
         /\ pc[e] = "conflict" => tryNow[e] <= writtenAt

ElectorInv(e) ==
  /\ ReadInv(e) /\ ObservedInv(e) /\ TimeInv(e)
  /\ LeadInv(e) /\ ReliableInv(e) /\ WaitInv(e)

\* The inductive invariant.
IInv == LeaderTypeOK /\ LockInv /\ \A e \in Electors : ElectorInv(e)

\* A step leaves elector f's own state alone.
Same(f) ==
  /\ pc'[f] = pc[f] /\ leading'[f] = leading[f] /\ tryNow'[f] = tryNow[f]
  /\ old'[f] = old[f] /\ lastTry'[f] = lastTry[f] /\ callStart'[f] = callStart[f]
  /\ observedRecord'[f] = observedRecord[f] /\ observedTime'[f] = observedTime[f]
  /\ wakeAt'[f] = wakeAt[f] /\ deadline'[f] = deadline[f]

\* A step leaves the time and the object alone, and makes no other elector's write
\* late than e's.
Quiet(e) ==
  /\ UNCHANGED <<now, record, exists, writtenAt>>
  /\ \A f \in Electors \ {e} : f \in current' <=> f \in current
  /\ \A r \in late' : r \in late \/ r.holder = e
-----------------------------------------------------------------------------
(* The operators *)

\* What the constants are.
LEMMA Constants ==
  /\ NoHolder \notin Electors /\ Flaky \subseteq Electors
  /\ LeaseDuration \in Nat /\ RenewDeadline \in Nat /\ RetryPeriod \in Nat \ {0}
  /\ Second \in Nat \ {0} /\ MaxTime \in Nat /\ Jittered \in Nat /\ Created \in BOOLEAN
  /\ \A e \in Electors :
       /\ Offset[e] \in Nat /\ MaxCall[e] \in Nat
       /\ LeaseDuration >= RenewDeadline + 6 * MaxCall[e] + Second
<1>1. Jittered \in Nat
  BY LeaseAssumption DEF LeaseAssumption, Jittered
<1> QED BY <1>1, LeaseAssumption, ConfigAssumption, Zenon DEF LeaseAssumption, ConfigAssumption, LeaseIsLong

\* json.Marshal keeps all of a record but less than a second of its time.
LEMMA MarshalFacts ==
  ASSUME NEW r \in Records
  PROVE  /\ Marshal(r) \in Records
         /\ Marshal(r).holder = r.holder /\ Marshal(r).transitions = r.transitions
         /\ Marshal(r).renewTime <= r.renewTime
         /\ r.renewTime <= Marshal(r).renewTime + Second - 1
<1>1. Second \in Nat \ {0} /\ r.renewTime \in Nat
  BY Constants, Zenon DEF Records
<1>2. r.renewTime % Second \in 0 .. Second - 1 /\ r.renewTime % Second <= r.renewTime
  BY <1>1
<1>3. r.renewTime - (r.renewTime % Second) \in Nat
  BY <1>1, <1>2
<1> QED BY <1>1, <1>2, <1>3 DEF Marshal, Records

\* The record that an elector writes.
LEMMA NewRecordFacts ==
  ASSUME LeaderTypeOK, NEW e \in Electors
  PROVE  /\ NewRecord(e) \in Records
         /\ NewRecord(e).holder = e
         /\ NewRecord(e).renewTime = tryNow[e] + Offset[e]
         /\ NewRecord(e).transitions
              = old[e].record.transitions
                  + (IF old[e].found /\ old[e].record.holder # e THEN 1 ELSE 0)
<1>1. tryNow[e] \in Nat /\ Offset[e] \in Nat /\ old[e].record \in Records
  BY Constants, Zenon DEF LeaderTypeOK
<1>2. old[e].record.transitions \in Nat
  BY <1>1, Zenon DEF Records
<1> QED BY <1>1, <1>2 DEF NewRecord, Records

\* A try that fails leaves the elector idle or stopped, and its locals empty.
LEMMA FailFacts ==
  ASSUME LeaderTypeOK, NEW e \in Electors, Fail(e),
         observedRecord' \in [Electors -> Records]
  PROVE  /\ \/ /\ ~leading[e] /\ pc' = [pc EXCEPT ![e] = "idle"] /\ UNCHANGED <<leading, deadline>>
               /\ \E d \in RetryPeriod .. Jittered : wakeAt' = [wakeAt EXCEPT ![e] = now + d]
            \/ /\ leading[e] /\ ~lastTry[e] /\ UNCHANGED <<leading, deadline>>
               /\ pc' = [pc EXCEPT ![e] = "idle"]
               /\ \E t \in Nat : wakeAt' = [wakeAt EXCEPT ![e] = t]
            \/ /\ leading[e] /\ lastTry[e] /\ pc' = [pc EXCEPT ![e] = "stopped"]
               /\ leading' = [leading EXCEPT ![e] = FALSE]
               /\ wakeAt' = [wakeAt EXCEPT ![e] = 0]
               /\ deadline' = [deadline EXCEPT ![e] = 0]
         /\ tryNow' = [tryNow EXCEPT ![e] = 0] /\ callStart' = [callStart EXCEPT ![e] = 0]
         /\ old' = [old EXCEPT ![e] = NoObject] /\ lastTry' = [lastTry EXCEPT ![e] = FALSE]
         /\ reportedLeader' \in [Electors -> Electors \cup {NoHolder}]
<1>1. EndTry(e) /\ (AcquireAgain(e) \/ PollAgain(e) \/ StopLeading(e))
  BY Zenon DEF Fail
<1>2. maybeReportTransition(e) => reportedLeader' \in [Electors -> Electors \cup {NoHolder}]
  BY ZenonT(30) DEF maybeReportTransition, LeaderTypeOK, Records
<1>3. CASE AcquireAgain(e)
  BY <1>1, <1>2, <1>3, Zenon DEF AcquireAgain, EndTry
<1>4. CASE PollAgain(e)
  <2>1. deadline[e] \in Nat /\ now \in Nat /\ RenewDeadline \in Nat /\ RetryPeriod \in Nat \ {0}
    BY Constants, Zenon DEF LeaderTypeOK
  <2>2. (now - (deadline[e] - RenewDeadline)) % RetryPeriod \in 0 .. RetryPeriod - 1
    BY <2>1
  <2>3. NextTick(e) \in Nat
    BY <2>1, <2>2 DEF NextTick
  <2> HIDE DEF NextTick
  <2> QED BY <1>1, <1>4, <2>3, Zenon DEF PollAgain, EndTry, LeaderTypeOK
<1>5. CASE StopLeading(e)
  BY <1>1, <1>2, <1>5, Zenon DEF StopLeading, Stop, EndTry
<1> QED BY <1>1, <1>3, <1>4, <1>5, Zenon

\* The values that an empty field has.
LEMMA BlankFacts ==
  /\ Blank \in Records /\ NoObject \in [record : Records, found : BOOLEAN]
  /\ Blank.holder = NoHolder /\ NoObject.record = Blank
  /\ \A e \in Electors : RecordOf(e) \in Records /\ RecordOf(e).holder = e
BY Zenon DEF Blank, NoObject, Records, RecordOf

\* What Observe leaves: the record read, or for an own record its holder.
LEMMA ObserveFacts ==
  ASSUME LeaderTypeOK, NEW e \in Electors, Observe(e)
  PROVE  /\ observedRecord' \in [Electors -> Records] /\ observedTime' \in [Electors -> Int]
         /\ \A f \in Electors \ {e} : observedRecord'[f] = observedRecord[f]
                                      /\ observedTime'[f] = observedTime[f]
         /\ \/ old[e].record.holder = e /\ observedRecord'[e].holder = e /\ observedTime'[e] = 0
            \/ /\ old[e].record.holder # e /\ observedRecord'[e] = old[e].record
               /\ IF observedRecord[e] = old[e].record THEN observedTime'[e] = observedTime[e]
                  ELSE observedTime'[e] = now
<1>1. /\ observedRecord \in [Electors -> Records] /\ observedTime \in [Electors -> Int]
      /\ old[e].record \in Records /\ now \in Int
  BY DEF LeaderTypeOK
<1>2. CASE old[e].record.holder = e
  <2>1. ObserveOwn(e)
    BY <1>2, Zenon DEF Observe
  <2>2. RecordOf(e) \in Records /\ RecordOf(e).holder = e
    BY BlankFacts, Zenon
  <2> QED BY <1>1, <1>2, <2>1, <2>2 DEF ObserveOwn
<1>3. CASE old[e].record.holder # e /\ old[e].record = observedRecord[e]
  BY <1>1, <1>3, Zenon DEF Observe, observed
<1>4. CASE old[e].record.holder # e /\ old[e].record # observedRecord[e]
  BY <1>1, <1>4, Zenon DEF Observe
<1> QED BY <1>2, <1>3, <1>4, Zenon
-----------------------------------------------------------------------------
(* The types *)

\* One step keeps the types.
LEMMA TypeNext == LeaderTypeOK /\ [Next]_vars => LeaderTypeOK'
<1> SUFFICES ASSUME LeaderTypeOK, [Next]_vars PROVE LeaderTypeOK'
  OBVIOUS
<1> USE Constants
<1>1. CASE Tick
  BY <1>1 DEF Tick, LeaderTypeOK, lockVars, tryVars, observed, timers
<1>2. ASSUME NEW e \in Electors, NEW last \in BOOLEAN, Try(e, last) PROVE LeaderTypeOK'
  BY <1>2, Zenon DEF Try, LeaderTypeOK, lockVars, observed, Calling
<1>3. ASSUME NEW e \in Electors, ServerGet(e) PROVE LeaderTypeOK'
  BY <1>3, Zenon DEF ServerGet, LeaderTypeOK, observed, timers, Calling
<1>4. ASSUME NEW e \in Electors, GetNotFound(e) PROVE LeaderTypeOK'
  BY <1>4, Zenon DEF GetNotFound, Write, LeaderTypeOK, lockVars, observed, timers, Calling
<1>5. ASSUME NEW e \in Electors, GetFree(e) PROVE LeaderTypeOK'
  <2>1. observedRecord' \in [Electors -> Records] /\ observedTime' \in [Electors -> Int]
    BY <1>5, ObserveFacts, Zenon DEF GetFree
  <2> QED BY <1>5, <2>1, Zenon DEF GetFree, Write, LeaderTypeOK, lockVars, timers, Calling
<1>6. ASSUME NEW e \in Electors, Fail(e), now' = now, pc[e] \in Calling,
             record' \in Records, exists' \in BOOLEAN, writtenAt' \in Nat, late' \subseteq Records,
             current' = current \ {e},
             observedRecord' \in [Electors -> Records], observedTime' \in [Electors -> Int]
      PROVE  LeaderTypeOK'
  <2>1. /\ pc' \in [Electors -> Calling \cup {"idle", "stopped"}]
        /\ leading' \in [Electors -> BOOLEAN] /\ lastTry' \in [Electors -> BOOLEAN]
        /\ tryNow' \in [Electors -> Nat] /\ callStart' \in [Electors -> Nat]
        /\ wakeAt' \in [Electors -> Nat] /\ deadline' \in [Electors -> Nat]
        /\ old' \in [Electors -> [record : Records, found : BOOLEAN]]
        /\ reportedLeader' \in [Electors -> Electors \cup {NoHolder}]
    <3>1. /\ tryNow' = [tryNow EXCEPT ![e] = 0] /\ callStart' = [callStart EXCEPT ![e] = 0]
          /\ old' = [old EXCEPT ![e] = NoObject] /\ lastTry' = [lastTry EXCEPT ![e] = FALSE]
          /\ reportedLeader' \in [Electors -> Electors \cup {NoHolder}]
      BY <1>6, FailFacts, Zenon
    <3>2. /\ \/ pc' = [pc EXCEPT ![e] = "idle"]
             \/ pc' = [pc EXCEPT ![e] = "stopped"]
          /\ \/ leading' = leading
             \/ leading' = [leading EXCEPT ![e] = FALSE]
          /\ \/ deadline' = deadline
             \/ deadline' = [deadline EXCEPT ![e] = 0]
      BY <1>6, FailFacts, Zenon
    <3>3. \E t \in Nat : wakeAt' = [wakeAt EXCEPT ![e] = t]
      <4>1. now \in Nat
        BY Zenon DEF LeaderTypeOK
      <4> QED BY <1>6, <4>1, FailFacts
    <3>4. wakeAt' \in [Electors -> Nat]
      BY <3>3, Zenon DEF LeaderTypeOK
    <3>5. /\ old' \in [Electors -> [record : Records, found : BOOLEAN]]
          /\ lastTry' \in [Electors -> BOOLEAN]
      BY <3>1, BlankFacts, Zenon DEF LeaderTypeOK
    <3>6. tryNow' \in [Electors -> Nat] /\ callStart' \in [Electors -> Nat]
      BY <3>1, Zenon DEF LeaderTypeOK
    <3>7. pc' \in [Electors -> Calling \cup {"idle", "stopped"}]
      BY <3>2, ZenonT(30) DEF LeaderTypeOK
    <3>8. leading' \in [Electors -> BOOLEAN]
      BY <3>2, Zenon DEF LeaderTypeOK
    <3>9. deadline' \in [Electors -> Nat]
      BY <3>2 DEF LeaderTypeOK
    <3> QED BY <3>1, <3>4, <3>5, <3>6, <3>7, <3>8, <3>9, Zenon
  <2>2. ASSUME NEW f \in Electors
        PROVE  /\ leading'[f] => pc'[f] # "stopped"
               /\ f \in current' => pc'[f] \in {"got", "write"}
               /\ lastTry'[f] => leading'[f] /\ pc'[f] \in Calling
    BY <1>6, FailFacts DEF LeaderTypeOK, Calling
  <2> QED BY <1>6, <2>1, <2>2, Zenon DEF LeaderTypeOK
<1>7. ASSUME NEW e \in Electors, GetHeld(e) PROVE LeaderTypeOK'
  <2>1. observedRecord' \in [Electors -> Records] /\ observedTime' \in [Electors -> Int]
    BY <1>7, ObserveFacts, Zenon DEF GetHeld
  <2> QED BY <1>6, <1>7, <2>1, Zenon DEF GetHeld, LeaderTypeOK, Calling
<1>8. ASSUME NEW r \in Records, Store(r) PROVE record' \in Records /\ exists' \in BOOLEAN
         /\ writtenAt' \in Nat /\ late' \subseteq Records /\ current' = {}
  BY <1>8, MarshalFacts, Zenon DEF Store, LeaderTypeOK
<1>9. ASSUME NEW e \in Electors, ServerWrite(e) PROVE LeaderTypeOK'
  <2>1. /\ record' \in Records /\ exists' \in BOOLEAN /\ writtenAt' \in Nat
        /\ late' \subseteq Records /\ current' \subseteq current \ {e}
    BY <1>8, <1>9, NewRecordFacts DEF ServerWrite, lockVars, LeaderTypeOK
  <2> QED BY <1>9, <2>1, Zenon DEF ServerWrite, LeaderTypeOK, tryVars, observed, timers, Calling
<1>10. ASSUME NEW e \in Electors, WriteOk(e) PROVE LeaderTypeOK'
  <2>1. observedRecord' \in [Electors -> Records] /\ observedTime' \in [Electors -> Int]
    BY <1>10, BlankFacts DEF WriteOk, ObserveOwn, LeaderTypeOK
  <2>2. reportedLeader' \in [Electors -> Electors \cup {NoHolder}]
    BY <1>10, <2>1, Zenon DEF WriteOk, Succeed, maybeReportTransition, LeaderTypeOK, Records
  <2>3. /\ old' \in [Electors -> [record : Records, found : BOOLEAN]]
        /\ tryNow' \in [Electors -> Nat] /\ callStart' \in [Electors -> Nat]
        /\ lastTry' \in [Electors -> BOOLEAN]
    BY <1>10, BlankFacts, Zenon DEF WriteOk, Succeed, EndTry, LeaderTypeOK
  <2>4. /\ pc' \in [Electors -> Calling \cup {"idle", "stopped"}]
        /\ leading' \in [Electors -> BOOLEAN]
        /\ wakeAt' \in [Electors -> Nat] /\ deadline' \in [Electors -> Nat]
    BY <1>10 DEF WriteOk, Succeed, LeaderTypeOK
  <2>5. ASSUME NEW f \in Electors
        PROVE  /\ leading'[f] => pc'[f] # "stopped"
               /\ f \in current' => pc'[f] \in {"got", "write"}
               /\ lastTry'[f] => leading'[f] /\ pc'[f] \in Calling
    BY <1>10, Zenon DEF WriteOk, Succeed, EndTry, LeaderTypeOK, lockVars, Calling
  <2>6. /\ now' \in Nat /\ record' \in Records /\ exists' \in BOOLEAN /\ writtenAt' \in Nat
        /\ late' \subseteq Records /\ current' \subseteq Electors
    BY <1>10, Zenon DEF WriteOk, LeaderTypeOK, lockVars
  <2> QED BY <2>1, <2>2, <2>3, <2>4, <2>5, <2>6, Zenon DEF LeaderTypeOK
<1>11. ASSUME NEW e \in Electors, WriteConflict(e) PROVE LeaderTypeOK'
  BY <1>6, <1>11, Zenon DEF WriteConflict, LeaderTypeOK, lockVars, observed, Calling
<1>12. ASSUME NEW e \in Electors, Abandon(e)
       PROVE  /\ now' = now /\ record' \in Records /\ exists' \in BOOLEAN /\ writtenAt' \in Nat
              /\ late' \subseteq Records /\ current' = current \ {e}
  BY <1>12, NewRecordFacts, Zenon DEF Abandon, LeaderTypeOK
<1>13. ASSUME NEW e \in Electors, CallFails(e) PROVE LeaderTypeOK'
  BY <1>6, <1>12, <1>13, Zenon DEF CallFails, LeaderTypeOK, observed
<1>14. ASSUME NEW e \in Electors, NewElector(e)
       PROVE  /\ observedRecord' \in [Electors -> Records] /\ observedTime' \in [Electors -> Int]
              /\ reportedLeader' \in [Electors -> Electors \cup {NoHolder}]
  BY <1>14, BlankFacts DEF NewElector, LeaderTypeOK
<1>15. ASSUME NEW e \in Electors, Crash(e) PROVE LeaderTypeOK'
  <2>1. /\ now' = now /\ record' \in Records /\ exists' \in BOOLEAN /\ writtenAt' \in Nat
        /\ late' \subseteq Records /\ current' = current \ {e}
        /\ observedRecord' \in [Electors -> Records] /\ observedTime' \in [Electors -> Int]
        /\ reportedLeader' \in [Electors -> Electors \cup {NoHolder}]
    BY <1>12, <1>14, <1>15, Zenon DEF Crash
  <2> QED BY <1>15, <2>1, BlankFacts, ZenonT(30) DEF Crash, EndTry, Stop, LeaderTypeOK, Calling
<1>16. ASSUME NEW e \in Electors, Restart(e) PROVE LeaderTypeOK'
  BY <1>14, <1>16, Zenon DEF Restart, LeaderTypeOK, lockVars, tryVars, Calling
<1>17. ASSUME NEW r \in late, LateWrite(r) PROVE LeaderTypeOK'
  <2>1. /\ record' \in Records /\ exists' \in BOOLEAN /\ writtenAt' \in Nat
        /\ late' \subseteq Records /\ current' = {}
    BY <1>8, <1>17, Zenon DEF LateWrite, LeaderTypeOK
  <2> QED BY <1>17, <2>1, Zenon DEF LateWrite, LeaderTypeOK, tryVars, observed, timers
<1>18. CASE UNCHANGED vars
  BY <1>18, Zenon DEF vars, LeaderTypeOK, lockVars, tryVars, observed, timers
<1> QED BY <1>1, <1>2, <1>3, <1>4, <1>5, <1>7, <1>9, <1>10, <1>11, <1>13, <1>15, <1>16, <1>17, <1>18, Zenon
      DEF Next, Step
-----------------------------------------------------------------------------
(* A step's effect on the electors that do not take it *)

\* What the types say of one elector's numbers.
LEMMA Numbers ==
  ASSUME LeaderTypeOK, NEW e \in Electors
  PROVE  /\ now \in Nat /\ writtenAt \in Nat /\ record \in Records
         /\ record.renewTime \in Nat /\ record.transitions \in Nat
         /\ tryNow[e] \in Nat /\ callStart[e] \in Nat /\ wakeAt[e] \in Nat /\ deadline[e] \in Nat
         /\ observedTime[e] \in Int /\ observedRecord[e] \in Records
         /\ old[e].record \in Records /\ old[e].found \in BOOLEAN
         /\ leading[e] \in BOOLEAN /\ lastTry[e] \in BOOLEAN
         /\ Offset[e] \in Nat /\ MaxCall[e] \in Nat
<1>1. record \in Records
  BY Zenon DEF LeaderTypeOK
<1>2. record.renewTime \in Nat /\ record.transitions \in Nat
  BY <1>1, Zenon DEF Records
<1> QED BY <1>1, <1>2, Constants, Zenon DEF LeaderTypeOK

\* While an elector leads or is about to, its lease has not run out.
LEMMA LeaseLasts ==
  ASSUME LeaderTypeOK, NEW e \in Electors, TimeInv(e), LeadInv(e), leading[e] \/ pc[e] = "ok"
  PROVE  record.holder = e /\ now + Offset[e] < record.renewTime + LeaseDuration
<1>1. /\ now \in Nat /\ record.renewTime \in Nat /\ tryNow[e] \in Nat /\ callStart[e] \in Nat
      /\ deadline[e] \in Nat /\ Offset[e] \in Nat /\ MaxCall[e] \in Nat
  BY Numbers, Zenon
<1>2. /\ LeaseDuration \in Nat /\ RenewDeadline \in Nat /\ Second \in Nat \ {0}
      /\ LeaseDuration >= RenewDeadline + 6 * MaxCall[e] + Second
  BY Constants, Zenon
<1>3. record.holder = e
  BY Zenon DEF LeadInv
<1>4. CASE pc[e] = "ok"
  <2>1. now <= tryNow[e] + 2 * MaxCall[e]
    BY <1>1, <1>4 DEF TimeInv, Calling
  <2>2. tryNow[e] + Offset[e] <= record.renewTime + Second - 1
    BY <1>4, Zenon DEF LeadInv
  <2> QED BY <1>1, <1>2, <1>3, <2>1, <2>2
<1>5. CASE leading[e]
  <2>1. pc[e] \in Calling \cup {"idle"}
    BY <1>5, Zenon DEF LeaderTypeOK
  <2>2. now <= deadline[e] + 4 * MaxCall[e]
    BY <1>1, <1>5, <2>1 DEF TimeInv
  <2>3. deadline[e] + Offset[e] <= record.renewTime + Second - 1 + 2 * MaxCall[e] + RenewDeadline
    BY <1>5, Zenon DEF LeadInv
  <2> QED BY <1>1, <1>2, <1>3, <2>2, <2>3
<1> QED BY <1>4, <1>5, Zenon

\* A step that leaves the object alone leaves what holds of the other electors.
LEMMA OthersQuiet ==
  ASSUME IInv, NEW e \in Electors, NEW f \in Electors \ {e}, Same(f), Quiet(e)
  PROVE  ElectorInv(f)'
<1> USE DEF Same, Quiet
<1>0. ElectorInv(f)
  BY Zenon DEF IInv
<1>1. ReadInv(f)'
  BY <1>0, Zenon DEF ElectorInv, ReadInv, Stamped, Lapsed
<1>2. ObservedInv(f)'
  BY <1>0, Zenon DEF ElectorInv, ObservedInv
<1>3. TimeInv(f)'
  BY <1>0, Zenon DEF ElectorInv, TimeInv
<1>4. LeadInv(f)'
  BY <1>0, Zenon DEF ElectorInv, LeadInv
<1>5. ReliableInv(f)'
  BY <1>0, Zenon DEF ElectorInv, ReliableInv
<1>6. WaitInv(f)'
  BY <1>0, Zenon DEF ElectorInv, WaitInv, Soon, Fresh
<1> QED BY <1>1, <1>2, <1>3, <1>4, <1>5, <1>6, Zenon DEF ElectorInv

\* A write over a lapsed lease finds no other elector leading, and makes the others
\* wait again.
LEMMA OthersStore ==
  ASSUME IInv, NEW r \in Records, r.holder \in Electors, Lapsed(r.holder),
         Store(r), now' = now, NEW f \in Electors \ {r.holder}, Same(f)
  PROVE  ElectorInv(f)'
<1>0. LeaderTypeOK /\ ElectorInv(f)
  BY Zenon DEF IInv
<1>1. /\ record'.holder = r.holder /\ current' = {} /\ late' = {} /\ writtenAt' = now
      /\ now \in Nat
  BY <1>0, MarshalFacts, Zenon DEF Store, LeaderTypeOK
<1>2. ~leading[f] /\ pc[f] # "ok"
  <2> SUFFICES ASSUME leading[f] \/ pc[f] = "ok" PROVE FALSE
    OBVIOUS
  <2>1. record.holder = f /\ now + Offset[f] < record.renewTime + LeaseDuration
    BY <1>0, LeaseLasts, Zenon DEF ElectorInv
  <2>2. record.renewTime + LeaseDuration <= now + Offset[f]
    BY <2>1, Zenon DEF Lapsed
  <2>3. /\ Offset[f] \in Nat /\ record.renewTime \in Nat /\ LeaseDuration \in Nat
    BY <1>0, Numbers, Constants, Zenon
  <2> QED BY <1>1, <2>1, <2>2, <2>3
<1> USE DEF Same
<1>3. ReadInv(f)'
  BY <1>0, <1>1, Zenon DEF ElectorInv, ReadInv, Stamped
<1>4. ObservedInv(f)'
  BY <1>0, Zenon DEF ElectorInv, ObservedInv
<1>5. TimeInv(f)'
  BY <1>0, Zenon DEF ElectorInv, TimeInv
<1>6. LeadInv(f)'
  BY <1>1, <1>2, Zenon DEF LeadInv
<1>7. ReliableInv(f)'
  BY <1>0, <1>2, Zenon DEF ElectorInv, ReliableInv
<1>8. WaitInv(f)'
  <2> SUFFICES ASSUME f \notin Flaky PROVE WaitInv(f)'
    BY Zenon DEF WaitInv
  <2>1. /\ Jittered \in Nat /\ MaxCall[f] \in Nat /\ wakeAt[f] \in Nat /\ tryNow[f] \in Nat
        /\ callStart[f] \in Nat
    BY <1>0, Numbers, Constants, Zenon
  <2>2. pc[f] = "idle" => now <= wakeAt[f] /\ wakeAt[f] <= now + Jittered
    BY <1>0, <1>2, Zenon DEF ElectorInv, WaitInv
  <2>3. pc[f] \in Calling => tryNow[f] <= now
    BY <1>0, <1>1, <2>1 DEF ElectorInv, TimeInv
  <2>4. \A t \in Nat : t <= now + Jittered => t <= writtenAt' + Jittered + 2 * MaxCall[f]
    BY <1>1, <2>1
  <2>5. pc[f] = "idle" => Soon(f, wakeAt[f])'
    BY <2>1, <2>2, <2>4, Zenon DEF Soon
  <2>6. pc[f] = "get" => Soon(f, tryNow[f])'
    BY <1>1, <2>1, <2>3, <2>4 DEF Soon, Calling
  <2>7. pc[f] \in {"got", "write", "conflict"} => tryNow[f] <= writtenAt'
    BY <1>1, <2>3, Zenon DEF Calling
  <2> QED BY <1>1, <2>2, <2>5, <2>6, <2>7, Zenon DEF WaitInv
<1> QED BY <1>3, <1>4, <1>5, <1>6, <1>7, <1>8, Zenon DEF ElectorInv

\* What holds of the object and of the late writes, when the object is left alone.
LEMMA LockQuiet ==
  ASSUME IInv, NEW e \in Electors, Quiet(e),
         \A r \in late' \ late :
            /\ r.holder \in Flaky /\ Stamped(r) /\ Lapsed(r.holder)
            /\ exists => r.transitions = record.transitions
                                           + (IF r.holder = record.holder THEN 0 ELSE 1)
  PROVE  LockInv'
BY Zenon DEF IInv, LockInv, Quiet, Stamped, Lapsed

\* And when it is written.
LEMMA LockStore ==
  ASSUME IInv, NEW r \in Records, r.holder \in Electors, Stamped(r), Store(r), now' = now
  PROVE  LockInv'
<1>1. record' = Marshal(r) /\ exists' = TRUE /\ late' = {}
  BY Zenon DEF Store
<1>2. /\ record'.holder = r.holder /\ record'.renewTime <= r.renewTime
      /\ record'.renewTime \in Nat /\ r.renewTime \in Nat
  BY <1>1, MarshalFacts, Zenon DEF Records
<1>3. r.renewTime <= now + Offset[r.holder] /\ now \in Nat /\ Offset[r.holder] \in Nat
  BY Numbers, Zenon DEF Stamped, IInv
<1> QED BY <1>1, <1>2, <1>3 DEF LockInv, Stamped

\* An elector's step is its own.
LEMMA OthersSame ==
  ASSUME LeaderTypeOK, NEW e \in Electors, NEW f \in Electors \ {e},
         Step(e) \/ CallFails(e) \/ Crash(e) \/ Restart(e)
  PROVE  Same(f)
<1> USE DEF LeaderTypeOK
<1>1. ASSUME NEW last \in BOOLEAN, Try(e, last) PROVE Same(f)
  BY <1>1, Zenon DEF Try, Same, observed
<1>2. ASSUME ServerGet(e) PROVE Same(f)
  BY <1>2, Zenon DEF ServerGet, Same, observed, timers
<1>3. ASSUME Write(e), observedRecord'[f] = observedRecord[f], observedTime'[f] = observedTime[f]
      PROVE Same(f)
  BY <1>3, Zenon DEF Write, Same, timers
<1>4. ASSUME Fail(e), observedRecord' \in [Electors -> Records],
             observedRecord'[f] = observedRecord[f], observedTime'[f] = observedTime[f]
      PROVE Same(f)
  BY <1>4, FailFacts DEF Same
<1>5. ASSUME GetNotFound(e) PROVE Same(f)
  BY <1>3, <1>5, Zenon DEF GetNotFound, observed
<1>6. ASSUME GetFree(e) PROVE Same(f)
  BY <1>3, <1>6, ObserveFacts, ZenonT(30) DEF GetFree
<1>7. ASSUME GetHeld(e) PROVE Same(f)
  BY <1>4, <1>7, ObserveFacts, Zenon DEF GetHeld
<1>8. ASSUME ServerWrite(e) PROVE Same(f)
  BY <1>8, Zenon DEF ServerWrite, Same, tryVars, observed, timers
<1>9. ASSUME WriteOk(e) PROVE Same(f)
  BY <1>9, Zenon DEF WriteOk, ObserveOwn, Succeed, EndTry, Same
<1>10. ASSUME WriteConflict(e) PROVE Same(f)
  BY <1>4, <1>10, Zenon DEF WriteConflict, observed
<1>11. ASSUME CallFails(e) PROVE Same(f)
  BY <1>4, <1>11, Zenon DEF CallFails, observed
<1>12. ASSUME Crash(e) PROVE Same(f)
  BY <1>12, Zenon DEF Crash, EndTry, Stop, NewElector, Same
<1>13. ASSUME Restart(e) PROVE Same(f)
  BY <1>13, Zenon DEF Restart, NewElector, Same, tryVars
<1> QED BY <1>1, <1>2, <1>5, <1>6, <1>7, <1>8, <1>9, <1>10, <1>11, <1>12, <1>13, Zenon DEF Step
-----------------------------------------------------------------------------
(* A step's effect on the elector that takes it *)

\* A try that fails.
LEMMA FailKeeps ==
  ASSUME IInv, NEW e \in Electors, pc[e] \in Calling, Fail(e), Quiet(e), current' = current \ {e},
         observedRecord' \in [Electors -> Records], ObservedInv(e)',
         \A r \in late' : r.holder = e /\ leading[e] =>
                            deadline[e] + Offset[e] <= r.renewTime + RenewDeadline,
         e \notin Flaky => /\ ~leading[e]
                           /\ record.holder # e =>
                                \A t \in Nat : t <= now + Jittered => Soon(e, t)'
  PROVE  ElectorInv(e)'
<1>0. LeaderTypeOK /\ ElectorInv(e)
  BY Zenon DEF IInv
<1>1. /\ now \in Nat /\ record.renewTime \in Nat /\ tryNow[e] \in Nat /\ callStart[e] \in Nat
      /\ deadline[e] \in Nat /\ Offset[e] \in Nat /\ MaxCall[e] \in Nat /\ wakeAt[e] \in Nat
      /\ Jittered \in Nat /\ RenewDeadline \in Nat /\ RetryPeriod \in Nat
  BY <1>0, Numbers, Constants, Zenon
<1>2. UNCHANGED <<now, record, exists, writtenAt>>
  BY Zenon DEF Quiet
<1>3. old'[e] = NoObject /\ lastTry'[e] = FALSE
  BY <1>0, FailFacts DEF LeaderTypeOK
<1>4. \/ /\ ~leading[e] /\ ~leading'[e] /\ pc'[e] = "idle" /\ deadline'[e] = deadline[e]
         /\ \E d \in RetryPeriod .. Jittered : wakeAt'[e] = now + d
      \/ leading[e] /\ leading'[e] /\ ~lastTry[e] /\ pc'[e] = "idle" /\ deadline'[e] = deadline[e]
      \/ leading[e] /\ ~leading'[e] /\ pc'[e] = "stopped"
  BY <1>0, FailFacts DEF LeaderTypeOK
<1>5. ReadInv(e)'
  BY <1>3, BlankFacts, Constants, Zenon DEF ReadInv, Stamped
<1>6. TimeInv(e)'
  <2>1. tryNow[e] <= now /\ now <= tryNow[e] + 2 * MaxCall[e]
    BY <1>0, <1>1 DEF ElectorInv, TimeInv
  <2>2. leading[e] => /\ deadline[e] <= tryNow[e] + RenewDeadline
                      /\ ~lastTry[e] => tryNow[e] <= deadline[e]
    BY <1>0, Zenon DEF ElectorInv, TimeInv
  <2> QED BY <1>1, <1>2, <1>4, <2>1, <2>2 DEF TimeInv, Calling
<1>7. LeadInv(e)'
  <2>1. pc'[e] # "ok" /\ (leading'[e] => leading[e] /\ deadline'[e] = deadline[e])
    BY <1>4, Zenon
  <2> QED BY <1>0, <1>2, <2>1, Zenon DEF ElectorInv, LeadInv
<1>8. ReliableInv(e)'
  BY <1>4, Zenon DEF ReliableInv
<1>9. WaitInv(e)'
  <2>1. e \notin Flaky => pc'[e] = "idle" /\ now <= wakeAt'[e] /\ wakeAt'[e] <= now + Jittered
                          /\ wakeAt'[e] \in Nat
    BY <1>1, <1>4
  <2>2. e \notin Flaky /\ record.holder # e => Soon(e, wakeAt[e])'
    BY <2>1, Zenon DEF Soon, Fresh
  <2> QED BY <1>2, <2>1, <2>2, Zenon DEF WaitInv
<1> QED BY <1>5, <1>6, <1>7, <1>8, <1>9, Zenon DEF ElectorInv

\* A try begins.
LEMMA TryKeeps ==
  ASSUME IInv, NEW e \in Electors, NEW last \in BOOLEAN, Try(e, last)
  PROVE  ElectorInv(e)'
<1>0. LeaderTypeOK /\ ElectorInv(e)
  BY Zenon DEF IInv
<1>1. /\ now \in Nat /\ record.renewTime \in Nat /\ wakeAt[e] \in Nat
      /\ deadline[e] \in Nat /\ Offset[e] \in Nat /\ MaxCall[e] \in Nat
  BY <1>0, Numbers, Zenon
<1>2. /\ pc[e] = "idle" /\ pc'[e] = "get" /\ lastTry'[e] = last /\ leading'[e] = leading[e]
      /\ tryNow'[e] = now /\ callStart'[e] = now /\ deadline'[e] = deadline[e]
      /\ old'[e] = old[e] /\ observedRecord' = observedRecord /\ observedTime' = observedTime
      /\ UNCHANGED <<now, record, exists, writtenAt, current, late>>
  BY <1>0, Zenon DEF Try, LeaderTypeOK, lockVars, observed
<1>3. IF last THEN leading[e] /\ now >= deadline[e]
      ELSE now >= wakeAt[e] /\ (leading[e] => now <= deadline[e])
  BY Zenon DEF Try
<1>4. ReadInv(e)'
  BY <1>0, <1>2, Zenon DEF ElectorInv, ReadInv, Stamped, LeaderTypeOK
<1>5. ObservedInv(e)'
  BY <1>0, <1>2, Zenon DEF ElectorInv, ObservedInv
<1>6. TimeInv(e)'
  <2>1. leading[e] => deadline[e] <= now + RenewDeadline /\ now <= deadline[e] + 2 * MaxCall[e]
    BY <1>0, <1>2, Zenon DEF ElectorInv, TimeInv
  <2> QED BY <1>1, <1>2, <1>3, <2>1 DEF TimeInv, Calling
<1>7. LeadInv(e)'
  BY <1>0, <1>2, Zenon DEF ElectorInv, LeadInv
<1>8. ReliableInv(e)'
  BY <1>2, Zenon DEF ReliableInv
<1>9. WaitInv(e)'
  <2> SUFFICES ASSUME e \notin Flaky, record.holder # e PROVE Soon(e, tryNow[e])'
    BY <1>2, Zenon DEF WaitInv
  <2>1. ~leading[e]
    BY <1>0, Zenon DEF ElectorInv, LeadInv
  <2>2. now = wakeAt[e]
    BY <1>0, <1>1, <1>2, <1>3, <2>1 DEF ElectorInv, WaitInv
  <2>3. Soon(e, wakeAt[e])
    BY <1>0, <1>2, Zenon DEF ElectorInv, WaitInv
  <2> QED BY <1>2, <2>2, <2>3, Zenon DEF Soon, Fresh
<1> QED BY <1>4, <1>5, <1>6, <1>7, <1>8, <1>9, Zenon DEF ElectorInv

\* The server reads the object.
LEMMA ServerGetKeeps ==
  ASSUME IInv, NEW e \in Electors, ServerGet(e)
  PROVE  ElectorInv(e)'
<1>0. LeaderTypeOK /\ ElectorInv(e)
  BY Zenon DEF IInv
<1>1. /\ pc[e] = "get" /\ pc'[e] = "got" /\ lastTry' = lastTry /\ leading' = leading
      /\ tryNow' = tryNow /\ callStart' = callStart /\ deadline' = deadline
      /\ old'[e] = [record |-> record, found |-> exists] /\ e \in current'
      /\ observedRecord' = observedRecord /\ observedTime' = observedTime
      /\ UNCHANGED <<now, record, exists, writtenAt, late>>
  BY <1>0, Zenon DEF ServerGet, LeaderTypeOK, observed, timers
<1>2. ReadInv(e)'
  BY <1>1 DEF IInv, LockInv, ReadInv, Stamped
<1>3. ObservedInv(e)'
  BY <1>0, <1>1, Zenon DEF ElectorInv, ObservedInv
<1>4. TimeInv(e)'
  BY <1>0, <1>1, Zenon DEF ElectorInv, TimeInv, Calling
<1>5. LeadInv(e)'
  BY <1>0, <1>1, Zenon DEF ElectorInv, LeadInv
<1>6. ReliableInv(e)'
  BY <1>1, Zenon DEF ReliableInv
<1>7. WaitInv(e)'
  BY <1>0, <1>1, Zenon DEF ElectorInv, WaitInv, Soon, Fresh
<1> QED BY <1>2, <1>3, <1>4, <1>5, <1>6, <1>7, Zenon DEF ElectorInv

\* Get has returned and Create or Update is called.
LEMMA WriteKeeps ==
  ASSUME IInv, NEW e \in Electors, pc[e] = "got", Write(e), ObservedInv(e)',
         e \in current => Lapsed(e)
  PROVE  ElectorInv(e)'
<1>0. LeaderTypeOK /\ ElectorInv(e)
  BY Zenon DEF IInv
<1>1. /\ now \in Nat /\ writtenAt \in Nat /\ tryNow[e] \in Nat /\ observedTime[e] \in Int
      /\ callStart[e] \in Nat /\ MaxCall[e] \in Nat
      /\ LeaseDuration \in Nat /\ Jittered \in Nat
      /\ RenewDeadline \in Nat /\ Second \in Nat \ {0}
      /\ LeaseDuration >= RenewDeadline + 6 * MaxCall[e] + Second
  BY <1>0, Numbers, Constants, Zenon
<1>2. /\ pc'[e] = "write" /\ callStart'[e] = now /\ lastTry' = lastTry /\ leading' = leading
      /\ tryNow' = tryNow /\ old' = old /\ deadline' = deadline
      /\ UNCHANGED <<now, record, exists, writtenAt, current, late>>
  BY <1>0, Zenon DEF Write, LeaderTypeOK, lockVars, timers
<1>3. ReadInv(e)'
  BY <1>0, <1>2, Zenon DEF ElectorInv, ReadInv, Stamped, Lapsed
<1>4. TimeInv(e)'
  <2>1. tryNow[e] <= now /\ now <= tryNow[e] + MaxCall[e]
    BY <1>0, <1>1, Zenon DEF ElectorInv, TimeInv, Calling
  <2>2. pc[e] \in Calling /\ pc'[e] \in Calling
    BY <1>2, Zenon DEF Calling
  <2> QED BY <1>0, <1>1, <1>2, <2>1, <2>2 DEF ElectorInv, TimeInv
<1>5. LeadInv(e)'
  BY <1>0, <1>2, Zenon DEF ElectorInv, LeadInv
<1>6. ReliableInv(e)'
  BY <1>0, <1>2, Zenon DEF ElectorInv, ReliableInv
<1>7. WaitInv(e)'
  <2> SUFFICES ASSUME e \notin Flaky, record.holder # e
               PROVE  /\ e \in current => tryNow[e] <= writtenAt + LeaseDuration - 1 + 2 * Jittered + 4 * MaxCall[e]
                      /\ e \notin current => tryNow[e] <= writtenAt
    BY <1>2, Zenon DEF WaitInv
  <2>1. e \in current => Soon(e, tryNow[e])
    BY <1>0, Zenon DEF ElectorInv, WaitInv
  <2>2. e \notin current => tryNow[e] <= writtenAt
    BY <1>0, Zenon DEF ElectorInv, WaitInv
  <2>3. Soon(e, tryNow[e]) =>
          tryNow[e] <= writtenAt + LeaseDuration - 1 + 2 * Jittered + 4 * MaxCall[e]
    BY <1>1 DEF Soon, Fresh
  <2> QED BY <2>1, <2>2, <2>3, Zenon
<1> QED BY <1>3, <1>4, <1>5, <1>6, <1>7, Zenon DEF ElectorInv

\* What an elector has observed stays in the past.
LEMMA ObserveKeeps ==
  ASSUME IInv, NEW e \in Electors, Observe(e), now' = now
  PROVE  ObservedInv(e)'
<1>0. LeaderTypeOK /\ ElectorInv(e)
  BY Zenon DEF IInv
<1>1. now \in Nat
  BY <1>0, Zenon DEF LeaderTypeOK
<1>2. CASE old[e].record.holder = e /\ observedRecord'[e].holder = e /\ observedTime'[e] = 0
  BY <1>1, <1>2 DEF ObservedInv
<1>3. CASE /\ old[e].record.holder # e /\ observedRecord'[e] = old[e].record
           /\ observedRecord[e] = old[e].record /\ observedTime'[e] = observedTime[e]
  BY <1>0, <1>3, Zenon DEF ElectorInv, ObservedInv
<1>4. CASE /\ old[e].record.holder # e /\ observedRecord'[e] = old[e].record
           /\ observedTime'[e] = now
  BY <1>0, <1>1, <1>4 DEF ElectorInv, ReadInv, Stamped, ObservedInv
<1> QED BY <1>0, <1>2, <1>3, <1>4, ObserveFacts, Zenon

\* Get has returned no object.
LEMMA GetNotFoundKeeps ==
  ASSUME IInv, NEW e \in Electors, GetNotFound(e)
  PROVE  ElectorInv(e)'
<1>1. ObservedInv(e)'
  BY Zenon DEF GetNotFound, Write, observed, IInv, ElectorInv, ObservedInv
<1>2. e \in current => Lapsed(e)
  <2> SUFFICES ASSUME e \in current PROVE Lapsed(e)
    OBVIOUS
  <2>1. old[e].found = exists
    BY DEF IInv, ElectorInv, ReadInv
  <2>2. record = Blank
    BY <2>1, Zenon DEF GetNotFound, IInv, LockInv
  <2> QED BY <2>2, BlankFacts, Constants, Zenon DEF Lapsed
<1> QED BY <1>1, <1>2, WriteKeeps, Zenon DEF GetNotFound

\* Get has returned a record that is the elector's or has lapsed.
LEMMA GetFreeKeeps ==
  ASSUME IInv, NEW e \in Electors, GetFree(e)
  PROVE  ElectorInv(e)'
<1>0. LeaderTypeOK /\ ElectorInv(e)
  BY Zenon DEF IInv
<1>1. ObservedInv(e)'
  BY ObserveKeeps, Zenon DEF GetFree, Write
<1>2. e \in current => Lapsed(e)
  <2> SUFFICES ASSUME e \in current, record.holder \in Electors \ {e}
               PROVE  record.renewTime + LeaseDuration <= now + Offset[record.holder]
    BY Zenon DEF Lapsed
  <2>1. old[e].record = record
    BY <1>0 DEF ElectorInv, ReadInv
  <2>2. observedRecord'[e] = record /\ observedTime'[e] \in Int
    BY <1>0, <2>1, ObserveFacts, Zenon DEF GetFree
  <2>3. record.renewTime <= observedTime'[e] + Offset[record.holder]
    BY <1>1, <2>2, Zenon DEF ObservedInv
  <2>4. ~(observedTime'[e] + LeaseDuration > tryNow[e])
    BY <2>1, Zenon DEF GetFree, HeldByOther
  <2>5. tryNow[e] <= callStart[e] /\ callStart[e] <= now
    BY <1>0, Zenon DEF ElectorInv, TimeInv, GetFree, Calling
  <2>6. /\ now \in Nat /\ tryNow[e] \in Nat /\ callStart[e] \in Nat /\ record.renewTime \in Nat
        /\ LeaseDuration \in Nat /\ Offset[record.holder] \in Nat
    BY <1>0, Numbers, Constants, Zenon
  <2> QED BY <2>2, <2>3, <2>4, <2>5, <2>6
<1> QED BY <1>1, <1>2, WriteKeeps, Zenon DEF GetFree

\* Get has returned another's lease.
LEMMA GetHeldKeeps ==
  ASSUME IInv, NEW e \in Electors, GetHeld(e)
  PROVE  Quiet(e) /\ ElectorInv(e)'
<1>0. LeaderTypeOK /\ ElectorInv(e)
  BY Zenon DEF IInv
<1>1. /\ pc[e] = "got" /\ pc[e] \in Calling /\ Fail(e) /\ current' = current \ {e}
      /\ UNCHANGED <<now, record, exists, writtenAt, late>>
  BY Zenon DEF GetHeld, Calling
<1>2. Quiet(e)
  BY <1>1, Zenon DEF Quiet
<1>3. ObservedInv(e)'
  BY <1>1, ObserveKeeps, Zenon DEF GetHeld
<1>4. observedRecord' \in [Electors -> Records] /\ observedTime'[e] \in Int
  BY <1>0, ObserveFacts, Zenon DEF GetHeld
<1>5. \A r \in late' : r.holder = e /\ leading[e] =>
                         deadline[e] + Offset[e] <= r.renewTime + RenewDeadline
  BY <1>0, <1>1, Zenon DEF ElectorInv, LeadInv
<1>6. /\ old[e].record.holder # e
      /\ observedTime'[e] + LeaseDuration > tryNow[e]
  BY Zenon DEF GetHeld, HeldByOther
<1>7. ASSUME e \notin Flaky PROVE ~leading[e]
  BY <1>0, <1>1, <1>6, <1>7 DEF ElectorInv, ReliableInv, ReadInv, LeadInv
<1>8. ASSUME e \notin Flaky, record.holder # e, NEW t \in Nat, t <= now + Jittered
      PROVE  Soon(e, t)'
  <2>1. /\ now \in Nat /\ tryNow[e] \in Nat /\ callStart[e] \in Nat /\ writtenAt \in Nat
        /\ MaxCall[e] \in Nat /\ LeaseDuration \in Nat /\ Jittered \in Nat
        /\ observedTime[e] \in Int
    BY <1>0, Numbers, Constants, Zenon
  <2>2. now <= tryNow[e] + MaxCall[e]
    BY <1>0, <1>1, <2>1, Zenon DEF ElectorInv, TimeInv
  <2>3. CASE e \notin current
    <3>1. tryNow[e] <= writtenAt
      BY <1>0, <1>1, <1>8, <2>3, Zenon DEF ElectorInv, WaitInv
    <3>2. t <= writtenAt + Jittered + 2 * MaxCall[e]
      BY <1>8, <2>1, <2>2, <3>1
    <3> QED BY <1>1, <3>2, Zenon DEF Soon
  <2>4. CASE e \in current
    <3>1. old[e].record = record /\ observedRecord'[e] = record
      BY <1>0, <1>6, <2>4, ObserveFacts, SMTT(30) DEF ElectorInv, ReadInv, GetHeld
    <3>2. Soon(e, tryNow[e])
      BY <1>0, <1>1, <1>8, <2>4, Zenon DEF ElectorInv, WaitInv
    <3>3. /\ observedRecord[e] = record => observedTime'[e] = observedTime[e]
          /\ observedTime'[e] = observedTime[e] \/ observedTime'[e] = now
      BY <1>0, <1>6, <3>1, ObserveFacts, ZenonT(30) DEF GetHeld
    <3>4. observedTime[e] <= now
      BY <1>0, Zenon DEF ElectorInv, ObservedInv
    <3>5. observedTime'[e] <= writtenAt + Jittered + 3 * MaxCall[e]
      <4>1. CASE tryNow[e] <= writtenAt + Jittered + 2 * MaxCall[e]
        BY <2>1, <2>2, <3>3, <3>4, <4>1
      <4>2. CASE Fresh(e)
        BY <2>1, <3>3, <4>2, Zenon DEF Fresh
      <4> QED BY <3>2, <4>1, <4>2, Zenon DEF Soon
    <3>6. t <= observedTime'[e] + LeaseDuration - 1 + MaxCall[e] + Jittered
      BY <1>4, <1>6, <1>8, <2>1, <2>2
    <3>7. Fresh(e)'
      BY <1>1, <3>1, <3>5, Zenon DEF Fresh
    <3> QED BY <3>6, <3>7, Zenon DEF Soon
  <2> QED BY <2>3, <2>4, Zenon
<1> QED BY <1>1, <1>2, <1>3, <1>4, <1>5, <1>7, <1>8, FailKeeps, Zenon

\* The server handles a write that it refuses.
LEMMA RefusedKeeps ==
  ASSUME IInv, NEW e \in Electors, ServerWrite(e), e \notin current
  PROVE  Quiet(e) /\ ElectorInv(e)'
<1>0. LeaderTypeOK /\ ElectorInv(e)
  BY Zenon DEF IInv
<1>1. /\ pc[e] = "write" /\ pc'[e] = "conflict" /\ leading' = leading /\ lastTry' = lastTry
      /\ tryNow' = tryNow /\ old' = old /\ callStart' = callStart /\ deadline' = deadline
      /\ observedRecord' = observedRecord /\ observedTime' = observedTime
      /\ UNCHANGED <<now, record, exists, writtenAt, current, late>>
  BY <1>0, Zenon DEF ServerWrite, LeaderTypeOK, lockVars, tryVars, observed, timers
<1>2. Quiet(e)
  BY <1>1, Zenon DEF Quiet
<1>3. ReadInv(e)' /\ ObservedInv(e)'
  BY <1>0, <1>1, Zenon DEF ElectorInv, ReadInv, ObservedInv, Stamped
<1>4. TimeInv(e)'
  BY <1>0, <1>1, Zenon DEF ElectorInv, TimeInv, Calling
<1>5. LeadInv(e)'
  BY <1>0, <1>1, Zenon DEF ElectorInv, LeadInv
<1>6. ReliableInv(e)'
  BY <1>0, <1>1, Zenon DEF ElectorInv, ReliableInv
<1>7. WaitInv(e)'
  BY <1>0, <1>1, Zenon DEF ElectorInv, WaitInv
<1> QED BY <1>2, <1>3, <1>4, <1>5, <1>6, <1>7, Zenon DEF ElectorInv

\* And one that it takes.
LEMMA StoredKeeps ==
  ASSUME IInv, NEW e \in Electors, ServerWrite(e), e \in current
  PROVE  ElectorInv(e)'
<1>0. LeaderTypeOK /\ ElectorInv(e)
  BY Zenon DEF IInv
<1>1. /\ pc[e] = "write" /\ pc'[e] = "ok" /\ leading' = leading /\ lastTry' = lastTry
      /\ tryNow' = tryNow /\ old' = old /\ callStart' = callStart /\ deadline' = deadline
      /\ observedRecord' = observedRecord /\ observedTime' = observedTime
      /\ now' = now /\ Store(NewRecord(e))
  BY <1>0, Zenon DEF ServerWrite, LeaderTypeOK, tryVars, observed, timers
<1>2. current' = {} /\ late' = {} /\ record' = Marshal(NewRecord(e))
  BY <1>1, Zenon DEF Store
<1>3. /\ NewRecord(e) \in Records /\ NewRecord(e).holder = e
      /\ NewRecord(e).renewTime = tryNow[e] + Offset[e]
  BY <1>0, NewRecordFacts, Zenon
<1>4. /\ record'.holder = e /\ tryNow[e] + Offset[e] <= record'.renewTime + Second - 1
      /\ record'.renewTime \in Nat
  BY <1>2, <1>3, MarshalFacts, Zenon DEF Records
<1>5. /\ tryNow[e] \in Nat /\ deadline[e] \in Nat /\ Offset[e] \in Nat /\ MaxCall[e] \in Nat
      /\ RenewDeadline \in Nat /\ Second \in Nat
  BY <1>0, Numbers, Constants, Zenon
<1>6. ReadInv(e)' /\ ObservedInv(e)'
  BY <1>0, <1>1, <1>2, Zenon DEF ElectorInv, ReadInv, ObservedInv, Stamped
<1>7. TimeInv(e)'
  BY <1>0, <1>1, Zenon DEF ElectorInv, TimeInv, Calling
<1>8. LeadInv(e)'
  <2>1. leading[e] => deadline[e] <= tryNow[e] + RenewDeadline
    BY <1>0, <1>1, Zenon DEF ElectorInv, TimeInv, Calling
  <2>2. leading[e] => deadline[e] + Offset[e]
                        <= record'.renewTime + Second - 1 + 2 * MaxCall[e] + RenewDeadline
    BY <1>4, <1>5, <2>1
  <2> QED BY <1>1, <1>2, <1>4, <2>2, Zenon DEF LeadInv
<1>9. ReliableInv(e)'
  BY <1>1, Zenon DEF ReliableInv
<1>10. WaitInv(e)'
  BY <1>1, <1>4, Zenon DEF WaitInv
<1> QED BY <1>6, <1>7, <1>8, <1>9, <1>10, Zenon DEF ElectorInv

\* Create or Update has succeeded.
LEMMA WriteOkKeeps ==
  ASSUME IInv, NEW e \in Electors, WriteOk(e)
  PROVE  Quiet(e) /\ ElectorInv(e)'
<1>0. LeaderTypeOK /\ ElectorInv(e)
  BY Zenon DEF IInv
<1>1. /\ pc[e] = "ok" /\ pc'[e] = "idle" /\ leading'[e] = TRUE
      /\ deadline'[e] = now + RenewDeadline /\ old'[e] = NoObject
      /\ observedRecord'[e] = RecordOf(e) /\ observedTime'[e] = 0
      /\ UNCHANGED <<now, record, exists, writtenAt, current, late>>
  BY <1>0, Zenon DEF WriteOk, Succeed, EndTry, ObserveOwn, LeaderTypeOK, lockVars
<1>2. Quiet(e)
  BY <1>1, Zenon DEF Quiet
<1>3. e \notin current
  BY <1>0, <1>1, Zenon DEF LeaderTypeOK
<1>4. /\ now \in Nat /\ tryNow[e] \in Nat /\ callStart[e] \in Nat /\ record.renewTime \in Nat
      /\ Offset[e] \in Nat /\ MaxCall[e] \in Nat /\ RenewDeadline \in Nat /\ Second \in Nat
  BY <1>0, Numbers, Constants, Zenon
<1>5. ReadInv(e)'
  BY <1>1, <1>3, BlankFacts, Constants, Zenon DEF ReadInv, Stamped
<1>6. ObservedInv(e)'
  BY <1>1, <1>4, BlankFacts DEF ObservedInv
<1>7. TimeInv(e)'
  BY <1>1, <1>4 DEF TimeInv, Calling
<1>8. LeadInv(e)'
  <2>1. now <= tryNow[e] + 2 * MaxCall[e]
    BY <1>0, <1>1, <1>4 DEF ElectorInv, TimeInv, Calling
  <2>2. /\ record.holder = e /\ tryNow[e] + Offset[e] <= record.renewTime + Second - 1
        /\ \A r \in late : r.holder # e
    BY <1>0, <1>1, Zenon DEF ElectorInv, LeadInv
  <2>3. now + RenewDeadline + Offset[e]
          <= record.renewTime + Second - 1 + 2 * MaxCall[e] + RenewDeadline
    BY <1>4, <2>1, <2>2
  <2> QED BY <1>1, <2>2, <2>3, Zenon DEF LeadInv
<1>9. ReliableInv(e)'
  BY <1>1, Zenon DEF ReliableInv
<1>10. WaitInv(e)'
  BY <1>0, <1>1, Zenon DEF ElectorInv, LeadInv, WaitInv
<1> QED BY <1>2, <1>5, <1>6, <1>7, <1>8, <1>9, <1>10, Zenon DEF ElectorInv

\* Create or Update has been refused.
LEMMA WriteConflictKeeps ==
  ASSUME IInv, NEW e \in Electors, WriteConflict(e)
  PROVE  Quiet(e) /\ ElectorInv(e)'
<1>0. LeaderTypeOK /\ ElectorInv(e)
  BY Zenon DEF IInv
<1>1. /\ pc[e] = "conflict" /\ pc[e] \in Calling /\ Fail(e)
      /\ UNCHANGED <<now, record, exists, writtenAt, current, late>>
      /\ observedRecord' = observedRecord /\ observedTime' = observedTime
  BY Zenon DEF WriteConflict, lockVars, observed, Calling
<1>2. Quiet(e)
  BY <1>1, Zenon DEF Quiet
<1>3. current' = current \ {e} /\ observedRecord' \in [Electors -> Records]
  BY <1>0, <1>1, Zenon DEF LeaderTypeOK
<1>4. ObservedInv(e)'
  BY <1>0, <1>1, Zenon DEF ElectorInv, ObservedInv
<1>5. \A r \in late' : r.holder = e /\ leading[e] =>
                         deadline[e] + Offset[e] <= r.renewTime + RenewDeadline
  BY <1>0, <1>1, Zenon DEF ElectorInv, LeadInv
<1>6. e \notin Flaky => ~leading[e]
  BY <1>0, <1>1, Zenon DEF ElectorInv, ReliableInv
<1>7. ASSUME e \notin Flaky, record.holder # e, NEW t \in Nat, t <= now + Jittered
      PROVE  Soon(e, t)'
  <2>1. /\ now \in Nat /\ tryNow[e] \in Nat /\ callStart[e] \in Nat /\ writtenAt \in Nat
        /\ MaxCall[e] \in Nat /\ Jittered \in Nat
    BY <1>0, Numbers, Constants, Zenon
  <2>2. now <= tryNow[e] + 2 * MaxCall[e]
    BY <1>0, <1>1, <2>1 DEF ElectorInv, TimeInv
  <2>3. tryNow[e] <= writtenAt
    BY <1>0, <1>1, <1>7, Zenon DEF ElectorInv, WaitInv
  <2>4. t <= writtenAt + Jittered + 2 * MaxCall[e]
    BY <1>7, <2>1, <2>2, <2>3
  <2> QED BY <1>1, <2>4, Zenon DEF Soon
<1> QED BY <1>1, <1>2, <1>3, <1>4, <1>5, <1>6, <1>7, FailKeeps, Zenon

\* A write that is given up may be late, and then is one that the lease allows.
LEMMA AbandonKeeps ==
  ASSUME IInv, NEW e \in Flaky, Abandon(e)
  PROVE  /\ Quiet(e) /\ LockInv' /\ current' = current \ {e}
         /\ \A r \in late' : r.holder = e /\ leading[e] /\ pc[e] \in Calling =>
              deadline[e] + Offset[e] <= r.renewTime + RenewDeadline
<1>0. e \in Electors /\ LeaderTypeOK /\ ElectorInv(e)
  BY Constants, Zenon DEF IInv
<1>1. /\ current' = current \ {e} /\ UNCHANGED <<now, record, exists, writtenAt>>
      /\ late' = late \/ (pc[e] = "write" /\ e \in current /\ late' = late \cup {NewRecord(e)})
  BY Zenon DEF Abandon
<1>2. /\ NewRecord(e).holder = e /\ NewRecord(e).renewTime = tryNow[e] + Offset[e]
      /\ NewRecord(e).transitions
           = old[e].record.transitions
               + (IF old[e].found /\ old[e].record.holder # e THEN 1 ELSE 0)
  BY <1>0, NewRecordFacts, Zenon
<1>3. Quiet(e)
  BY <1>1, <1>2, Zenon DEF Quiet
<1>4. /\ now \in Nat /\ tryNow[e] \in Nat /\ callStart[e] \in Nat /\ deadline[e] \in Nat
      /\ Offset[e] \in Nat /\ RenewDeadline \in Nat
  BY <1>0, Numbers, Constants, Zenon
<1>5. pc[e] \in Calling => tryNow[e] <= now
  BY <1>0, <1>4 DEF ElectorInv, TimeInv
<1>6. ASSUME pc[e] = "write", e \in current
      PROVE  /\ Stamped(NewRecord(e)) /\ Lapsed(NewRecord(e).holder)
             /\ exists => NewRecord(e).transitions
                            = record.transitions
                                + (IF NewRecord(e).holder = record.holder THEN 0 ELSE 1)
  <2>1. Stamped(NewRecord(e))
    BY <1>2, <1>4, <1>5, <1>6 DEF Stamped, Calling
  <2>2. Lapsed(NewRecord(e).holder)
    BY <1>0, <1>2, <1>6, Zenon DEF ElectorInv, ReadInv
  <2>3. old[e].record = record /\ old[e].found = exists
    BY <1>0, <1>6 DEF ElectorInv, ReadInv
  <2> QED BY <1>2, <2>1, <2>2, <2>3, Zenon
<1>7. LockInv'
  <2>1. \A r \in late' \ late : pc[e] = "write" /\ e \in current /\ r = NewRecord(e)
    BY <1>1, Zenon
  <2> QED BY <1>0, <1>2, <1>3, <1>6, <2>1, LockQuiet, Zenon
<1>8. ASSUME NEW r \in late', r.holder = e, leading[e], pc[e] \in Calling
      PROVE  deadline[e] + Offset[e] <= r.renewTime + RenewDeadline
  <2>1. CASE r \in late
    BY <1>0, <1>8, <2>1, Zenon DEF ElectorInv, LeadInv
  <2>2. CASE r = NewRecord(e)
    <3>1. deadline[e] <= tryNow[e] + RenewDeadline
      BY <1>0, <1>8, Zenon DEF ElectorInv, TimeInv
    <3> QED BY <1>2, <1>4, <2>2, <3>1
  <2> QED BY <1>1, <2>1, <2>2, Zenon
<1> QED BY <1>1, <1>3, <1>7, <1>8, Zenon

\* A call fails.
LEMMA CallFailsKeeps ==
  ASSUME IInv, NEW e \in Electors, CallFails(e)
  PROVE  Quiet(e) /\ LockInv' /\ ElectorInv(e)'
<1>0. LeaderTypeOK /\ ElectorInv(e)
  BY Zenon DEF IInv
<1>1. /\ e \in Flaky /\ pc[e] \in Calling /\ Abandon(e) /\ Fail(e)
      /\ observedRecord' = observedRecord /\ observedTime' = observedTime
  BY Zenon DEF CallFails, observed
<1>2. /\ Quiet(e) /\ LockInv' /\ current' = current \ {e}
      /\ \A r \in late' : r.holder = e /\ leading[e] =>
                            deadline[e] + Offset[e] <= r.renewTime + RenewDeadline
  BY <1>1, AbandonKeeps, Zenon
<1>3. observedRecord' \in [Electors -> Records]
  BY <1>0, <1>1, Zenon DEF LeaderTypeOK
<1>4. ObservedInv(e)'
  BY <1>0, <1>1, <1>2, Zenon DEF ElectorInv, ObservedInv, Quiet
<1> QED BY <1>1, <1>2, <1>3, <1>4, FailKeeps, Zenon

\* An elector that does not run.
LEMMA NotRunning ==
  ASSUME NEW e \in Flaky, ~leading'[e], pc'[e] \in {"idle", "stopped"}, e \notin current',
         Stamped(old[e].record)', ObservedInv(e)'
  PROVE  ElectorInv(e)'
BY Zenon DEF ElectorInv, ReadInv, TimeInv, LeadInv, ReliableInv, WaitInv, Calling

\* What a new elector has observed.
LEMMA NewElectorKeeps ==
  ASSUME LeaderTypeOK, NEW e \in Electors, NewElector(e), now' = now
  PROVE  ObservedInv(e)'
<1>1. observedRecord'[e] = Blank /\ observedTime'[e] = -LeaseDuration
  BY Zenon DEF NewElector, LeaderTypeOK
<1>2. now \in Nat /\ LeaseDuration \in Nat
  BY Constants, Zenon DEF LeaderTypeOK
<1> QED BY <1>1, <1>2, BlankFacts, Constants DEF ObservedInv

\* A process is gone.
LEMMA CrashKeeps ==
  ASSUME IInv, NEW e \in Electors, Crash(e)
  PROVE  Quiet(e) /\ LockInv' /\ ElectorInv(e)'
<1>0. LeaderTypeOK
  BY Zenon DEF IInv
<1>1. /\ e \in Flaky /\ Abandon(e) /\ pc'[e] = "stopped" /\ leading'[e] = FALSE
      /\ old'[e] = NoObject /\ NewElector(e)
  BY <1>0, Zenon DEF Crash, EndTry, Stop, LeaderTypeOK
<1>2. Quiet(e) /\ LockInv' /\ e \notin current' /\ now' = now
  BY <1>1, AbandonKeeps, Zenon DEF Quiet
<1>3. ObservedInv(e)'
  BY <1>0, <1>1, <1>2, NewElectorKeeps, Zenon
<1>4. Stamped(old[e].record)'
  BY <1>1, BlankFacts, Constants, Zenon DEF Stamped
<1> QED BY <1>1, <1>2, <1>3, <1>4, NotRunning, Zenon

\* And comes back.
LEMMA RestartKeeps ==
  ASSUME IInv, NEW e \in Electors, Restart(e)
  PROVE  Quiet(e) /\ ElectorInv(e)'
<1>0. LeaderTypeOK /\ ElectorInv(e)
  BY Zenon DEF IInv
<1>1. /\ pc[e] = "stopped" /\ pc'[e] = "idle" /\ NewElector(e)
      /\ UNCHANGED <<now, record, exists, current, writtenAt, late, leading, old>>
  BY <1>0, Zenon DEF Restart, LeaderTypeOK, lockVars, tryVars
<1>2. e \in Flaky /\ ~leading[e] /\ e \notin current
  BY <1>0, <1>1, Zenon DEF ElectorInv, ReliableInv, LeaderTypeOK
<1>3. ObservedInv(e)'
  BY <1>0, <1>1, NewElectorKeeps, Zenon
<1>4. Stamped(old[e].record)'
  BY <1>0, <1>1, Zenon DEF ElectorInv, ReadInv, Stamped
<1> QED BY <1>1, <1>2, <1>3, <1>4, NotRunning, Zenon DEF Quiet

\* A late write arrives.
LEMMA LateWriteKeeps ==
  ASSUME IInv, NEW r \in late, LateWrite(r)
  PROVE  LockInv' /\ \A f \in Electors : ElectorInv(f)'
<1>0. /\ LeaderTypeOK /\ r \in Records /\ r.holder \in Flaky /\ r.holder \in Electors
      /\ Stamped(r) /\ Lapsed(r.holder)
  BY Constants, Zenon DEF IInv, LockInv, LeaderTypeOK
<1>1. /\ Store(r) /\ now' = now
      /\ pc' = pc /\ leading' = leading /\ tryNow' = tryNow /\ old' = old /\ lastTry' = lastTry
      /\ callStart' = callStart /\ wakeAt' = wakeAt /\ deadline' = deadline
      /\ observedRecord' = observedRecord /\ observedTime' = observedTime
  BY Zenon DEF LateWrite, tryVars, observed, timers
<1>2. LockInv'
  BY <1>0, <1>1, LockStore, Zenon
<1>3. ASSUME NEW f \in Electors \ {r.holder} PROVE ElectorInv(f)'
  <2>1. Same(f)
    BY <1>1, Zenon DEF Same
  <2> QED BY <1>0, <1>1, <2>1, OthersStore, Zenon
<1>4. ASSUME NEW e \in Electors, e = r.holder PROVE ElectorInv(e)'
  <2>0. ElectorInv(e)
    BY Zenon DEF IInv
  <2>1. current' = {} /\ late' = {} /\ record' = Marshal(r)
    BY <1>1, Zenon DEF Store
  <2>2. /\ record'.holder = e /\ r.renewTime <= record'.renewTime + Second - 1
        /\ record'.renewTime \in Nat /\ r.renewTime \in Nat
    BY <1>0, <1>4, <2>1, MarshalFacts, Zenon DEF Records
  <2>3. ReadInv(e)' /\ ObservedInv(e)'
    BY <1>1, <2>0, <2>1, Zenon DEF ElectorInv, ReadInv, ObservedInv, Stamped
  <2>4. TimeInv(e)'
    BY <1>1, <2>0, Zenon DEF ElectorInv, TimeInv
  <2>5. LeadInv(e)'
    <3>1. /\ pc[e] # "ok"
          /\ leading[e] => deadline[e] + Offset[e] <= r.renewTime + RenewDeadline
      BY <1>4, <2>0, Zenon DEF ElectorInv, LeadInv
    <3>2. /\ deadline[e] \in Nat /\ Offset[e] \in Nat /\ MaxCall[e] \in Nat
          /\ RenewDeadline \in Nat /\ Second \in Nat
      BY <1>0, Numbers, Constants, Zenon
    <3>3. leading[e] => deadline[e] + Offset[e]
                          <= record'.renewTime + Second - 1 + 2 * MaxCall[e] + RenewDeadline
      BY <2>2, <3>1, <3>2
    <3> QED BY <1>1, <2>1, <2>2, <3>1, <3>3, Zenon DEF LeadInv
  <2>6. ReliableInv(e)' /\ WaitInv(e)'
    BY <1>0, <1>4, Zenon DEF ReliableInv, WaitInv
  <2> QED BY <2>3, <2>4, <2>5, <2>6, Zenon DEF ElectorInv
<1> QED BY <1>2, <1>3, <1>4, Zenon

\* Time passes.
LEMMA TickKeeps ==
  ASSUME IInv, Tick
  PROVE  LockInv' /\ \A e \in Electors : ElectorInv(e)'
<1>0. LeaderTypeOK /\ now \in Nat
  BY Zenon DEF IInv, LeaderTypeOK
<1>1. /\ now' = now + 1 /\ \A e \in Electors : ~Due(e)
      /\ record' = record /\ exists' = exists /\ current' = current /\ late' = late
      /\ writtenAt' = writtenAt
      /\ pc' = pc /\ leading' = leading /\ tryNow' = tryNow /\ old' = old /\ lastTry' = lastTry
      /\ callStart' = callStart /\ wakeAt' = wakeAt /\ deadline' = deadline
      /\ observedRecord' = observedRecord /\ observedTime' = observedTime
  BY Zenon DEF Tick, lockVars, tryVars, observed, timers
<1>2. ASSUME NEW r \in Records, Stamped(r) PROVE Stamped(r)'
  <2>1. r.renewTime \in Nat /\ (r.holder \in Electors => Offset[r.holder] \in Nat)
    BY Constants, Zenon DEF Records
  <2> QED BY <1>0, <1>1, <1>2, <2>1 DEF Stamped
<1>3. ASSUME NEW b, Lapsed(b) PROVE Lapsed(b)'
  <2>1. /\ record.renewTime \in Nat /\ LeaseDuration \in Nat
        /\ (record.holder \in Electors => Offset[record.holder] \in Nat)
    BY <1>0, Constants, Zenon DEF LeaderTypeOK, Records
  <2> QED BY <1>0, <1>1, <1>3, <2>1 DEF Lapsed
<1>4. LockInv'
  <2>1. /\ Stamped(record) /\ (~exists => record = Blank) /\ record \in Records
        /\ late \subseteq Records
        /\ \A r \in late : /\ r.holder \in Flaky /\ Stamped(r) /\ Lapsed(r.holder)
                           /\ exists => r.transitions = record.transitions
                                          + (IF r.holder = record.holder THEN 0 ELSE 1)
    BY <1>0, Zenon DEF IInv, LockInv, LeaderTypeOK
  <2>2. Stamped(record)'
    BY <1>1, <1>2, <2>1, Zenon DEF Stamped
  <2>3. ASSUME NEW r \in late PROVE Stamped(r)' /\ Lapsed(r.holder)'
    BY <1>2, <1>3, <2>1, <2>3, Zenon
  <2> QED BY <1>1, <2>1, <2>2, <2>3, Zenon DEF LockInv
<1>5. ASSUME NEW e \in Electors PROVE ElectorInv(e)'
  <2>0. ElectorInv(e) /\ ~Due(e)
    BY <1>1, Zenon DEF IInv
  <2>1. /\ tryNow[e] \in Nat /\ callStart[e] \in Nat /\ deadline[e] \in Nat /\ wakeAt[e] \in Nat
        /\ observedTime[e] \in Int /\ old[e].record \in Records
        /\ MaxCall[e] \in Nat /\ RenewDeadline \in Nat /\ Jittered \in Nat
    BY <1>0, Numbers, Constants, Zenon
  <2>2. ReadInv(e)'
    <3>1. Stamped(old[e].record)'
      BY <1>1, <1>2, <2>0, <2>1, Zenon DEF ElectorInv, ReadInv, Stamped
    <3>2. Lapsed(e) => Lapsed(e)'
      BY <1>3, Zenon
    <3> QED BY <1>1, <2>0, <3>1, <3>2, Zenon DEF ElectorInv, ReadInv
  <2>3. ObservedInv(e)'
    BY <1>0, <1>1, <2>0, <2>1, SMTT(30) DEF ElectorInv, ObservedInv
  <2>4. TimeInv(e)'
    <3>1. pc[e] \in Calling => now < callStart[e] + MaxCall[e]
      BY <1>0, <2>0, <2>1 DEF Due
    <3>2. leading[e] /\ pc[e] = "idle" => now < deadline[e]
      BY <1>0, <2>0, <2>1 DEF Due
    <3> QED BY <1>0, <1>1, <2>0, <2>1, <3>1, <3>2, SMTT(30) DEF ElectorInv, TimeInv
  <2>5. LeadInv(e)'
    BY <1>1, <2>0, Zenon DEF ElectorInv, LeadInv
  <2>6. ReliableInv(e)'
    BY <1>1, <2>0, Zenon DEF ElectorInv, ReliableInv
  <2>7. WaitInv(e)'
    <3>1. pc[e] = "idle" => now < wakeAt[e]
      BY <1>0, <2>0, <2>1 DEF Due
    <3>2. pc[e] = "idle" /\ ~leading[e] /\ e \notin Flaky =>
            now' <= wakeAt[e] /\ wakeAt[e] <= now' + Jittered
      BY <1>0, <1>1, <2>0, <2>1, <3>1 DEF ElectorInv, WaitInv
    <3>3. \A t \in Nat : Soon(e, t) => Soon(e, t)'
      BY <1>1, Zenon DEF Soon, Fresh
    <3> QED BY <1>1, <2>0, <2>1, <3>2, <3>3, Zenon DEF ElectorInv, WaitInv, Soon, Fresh
  <2> QED BY <2>2, <2>3, <2>4, <2>5, <2>6, <2>7, Zenon DEF ElectorInv
<1> QED BY <1>4, <1>5, Zenon
-----------------------------------------------------------------------------
(* The theorems *)

\* The invariant holds at first.
LEMMA InvInit == Init => IInv
<1> SUFFICES ASSUME Init PROVE IInv
  OBVIOUS
<1>1. LeaderTypeOK
  BY Constants, BlankFacts DEF Init, LeaderTypeOK, Calling
<1>2. LockInv
  BY Constants, BlankFacts, Zenon DEF Init, LockInv, Stamped
<1>3. ASSUME NEW e \in Electors PROVE ElectorInv(e)
  <2>1. /\ now = 0 /\ writtenAt = 0 /\ current = {} /\ late = {} /\ record = Blank
        /\ pc[e] = "idle" /\ leading[e] = FALSE /\ wakeAt[e] = 0 /\ tryNow[e] = 0
        /\ old[e] = NoObject /\ observedRecord[e] = Blank /\ observedTime[e] = -LeaseDuration
    BY Zenon DEF Init
  <2>2. Jittered \in Nat /\ MaxCall[e] \in Nat /\ LeaseDuration \in Nat
    BY Constants, Zenon
  <2>3. ReadInv(e) /\ ObservedInv(e)
    BY <2>1, <2>2, Constants, BlankFacts DEF ReadInv, ObservedInv, Stamped
  <2>4. TimeInv(e) /\ LeadInv(e) /\ ReliableInv(e)
    BY <2>1, Zenon DEF TimeInv, LeadInv, ReliableInv, Calling
  <2>5. WaitInv(e)
    BY <2>1, <2>2 DEF WaitInv, Soon
  <2> QED BY <2>3, <2>4, <2>5, Zenon DEF ElectorInv
<1> QED BY <1>1, <1>2, <1>3, Zenon DEF IInv

\* What a step of one elector that leaves the object alone has to show.
LEMMA QuietStep ==
  ASSUME IInv, NEW e \in Electors, Step(e) \/ CallFails(e) \/ Crash(e) \/ Restart(e),
         LeaderTypeOK', Quiet(e), ElectorInv(e)', late' = late \/ LockInv'
  PROVE  IInv'
<1>1. LockInv'
  <2>1. CASE late' = late
    BY <2>1, LockQuiet, Zenon
  <2> QED BY <2>1, Zenon
<1>2. ASSUME NEW f \in Electors \ {e} PROVE ElectorInv(f)'
  <2>1. Same(f)
    BY OthersSame, Zenon DEF IInv
  <2> QED BY <2>1, OthersQuiet, Zenon
<1> QED BY <1>1, <1>2, Zenon DEF IInv

\* And every step keeps it.
LEMMA InvNext == IInv /\ [Next]_vars => IInv'
<1> SUFFICES ASSUME IInv, [Next]_vars PROVE IInv'
  OBVIOUS
<1>0. LeaderTypeOK /\ LeaderTypeOK'
  BY TypeNext, Zenon DEF IInv
<1>1. CASE Tick
  BY <1>0, <1>1, TickKeeps, Zenon DEF IInv
<1>2. ASSUME NEW e \in Electors, NEW last \in BOOLEAN, Try(e, last) PROVE IInv'
  <2>1. Quiet(e) /\ late' = late
    BY <1>2, Zenon DEF Try, lockVars, Quiet
  <2>2. ElectorInv(e)'
    BY <1>2, TryKeeps, Zenon
  <2>3. Step(e)
    BY <1>2, Zenon DEF Step
  <2> QED BY <1>0, <2>1, <2>2, <2>3, QuietStep, Zenon
<1>3. ASSUME NEW e \in Electors, ServerGet(e) PROVE IInv'
  <2>1. Quiet(e) /\ late' = late
    BY <1>3, Zenon DEF ServerGet, Quiet
  <2> QED BY <1>0, <1>3, <2>1, ServerGetKeeps, QuietStep, Zenon DEF Step
<1>4. ASSUME NEW e \in Electors, GetNotFound(e) \/ GetFree(e) PROVE IInv'
  <2>1. Quiet(e) /\ late' = late
    BY <1>4, Zenon DEF GetNotFound, GetFree, Write, lockVars, Quiet
  <2>2. ElectorInv(e)'
    BY <1>4, GetNotFoundKeeps, GetFreeKeeps, Zenon
  <2>3. Step(e)
    BY <1>4, Zenon DEF Step
  <2> QED BY <1>0, <2>1, <2>2, <2>3, QuietStep, Zenon
<1>5. ASSUME NEW e \in Electors, GetHeld(e) PROVE IInv'
  <2>1. late' = late /\ Step(e)
    BY <1>5, Zenon DEF GetHeld, Step
  <2> QED BY <1>0, <1>5, <2>1, GetHeldKeeps, QuietStep, Zenon
<1>6. ASSUME NEW e \in Electors, ServerWrite(e), e \notin current PROVE IInv'
  <2>1. late' = late /\ Step(e)
    BY <1>6, Zenon DEF ServerWrite, lockVars, Step
  <2> QED BY <1>0, <1>6, <2>1, RefusedKeeps, QuietStep, Zenon
<1>7. ASSUME NEW e \in Electors, ServerWrite(e), e \in current PROVE IInv'
  <2>1. /\ NewRecord(e) \in Records /\ NewRecord(e).holder = e
        /\ NewRecord(e).renewTime = tryNow[e] + Offset[e]
    BY <1>0, NewRecordFacts, Zenon
  <2>2. Store(NewRecord(e)) /\ now' = now /\ pc[e] = "write" /\ Step(e)
    BY <1>7, Zenon DEF ServerWrite, Step
  <2>3. Stamped(NewRecord(e))
    <3>1. /\ now \in Nat /\ tryNow[e] \in Nat /\ callStart[e] \in Nat /\ Offset[e] \in Nat
      BY <1>0, Numbers, Zenon
    <3>2. tryNow[e] <= now
      BY <2>2, <3>1, SMTT(30) DEF IInv, ElectorInv, TimeInv, Calling
    <3> QED BY <2>1, <3>1, <3>2 DEF Stamped
  <2>4. Lapsed(e)
    BY <1>7, <2>2, Zenon DEF IInv, ElectorInv, ReadInv
  <2>5. LockInv'
    BY <2>1, <2>2, <2>3, LockStore, Zenon
  <2>6. ASSUME NEW f \in Electors \ {e} PROVE ElectorInv(f)'
    <3>1. Same(f)
      BY <1>0, <2>2, OthersSame, Zenon
    <3>2. f \in Electors \ {NewRecord(e).holder} /\ Lapsed(NewRecord(e).holder)
      BY <2>1, <2>4, Zenon
    <3> QED BY <2>1, <2>2, <3>1, <3>2, OthersStore, Zenon
  <2>7. ElectorInv(e)'
    BY <1>7, StoredKeeps, Zenon
  <2> QED BY <1>0, <2>5, <2>6, <2>7, Zenon DEF IInv
<1>8. ASSUME NEW e \in Electors, WriteOk(e) PROVE IInv'
  <2>1. late' = late /\ Step(e)
    BY <1>8, Zenon DEF WriteOk, lockVars, Step
  <2> QED BY <1>0, <1>8, <2>1, WriteOkKeeps, QuietStep, Zenon
<1>9. ASSUME NEW e \in Electors, WriteConflict(e) PROVE IInv'
  <2>1. late' = late /\ Step(e)
    BY <1>9, Zenon DEF WriteConflict, lockVars, Step
  <2> QED BY <1>0, <1>9, <2>1, WriteConflictKeeps, QuietStep, Zenon
<1>10. ASSUME NEW e \in Electors, CallFails(e) PROVE IInv'
  BY <1>0, <1>10, CallFailsKeeps, QuietStep, Zenon
<1>11. ASSUME NEW e \in Electors, Crash(e) PROVE IInv'
  BY <1>0, <1>11, CrashKeeps, QuietStep, Zenon
<1>12. ASSUME NEW e \in Electors, Restart(e) PROVE IInv'
  <2>1. late' = late
    BY <1>12, Zenon DEF Restart, lockVars
  <2> QED BY <1>0, <1>12, <2>1, RestartKeeps, QuietStep, Zenon
<1>13. ASSUME NEW r \in late, LateWrite(r) PROVE IInv'
  BY <1>0, <1>13, LateWriteKeeps, Zenon DEF IInv
<1>14. CASE UNCHANGED vars
  <2>1. LockInv'
    BY <1>14, Zenon DEF vars, lockVars, IInv, LockInv, Stamped, Lapsed
  <2>2. ASSUME NEW e \in Electors PROVE ElectorInv(e)'
    BY <1>14, Zenon DEF vars, lockVars, tryVars, observed, timers, IInv, ElectorInv, ReadInv, ObservedInv,
         TimeInv, LeadInv, ReliableInv, WaitInv, Soon, Fresh, Stamped, Lapsed
  <2> QED BY <1>0, <2>1, <2>2, Zenon DEF IInv
<1> QED BY <1>1, <1>2, <1>3, <1>4, <1>5, <1>6, <1>7, <1>8, <1>9, <1>10, <1>11, <1>12, <1>13, <1>14, Zenon
      DEF Next, Step

\* The types, and all that the invariant says, hold in every reachable state.
THEOREM LeaderInvariant == Spec => [](LeaderTypeOK /\ IInv)
<1>1. IInv => LeaderTypeOK
  BY Zenon DEF IInv
<1> QED BY <1>1, InvInit, InvNext, PTL DEF Spec

\* An elector that leads holds the lock: as the record has one holder, no two lead
\* at once.
THEOREM LeadersHoldLock == Spec => []LeaderHoldsLock
<1>1. IInv => LeaderHoldsLock
  BY Zenon DEF IInv, ElectorInv, LeadInv, LeaderHoldsLock
<1> QED BY <1>1, LeaderInvariant, PTL

\* A lock that its holder does not renew is taken over in bounded time.
THEOREM LapsedLocksAreTaken == Spec => []LapsedLockIsTaken
<1>1. ASSUME IInv, NEW e \in Electors \ Flaky, record.holder # e
      PROVE  now <= writtenAt + LeaseDuration + 2 * Jittered + 6 * MaxCall[e]
  <2>0. LeaderTypeOK /\ ElectorInv(e)
    BY <1>1, Zenon DEF IInv
  <2>1. /\ now \in Nat /\ writtenAt \in Nat /\ tryNow[e] \in Nat /\ callStart[e] \in Nat
        /\ wakeAt[e] \in Nat /\ observedTime[e] \in Int /\ MaxCall[e] \in Nat
        /\ Jittered \in Nat /\ LeaseDuration \in Nat
    BY <2>0, Numbers, Constants, Zenon
  <2>2. ~leading[e] /\ pc[e] \in {"idle", "get", "got", "write", "conflict"}
    BY <1>1, <2>0, Zenon DEF ElectorInv, LeadInv, ReliableInv, LeaderTypeOK, Calling
  <2>3. LeaseDuration >= 1
    BY <2>1, Constants
  <2>4. ASSUME NEW t \in Nat, Soon(e, t)
        PROVE  t <= writtenAt + LeaseDuration - 1 + 2 * Jittered + 4 * MaxCall[e]
    BY <2>1, <2>3, <2>4 DEF Soon, Fresh
  <2>5. CASE pc[e] = "idle"
    <3>1. now <= wakeAt[e] /\ Soon(e, wakeAt[e])
      BY <1>1, <2>0, <2>2, <2>5, Zenon DEF ElectorInv, WaitInv
    <3> QED BY <2>1, <2>4, <3>1
  <2>6. CASE pc[e] # "idle"
    <3>1. now <= tryNow[e] + 2 * MaxCall[e]
      BY <2>0, <2>1, <2>2, <2>6 DEF ElectorInv, TimeInv, Calling
    <3>2. \/ Soon(e, tryNow[e])
          \/ tryNow[e] <= writtenAt + LeaseDuration - 1 + 2 * Jittered + 4 * MaxCall[e]
          \/ tryNow[e] <= writtenAt
      BY <1>1, <2>0, <2>2, <2>6, Zenon DEF ElectorInv, WaitInv
    <3>3. tryNow[e] <= writtenAt + LeaseDuration - 1 + 2 * Jittered + 4 * MaxCall[e]
      BY <2>1, <2>3, <2>4, <3>2
    <3> QED BY <2>1, <3>1, <3>3
  <2> QED BY <2>5, <2>6, Zenon
<1>2. IInv => LapsedLockIsTaken
  <2> SUFFICES ASSUME IInv, NEW e \in Electors \ Flaky, record.holder # e
               PROVE  ~(now > writtenAt + LeaseDuration + 2 * Jittered + 6 * MaxCall[e])
    BY Zenon DEF LapsedLockIsTaken
  <2>1. /\ now \in Nat /\ writtenAt \in Nat /\ MaxCall[e] \in Nat
        /\ Jittered \in Nat /\ LeaseDuration \in Nat
    BY Numbers, Constants, Zenon DEF IInv
  <2> QED BY <1>1, <2>1
<1> QED BY <1>2, LeaderInvariant, PTL

\* An elector whose calls do not fail does not stop leading.
THEOREM LeadersAreStable == Spec => StableLeader
<1>1. ASSUME IInv, [Next]_vars, NEW e \in Electors \ Flaky, leading[e]
      PROVE  leading'[e]
  <2>0. LeaderTypeOK /\ ElectorInv(e) /\ IInv'
    BY <1>1, InvNext, Zenon DEF IInv
  <2>1. CASE Same(e) \/ UNCHANGED leading
    BY <1>1, <2>1, Zenon DEF Same
  <2>2. ASSUME NEW f \in Electors, f # e, Step(f) \/ CallFails(f) \/ Crash(f) \/ Restart(f)
        PROVE  leading'[e]
    BY <2>0, <2>1, <2>2, OthersSame, ZenonT(30)
  <2>3. ASSUME GetHeld(e) \/ WriteConflict(e) PROVE FALSE
    <3>1. (pc[e] = "got" /\ old[e].record.holder # e) \/ pc[e] = "conflict"
      BY <2>3, Zenon DEF GetHeld, HeldByOther, WriteConflict
    <3> QED BY <1>1, <2>0, <3>1, SMTT(30) DEF ElectorInv, ReliableInv, ReadInv, LeadInv
  <2>4. ~CallFails(e) /\ ~Crash(e) /\ ~Restart(e)
    BY <1>1, <2>0, Zenon DEF CallFails, Crash, Restart, ElectorInv, ReliableInv
  <2>5. ASSUME WriteOk(e) PROVE leading'[e]
    BY <2>0, <2>5, Zenon DEF WriteOk, Succeed, LeaderTypeOK
  <2>6. ASSUME Step(e) PROVE leading'[e]
    <3>1. ASSUME NEW last \in BOOLEAN, Try(e, last) PROVE UNCHANGED leading
      BY <3>1, Zenon DEF Try
    <3>2. ASSUME ServerGet(e) \/ GetNotFound(e) \/ GetFree(e) \/ ServerWrite(e)
          PROVE  UNCHANGED leading
      BY <3>2, Zenon DEF ServerGet, GetNotFound, GetFree, ServerWrite, Write
    <3> QED BY <2>1, <2>3, <2>5, <2>6, <3>1, <3>2, Zenon DEF Step
  <2>7. CASE Tick \/ (\E r \in late : LateWrite(r)) \/ UNCHANGED vars
    BY <2>1, <2>7, Zenon DEF Tick, LateWrite, vars
  <2> QED BY <1>1, <2>2, <2>4, <2>6, <2>7, Zenon DEF Next
<1>2. IInv /\ [Next]_vars => [\A e \in Electors \ Flaky : leading[e] => leading'[e]]_vars
  BY <1>1, Zenon
<1> QED BY <1>2, LeaderInvariant, PTL DEF Spec, StableLeader

\* LeaderTransitions counts the changes of the holder.
THEOREM TransitionsAreCounted == Spec => HolderChangesAreCounted
<1> DEFINE Counted == record'.transitions
                        = record.transitions + (IF record'.holder = record.holder THEN 0 ELSE 1)
<1>1. ASSUME IInv, [Next]_vars, exists PROVE Counted
  <2>0. LeaderTypeOK /\ record.transitions \in Nat
    BY <1>1, Zenon DEF IInv, LeaderTypeOK, Records
  <2>1. CASE record' = record
    BY <2>0, <2>1
  <2>2. ASSUME NEW r \in Records, Store(r),
               r.transitions = record.transitions + (IF r.holder = record.holder THEN 0 ELSE 1)
        PROVE  Counted
    <3>1. record'.holder = r.holder /\ record'.transitions = r.transitions
      BY <2>2, MarshalFacts, Zenon DEF Store
    <3> QED BY <2>2, <3>1, Zenon
  <2>3. ASSUME NEW r \in late, LateWrite(r) PROVE Counted
    <3>1. /\ r \in Records /\ Store(r)
          /\ r.transitions = record.transitions + (IF r.holder = record.holder THEN 0 ELSE 1)
      BY <1>1, <2>3, Zenon DEF LateWrite, IInv, LockInv, LeaderTypeOK
    <3> QED BY <2>2, <3>1, Zenon
  <2>4. ASSUME NEW e \in Electors, ServerWrite(e), e \in current PROVE Counted
    <3>1. old[e].record = record /\ old[e].found = TRUE
      BY <1>1, <2>4 DEF IInv, ElectorInv, ReadInv
    <3>2. /\ NewRecord(e) \in Records /\ NewRecord(e).holder = e
          /\ NewRecord(e).transitions
               = record.transitions + (IF record.holder # e THEN 1 ELSE 0)
      BY <2>0, <3>1, NewRecordFacts, Zenon
    <3>3. Store(NewRecord(e))
      BY <2>4, Zenon DEF ServerWrite
    <3> QED BY <2>2, <3>2, <3>3, Zenon
  <2>5. ASSUME NEW e \in Electors, ServerWrite(e), e \notin current PROVE record' = record
    BY <2>5, Zenon DEF ServerWrite, lockVars
  <2>6. ASSUME NEW e \in Electors, NEW last \in BOOLEAN, Try(e, last) PROVE record' = record
    BY <2>6, Zenon DEF Try, lockVars
  <2>7. ASSUME NEW e \in Electors,
               ServerGet(e) \/ GetNotFound(e) \/ GetFree(e) \/ GetHeld(e) \/ WriteOk(e)
                 \/ WriteConflict(e)
        PROVE  record' = record
    BY <2>7, Zenon DEF ServerGet, GetNotFound, GetFree, GetHeld, WriteOk, WriteConflict, Write, lockVars
  <2>8. ASSUME NEW e \in Electors, CallFails(e) \/ Crash(e) \/ Restart(e) PROVE record' = record
    BY <2>8, Zenon DEF CallFails, Crash, Restart, Abandon, lockVars
  <2>9. CASE Tick \/ UNCHANGED vars
    BY <2>1, <2>9, Zenon DEF Tick, vars, lockVars
  <2> QED BY <1>1, <2>1, <2>3, <2>4, <2>5, <2>6, <2>7, <2>8, <2>9, Zenon DEF Next, Step
<1>2. IInv /\ [Next]_vars => [exists => Counted]_vars
  BY <1>1, Zenon
<1> QED BY <1>2, LeaderInvariant, PTL DEF Spec, HolderChangesAreCounted
=============================================================================
