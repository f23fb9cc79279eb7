-------------------------- MODULE WorkQueue_proofs --------------------------
(* Safety of the work queue, and of the delaying queue around it, for any  *)
(* items, any number of workers and callers, any delays and any capacity.  *)
EXTENDS DelayingQueue, FiniteSetTheorems, SequenceTheorems, WellFoundedInduction, TLAPS

-----------------------------------------------------------------------------
(* Queues without repetitions *)

\* A new item goes to the end of the queue.
LEMMA AppendDistinct ==
  ASSUME NEW q \in Seq(Items), NEW i \in Items, IsInjective(q), i \notin Range(q)
  PROVE  /\ Append(q, i) \in Seq(Items) /\ Len(Append(q, i)) = Len(q) + 1
         /\ Range(Append(q, i)) = Range(q) \cup {i}
         /\ IsInjective(Append(q, i))
<1>1. /\ Append(q, i) \in Seq(Items) /\ Len(Append(q, i)) = Len(q) + 1
      /\ \A n \in 1..Len(q) : Append(q, i)[n] = q[n]
      /\ Append(q, i)[Len(q) + 1] = i
      /\ Len(q) \in Nat /\ DOMAIN q = 1..Len(q)
      /\ DOMAIN Append(q, i) = 1..Len(q)+1
  BY AppendProperties
<1>2. \A n \in 1..Len(q)+1 : n \in 1..Len(q) \/ n = Len(q) + 1
  BY <1>1
<1>3. Range(Append(q, i)) = Range(q) \cup {i}
  <2>1. ASSUME NEW x \in Range(Append(q, i)) PROVE x \in Range(q) \cup {i}
    BY <2>1, <1>1, <1>2, Zenon DEF Range
  <2>2. ASSUME NEW x \in Range(q) PROVE x \in Range(Append(q, i))
    <3>1. PICK n \in 1..Len(q) : x = q[n]
      BY <2>2, <1>1, Zenon DEF Range
    <3>2. n \in DOMAIN Append(q, i) /\ Append(q, i)[n] = x
      BY <3>1, <1>1
    <3> QED
      BY <3>2, Zenon DEF Range
  <2>3. i \in Range(Append(q, i))
    <3>1. Len(q) + 1 \in DOMAIN Append(q, i)
      BY <1>1
    <3> QED
      BY <3>1, <1>1, Zenon DEF Range
  <2> QED
    BY <2>1, <2>2, <2>3, Zenon
<1>4. IsInjective(Append(q, i))
  <2> SUFFICES ASSUME NEW m \in 1..Len(q)+1, NEW n \in 1..Len(q)+1,
                      Append(q, i)[m] = Append(q, i)[n]
               PROVE  m = n
    BY <1>1, Zenon DEF IsInjective
  <2>1. \A k \in 1..Len(q) : q[k] # i
    BY <1>1, Zenon DEF Range
  <2>2. CASE m \in 1..Len(q) /\ n \in 1..Len(q)
    BY <2>2, <1>1, Zenon DEF IsInjective
  <2>3. CASE ~(m \in 1..Len(q) /\ n \in 1..Len(q))
    BY <2>1, <2>3, <1>1, <1>2, Zenon
  <2> QED
    BY <2>2, <2>3, Zenon
<1> QED
  BY <1>1, <1>3, <1>4, Zenon

\* Taking the first item leaves the others.
LEMMA TailDistinct ==
  ASSUME NEW q \in Seq(Items), q # <<>>, IsInjective(q)
  PROVE  /\ Head(q) \in Range(q) /\ Head(q) \in Items
         /\ Tail(q) \in Seq(Items) /\ Len(Tail(q)) = Len(q) - 1
         /\ Range(Tail(q)) = Range(q) \ {Head(q)}
         /\ IsInjective(Tail(q))
<1>1. /\ Len(q) \in Nat \ {0} /\ DOMAIN q = 1..Len(q) /\ Head(q) = q[1] /\ Head(q) \in Items
      /\ Tail(q) \in Seq(Items) /\ Len(Tail(q)) = Len(q) - 1
      /\ \A n \in 1..Len(q)-1 : Tail(q)[n] = q[n+1]
      /\ DOMAIN Tail(q) = 1..Len(q)-1
  BY HeadTailProperties
<1>2. Head(q) \in Range(q)
  BY <1>1 DEF Range
<1>3. \A n \in 1..Len(q)-1 : n + 1 \in 1..Len(q) /\ n + 1 # 1
  BY <1>1
<1>4. ASSUME NEW x \in Range(Tail(q)) PROVE x \in Range(q) \ {Head(q)}
  <2>1. PICK n \in 1..Len(q)-1 : x = q[n+1]
    BY <1>4, <1>1, Zenon DEF Range
  <2>2. q[n+1] # q[1]
    BY <1>1, <1>3 DEF IsInjective
  <2> QED
    BY <2>1, <2>2, <1>1, <1>3, Zenon DEF Range
<1>5. ASSUME NEW x \in Range(q), x # Head(q) PROVE x \in Range(Tail(q))
  <2>1. PICK n \in 1..Len(q) : x = q[n]
    BY <1>5, <1>1, Zenon DEF Range
  <2>2. n - 1 \in 1..Len(q)-1 /\ (n - 1) + 1 = n
    BY <2>1, <1>1, <1>5
  <2>3. Tail(q)[n-1] = x
    BY <2>1, <2>2, <1>1, Zenon
  <2> QED
    BY <2>2, <2>3, <1>1, Zenon DEF Range
<1>6. IsInjective(Tail(q))
  <2> SUFFICES ASSUME NEW m \in 1..Len(q)-1, NEW n \in 1..Len(q)-1, Tail(q)[m] = Tail(q)[n]
               PROVE  m = n
    BY <1>1, Zenon DEF IsInjective
  <2>1. m + 1 = n + 1
    BY <1>1, <1>3, ZenonT(40) DEF IsInjective
  <2> QED
    BY <2>1, <1>1
<1> QED
  BY <1>1, <1>2, <1>4, <1>5, <1>6, Zenon
-----------------------------------------------------------------------------
(* The inductive invariant *)

\* What is being processed is what the workers hold, each item by one worker.
OneWorkerPerItem ==
  /\ \A i \in processing : \E w \in Workers : holds[w] = i
  /\ \A w \in Workers : holds[w] # NoItem => holds[w] \in processing
  /\ \A v, w \in Workers : holds[v] = holds[w] /\ holds[v] # NoItem => v = w

\* A worker leaves only during a shutdown, when nobody waits any more, and the
\* last one leaves an empty queue.
LeavingIsShutdown ==
  /\ At("exit") # {} => shuttingDown
  /\ shuttingDown => At("wait") = {}
  /\ At("exit") = Workers => queue = <<>>

WorkInv ==
  /\ WorkTypeOK /\ QueueIsDirtyIdle /\ OneWorkerPerItem
  /\ NoSleepOverWork /\ LeavingIsShutdown

\* Signal moves at most one worker, from cond.Wait to its loop.
LEMMA SignalMoves ==
  ASSUME WorkTypeOK, NEW p \in [Workers -> {"get", "wait", "work", "exit"}],
         \A w \in At("wait") : p[w] = "wait",
         pc' \in Signal(p)
  PROVE  \/ At("wait") = {} /\ pc' = p
         \/ \E w \in At("wait") : pc' = [p EXCEPT ![w] = "get"] /\ p[w] = "wait"
BY Zenon DEF Signal

\* Types: every method keeps them.
LEMMA WorkTypeNext ==
  ASSUME WorkInv, [WorkNext]_workVars
  PROVE  WorkTypeOK'
<1> USE DEF WorkInv, WorkTypeOK
<1>1. ASSUME NEW i \in Items, Add(i) PROVE WorkTypeOK'
  <2>1. CASE i \in processing
    BY <1>1, <2>1, Zenon DEF Add
  <2>2. CASE i \notin processing
    <3>1. Append(queue, i) \in Seq(Items)
      OBVIOUS
    <3>2. pc' \in [Workers -> {"get", "wait", "work", "exit"}]
          /\ \A w \in Workers : pc'[w] = "work" <=> pc[w] = "work"
      BY <1>1, <2>2, SignalMoves, ZenonT(40) DEF Add, At
    <3> QED
      BY <1>1, <2>2, <3>1, <3>2, Zenon DEF Add
  <2> QED
    BY <2>1, <2>2, Zenon
<1>2. ASSUME NEW w \in Workers, GetItem(w) PROVE WorkTypeOK'
  <2> DEFINE h == Head(queue)
  <2>1. h \in Items /\ Tail(queue) \in Seq(Items) /\ h # NoItem
    BY <1>2, NoItemAssumption DEF GetItem
  <2> HIDE DEF h
  <2>2. /\ queue' = Tail(queue) /\ processing' = processing \cup {h} /\ dirty' = dirty \ {h}
        /\ holds' = [holds EXCEPT ![w] = h] /\ pc' = [pc EXCEPT ![w] = "work"]
        /\ UNCHANGED shuttingDown
    BY <1>2, Zenon DEF GetItem, h
  <2> QED
    BY <2>1, <2>2, Zenon
<1>3. ASSUME NEW w \in Workers, GetWaits(w) \/ GetShutdown(w) PROVE WorkTypeOK'
  BY <1>3, Zenon DEF GetWaits, GetShutdown, queueVars
<1>4. ASSUME NEW w \in Workers, Done(w) PROVE WorkTypeOK'
  <2> DEFINE p == [pc EXCEPT ![w] = "get"]
  <2>1. p \in [Workers -> {"get", "wait", "work", "exit"}] /\ p[w] = "get" /\ pc[w] = "work"
    BY <1>4, Zenon DEF Done
  <2>2. pc' = p \/ pc' \in Signal(p)
    BY <1>4, Zenon DEF Done
  <2>3. \A v \in At("wait") : p[v] = "wait"
    BY <2>1, Zenon DEF At
  <2>4. /\ pc' \in [Workers -> {"get", "wait", "work", "exit"}]
        /\ \A v \in Workers : pc'[v] = "work" <=> pc[v] = "work" /\ v # w
    <3>1. \/ pc' = p
          \/ \E v \in At("wait") : pc' = [p EXCEPT ![v] = "get"] /\ p[v] = "wait"
      BY <2>1, <2>2, <2>3, SignalMoves, Zenon
    <3>2. \A v \in Workers : p[v] = "work" <=> pc[v] = "work" /\ v # w
      BY <2>1, Zenon
    <3> HIDE DEF p
    <3> QED
      BY <2>1, <3>1, <3>2, Zenon DEF At
  <2>5. holds[w] \in Items
    BY <2>1, Zenon
  <2>6. queue' \in Seq(Items)
    BY <1>4, <2>5 DEF Done
  <2> QED
    BY <1>4, <2>4, <2>6, Zenon DEF Done
<1>5. CASE ShutDown
  BY <1>5, Zenon DEF ShutDown
<1>6. CASE UNCHANGED workVars
  BY <1>6, Zenon DEF workVars, queueVars
<1> QED
  BY <1>1, <1>2, <1>3, <1>4, <1>5, <1>6, Zenon DEF WorkNext, Get

\* The queue stays the dirty items that nobody processes, and each processed
\* item stays with one worker.
LEMMA QueueNext ==
  ASSUME WorkInv, [WorkNext]_workVars
  PROVE  QueueIsDirtyIdle' /\ OneWorkerPerItem'
<1> DEFINE Goal == QueueIsDirtyIdle' /\ OneWorkerPerItem'
<1>0. /\ WorkTypeOK /\ QueueIsDirtyIdle /\ OneWorkerPerItem
      /\ queue \in Seq(Items) /\ holds \in [Workers -> Items \cup {NoItem}]
      /\ NoItem \notin Items
  BY NoItemAssumption, Zenon DEF WorkInv, WorkTypeOK
<1>1. ASSUME NEW i \in Items, Add(i) PROVE Goal
  <2>1. CASE i \in processing
    BY <1>0, <1>1, <2>1, ZenonT(40) DEF Add, QueueIsDirtyIdle, OneWorkerPerItem
  <2>2. CASE i \notin processing
    <3>1. i \notin Range(queue) /\ IsInjective(queue)
      BY <1>0, <1>1, Zenon DEF Add, QueueIsDirtyIdle
    <3>2. Range(queue') = Range(queue) \cup {i} /\ IsInjective(queue')
      BY <1>0, <1>1, <2>2, <3>1, AppendDistinct, Zenon DEF Add
    <3> QED
      BY <1>0, <1>1, <2>2, <3>2 DEF Add, QueueIsDirtyIdle, OneWorkerPerItem
  <2> QED
    BY <2>1, <2>2, Zenon
<1>2. ASSUME NEW w \in Workers, GetItem(w) PROVE Goal
  <2> DEFINE h == Head(queue)
  <2>1. /\ h \in Range(queue) /\ h \in Items
        /\ Range(Tail(queue)) = Range(queue) \ {h} /\ IsInjective(Tail(queue))
    BY <1>0, <1>2, TailDistinct, Zenon DEF GetItem, QueueIsDirtyIdle
  <2>2. h \in dirty /\ h \notin processing
    BY <1>0, <2>1, Zenon DEF QueueIsDirtyIdle
  <2>3. holds[w] = NoItem
    BY <1>0, <1>2, Zenon DEF GetItem, WorkTypeOK
  <2> HIDE DEF h
  <2>4. /\ queue' = Tail(queue) /\ processing' = processing \cup {h}
        /\ dirty' = dirty \ {h} /\ holds' = [holds EXCEPT ![w] = h]
    BY <1>2, Zenon DEF GetItem, h
  <2>5. QueueIsDirtyIdle'
    BY <1>0, <2>1, <2>2, <2>4, Zenon DEF QueueIsDirtyIdle
  <2>6. \A v \in Workers : holds'[v] = (IF v = w THEN h ELSE holds[v]) /\ holds[v] # h
    BY <1>0, <2>1, <2>2, <2>4, ZenonT(40) DEF OneWorkerPerItem
  <2>7. OneWorkerPerItem'
    <3>1. \A i \in processing' : \E v \in Workers : holds'[v] = i
      <4> SUFFICES ASSUME NEW i \in processing' PROVE \E v \in Workers : holds'[v] = i
        OBVIOUS
      <4>1. CASE i = h
        BY <4>1, <2>6, Zenon
      <4>2. CASE i \in processing
        <5>1. PICK v \in Workers : holds[v] = i
          BY <4>2, <1>0, Zenon DEF OneWorkerPerItem
        <5>2. i # NoItem
          BY <4>2, <1>0, Zenon DEF WorkTypeOK
        <5> QED
          BY <5>1, <5>2, <2>3, <2>6, Zenon
      <4> QED
        BY <4>1, <4>2, <2>4, Zenon
    <3>2. \A v \in Workers : holds'[v] # NoItem => holds'[v] \in processing'
      BY <1>0, <2>4, <2>6, Zenon DEF OneWorkerPerItem
    <3>3. \A u, v \in Workers : holds'[u] = holds'[v] /\ holds'[u] # NoItem => u = v
      BY <1>0, <2>6, Zenon DEF OneWorkerPerItem
    <3> QED
      BY <3>1, <3>2, <3>3, Zenon DEF OneWorkerPerItem
  <2> QED
    BY <2>5, <2>7, Zenon
<1>3. ASSUME NEW w \in Workers, GetWaits(w) \/ GetShutdown(w) PROVE Goal
  BY <1>0, <1>3, Zenon DEF GetWaits, GetShutdown, queueVars, QueueIsDirtyIdle, OneWorkerPerItem
<1>4. ASSUME NEW w \in Workers, Done(w) PROVE Goal
  <2>1. holds[w] \in Items /\ holds[w] \in processing
    BY <1>0, <1>4, Zenon DEF Done, WorkTypeOK, OneWorkerPerItem
  <2>2. /\ processing' = processing \ {holds[w]} /\ holds' = [holds EXCEPT ![w] = NoItem]
        /\ dirty' = dirty
    BY <1>4, Zenon DEF Done
  <2>3. OneWorkerPerItem'
    BY <1>0, <2>1, <2>2, Zenon DEF OneWorkerPerItem
  <2>4. QueueIsDirtyIdle'
    <3>1. CASE holds[w] \in dirty
      <4>1. holds[w] \notin Range(queue) /\ IsInjective(queue)
        BY <1>0, <2>1, Zenon DEF QueueIsDirtyIdle
      <4>2. queue' = Append(queue, holds[w])
        BY <1>4, <3>1, Zenon DEF Done
      <4>3. Range(queue') = Range(queue) \cup {holds[w]} /\ IsInjective(queue')
        BY <1>0, <2>1, <4>1, <4>2, AppendDistinct, Zenon
      <4> QED
        BY <1>0, <2>1, <2>2, <3>1, <4>3, Zenon DEF QueueIsDirtyIdle
    <3>2. CASE holds[w] \notin dirty
      BY <1>0, <1>4, <2>2, <3>2, Zenon DEF Done, QueueIsDirtyIdle
    <3> QED
      BY <3>1, <3>2, Zenon
  <2> QED
    BY <2>3, <2>4, Zenon
<1>5. CASE ShutDown
  BY <1>0, <1>5, Zenon DEF ShutDown, QueueIsDirtyIdle, OneWorkerPerItem
<1>6. CASE UNCHANGED workVars
  BY <1>0, <1>6, Zenon DEF workVars, queueVars, QueueIsDirtyIdle, OneWorkerPerItem
<1> QED
  BY <1>1, <1>2, <1>3, <1>4, <1>5, <1>6, Zenon DEF WorkNext, Get

\* How many workers are on their way into Get, when one more or one less is.
LEMMA GettingCount ==
  ASSUME NEW S \in SUBSET Workers, NEW w \in Workers
  PROVE  /\ Cardinality(S) \in Nat
         /\ w \notin S => Cardinality(S \cup {w}) = Cardinality(S) + 1
         /\ w \in S => Cardinality(S \ {w}) = Cardinality(S) - 1
<1>1. IsFiniteSet(S)
  BY FS_Subset, WorkersAssumption, Zenon
<1> QED
  BY <1>1, FS_CardinalityType, FS_AddElement, FS_RemoveElement, Zenon

\* Every item that enters the queue while somebody sleeps wakes somebody, and
\* whoever goes to sleep has seen an empty queue.
LEMMA WakeupNext ==
  ASSUME WorkInv, [WorkNext]_workVars
  PROVE  NoSleepOverWork'
<1> DEFINE G == At("get")
           n == Cardinality(G)
<1>0. /\ queue \in Seq(Items) /\ pc \in [Workers -> {"get", "wait", "work", "exit"}]
      /\ WorkTypeOK /\ NoSleepOverWork
      /\ G \in SUBSET Workers /\ At("wait") \in SUBSET Workers
  BY Zenon DEF WorkInv, WorkTypeOK, At
<1>1. n \in Nat /\ Len(queue) \in Nat
  <2>1. \E w : w \in Workers
    BY WorkersAssumption, Zenon
  <2>2. n \in Nat
    BY <1>0, <2>1, GettingCount, Zenon
  <2>3. Len(queue) \in Nat
    BY <1>0, LenProperties, Zenon
  <2> QED
    BY <2>2, <2>3, Zenon
<1>2. ASSUME NEW i \in Items, Add(i) PROVE NoSleepOverWork'
  <2>1. CASE i \in processing
    BY <1>0, <1>2, <2>1, Zenon DEF Add, NoSleepOverWork, At
  <2>2. CASE i \notin processing
    <3>1. Len(queue') = Len(queue) + 1 /\ pc' \in Signal(pc)
      BY <1>0, <1>2, <2>2 DEF Add
    <3>2. \/ At("wait") = {} /\ pc' = pc
          \/ \E w \in At("wait") : pc' = [pc EXCEPT ![w] = "get"]
      BY <3>1, Zenon DEF Signal
    <3>3. CASE At("wait") = {} /\ pc' = pc
      BY <3>3, Zenon DEF NoSleepOverWork, At
    <3>4. ASSUME NEW w \in At("wait"), pc' = [pc EXCEPT ![w] = "get"] PROVE NoSleepOverWork'
      <4>1. w \in Workers /\ w \notin G
        BY <3>4, Zenon DEF At
      <4>2. At("get")' = G \cup {w}
        BY <1>0, <3>4, <4>1, Zenon DEF At
      <4>3. Cardinality(At("get")') = n + 1
        BY <1>0, <4>1, <4>2, GettingCount, Zenon
      <4>4. Len(queue) <= n
        BY <1>0, <3>4, Zenon DEF NoSleepOverWork
      <4>5. SUFFICES Len(queue') <= Cardinality(At("get")')
        BY Zenon DEF NoSleepOverWork
      <4> HIDE DEF n
      <4> QED
        BY <1>1, <3>1, <4>3, <4>4
    <3> QED
      BY <3>2, <3>3, <3>4, Zenon
  <2> QED
    BY <2>1, <2>2, Zenon
<1>3. ASSUME NEW w \in Workers, GetItem(w) PROVE NoSleepOverWork'
  <2>1. w \in G /\ Len(queue') = Len(queue) - 1 /\ pc' = [pc EXCEPT ![w] = "work"]
    BY <1>0, <1>3, HeadTailProperties, Zenon DEF GetItem, At
  <2>2. At("get")' = G \ {w} /\ At("wait")' = At("wait")
    BY <1>0, <2>1, Zenon DEF At
  <2>3. Cardinality(At("get")') = n - 1
    BY <1>0, <2>1, <2>2, GettingCount, Zenon
  <2>4. SUFFICES ASSUME At("wait")' # {} PROVE Len(queue') <= Cardinality(At("get")')
    BY Zenon DEF NoSleepOverWork
  <2>5. Len(queue) <= n
    BY <1>0, <2>2, <2>4, Zenon DEF NoSleepOverWork
  <2> HIDE DEF n
  <2> QED
    BY <1>1, <2>1, <2>3, <2>5
<1>4. ASSUME NEW w \in Workers, GetWaits(w) \/ GetShutdown(w) PROVE NoSleepOverWork'
  <2>1. queue' = <<>>
    BY <1>4, Zenon DEF GetWaits, GetShutdown, queueVars
  <2>2. At("get")' \in SUBSET Workers
    BY Zenon DEF At
  <2>3. Cardinality(At("get")') \in Nat
    BY <2>2, GettingCount, WorkersAssumption, Zenon
  <2> QED
    BY <2>1, <2>3 DEF NoSleepOverWork
<1>5. ASSUME NEW w \in Workers, Done(w) PROVE NoSleepOverWork'
  <2> DEFINE p == [pc EXCEPT ![w] = "get"]
             H == G \cup {w}
  <2>1. w \notin G /\ pc[w] = "work" /\ w \notin At("wait")
    BY <1>5, Zenon DEF Done, At
  <2>2. H \in SUBSET Workers /\ Cardinality(H) = n + 1
    BY <1>0, <2>1, GettingCount, Zenon
  <2>3. CASE queue' = queue /\ pc' = p
    <3>1. At("get")' = H /\ At("wait")' = At("wait")
      BY <1>0, <2>1, <2>3, Zenon DEF At
    <3>2. Cardinality(At("get")') = n + 1
      BY <2>2, <3>1, Zenon
    <3>3. SUFFICES ASSUME At("wait")' # {} PROVE Len(queue') <= Cardinality(At("get")')
      BY Zenon DEF NoSleepOverWork
    <3>4. Len(queue) <= n
      BY <1>0, <3>1, <3>3, Zenon DEF NoSleepOverWork
    <3> HIDE DEF n
    <3> QED
      BY <1>1, <2>3, <3>2, <3>4
  <2>4. CASE queue' = Append(queue, holds[w]) /\ pc' \in Signal(p)
    <3>1. Len(queue') = Len(queue) + 1
      BY <1>0, <2>1, <2>4 DEF WorkTypeOK
    <3>2. CASE At("wait") = {}
      <4>1. pc' = p
        BY <2>4, <3>2, Zenon DEF Signal
      <4>2. At("wait")' = {}
        BY <1>0, <3>2, <4>1, Zenon DEF At
      <4> QED
        BY <4>2, Zenon DEF NoSleepOverWork
    <3>3. ASSUME NEW v \in At("wait"), pc' = [p EXCEPT ![v] = "get"] PROVE NoSleepOverWork'
      <4>1. v \in Workers /\ v \notin H
        BY <2>1, <3>3, Zenon DEF At
      <4>2. At("get")' = H \cup {v}
        BY <1>0, <2>1, <3>3, <4>1, Zenon DEF At
      <4>3. Cardinality(At("get")') = Cardinality(H) + 1
        BY <2>2, <4>1, <4>2, GettingCount, Zenon
      <4>4. Len(queue) <= n
        BY <1>0, <3>3, Zenon DEF NoSleepOverWork
      <4>5. SUFFICES Len(queue') <= Cardinality(At("get")')
        BY Zenon DEF NoSleepOverWork
      <4> HIDE DEF n, H
      <4> QED
        BY <1>1, <2>2, <3>1, <4>3, <4>4
    <3> QED
      BY <2>4, <3>2, <3>3, Zenon DEF Signal
  <2> QED
    BY <1>5, <2>3, <2>4, Zenon DEF Done
<1>6. CASE ShutDown
  BY <1>6, Zenon DEF ShutDown, NoSleepOverWork, At
<1>7. CASE UNCHANGED workVars
  BY <1>0, <1>7, Zenon DEF workVars, queueVars, NoSleepOverWork, At
<1> QED
  BY <1>2, <1>3, <1>4, <1>5, <1>6, <1>7, Zenon DEF WorkNext, Get

\* Workers leave only during a shutdown, and the last one an empty queue.
LEMMA LeavingNext ==
  ASSUME WorkInv, [WorkNext]_workVars
  PROVE  LeavingIsShutdown'
<1>0. /\ pc \in [Workers -> {"get", "wait", "work", "exit"}] /\ LeavingIsShutdown
      /\ Workers # {}
  BY WorkersAssumption, Zenon DEF WorkInv, WorkTypeOK
<1>1. ASSUME NEW i \in Items, Add(i) PROVE LeavingIsShutdown'
  <2>1. /\ ~shuttingDown /\ UNCHANGED shuttingDown
        /\ At("exit") = {}
    BY <1>0, <1>1, Zenon DEF Add, LeavingIsShutdown
  <2>2. pc' = pc \/ \E w \in At("wait") : pc' = [pc EXCEPT ![w] = "get"]
    BY <1>1, Zenon DEF Add, Signal
  <2>3. At("exit")' = {}
    BY <1>0, <2>1, <2>2, Zenon DEF At
  <2> QED
    BY <1>0, <2>1, <2>3, Zenon DEF LeavingIsShutdown
<1>2. ASSUME NEW w \in Workers, GetItem(w) PROVE LeavingIsShutdown'
  <2>1. UNCHANGED shuttingDown /\ pc' = [pc EXCEPT ![w] = "work"] /\ pc[w] = "get"
    BY <1>2, Zenon DEF GetItem
  <2>2. At("exit")' = At("exit") /\ At("wait")' = At("wait") /\ w \notin At("exit")'
    BY <1>0, <2>1, Zenon DEF At
  <2> QED
    BY <1>0, <2>1, <2>2, Zenon DEF LeavingIsShutdown
<1>3. ASSUME NEW w \in Workers, GetWaits(w) \/ GetShutdown(w) PROVE LeavingIsShutdown'
  <2>1. queue' = <<>> /\ UNCHANGED shuttingDown
    BY <1>3, Zenon DEF GetWaits, GetShutdown, queueVars
  <2>2. CASE GetWaits(w)
    <3>1. ~shuttingDown /\ pc' = [pc EXCEPT ![w] = "wait"]
      BY <2>2, Zenon DEF GetWaits
    <3>2. At("exit")' \subseteq At("exit")
      BY <1>0, <3>1, Zenon DEF At
    <3> QED
      BY <1>0, <2>1, <3>1, <3>2, Zenon DEF LeavingIsShutdown
  <2>3. CASE GetShutdown(w)
    <3>1. shuttingDown /\ pc' = [pc EXCEPT ![w] = "exit"]
      BY <2>3, Zenon DEF GetShutdown
    <3>2. At("wait")' \subseteq At("wait")
      BY <1>0, <3>1, Zenon DEF At
    <3> QED
      BY <1>0, <2>1, <3>1, <3>2, Zenon DEF LeavingIsShutdown
  <2> QED
    BY <1>3, <2>2, <2>3, Zenon
<1>4. ASSUME NEW w \in Workers, Done(w) PROVE LeavingIsShutdown'
  <2> DEFINE p == [pc EXCEPT ![w] = "get"]
  <2>1. UNCHANGED shuttingDown /\ pc[w] = "work"
    BY <1>4, Zenon DEF Done
  <2>2. pc' = p \/ \E v \in At("wait") : pc' = [p EXCEPT ![v] = "get"]
    BY <1>4, Zenon DEF Done, Signal
  <2>3. /\ At("exit")' \subseteq At("exit") /\ At("wait")' \subseteq At("wait")
        /\ w \notin At("exit")'
    BY <1>0, <2>1, <2>2, Zenon DEF At
  <2> QED
    BY <1>0, <2>1, <2>3, Zenon DEF LeavingIsShutdown
<1>5. CASE ShutDown
  <2>1. shuttingDown' /\ queue' = queue
    BY <1>5, Zenon DEF ShutDown
  <2>2. At("exit")' = At("exit") /\ At("wait")' = {}
    BY <1>0, <1>5, Zenon DEF ShutDown, At
  <2> QED
    BY <1>0, <2>1, <2>2, Zenon DEF LeavingIsShutdown
<1>6. CASE UNCHANGED workVars
  BY <1>0, <1>6, Zenon DEF workVars, queueVars, LeavingIsShutdown, At
<1> QED
  BY <1>1, <1>2, <1>3, <1>4, <1>5, <1>6, Zenon DEF WorkNext, Get

LEMMA WorkInvInit == WorkInit => WorkInv
<1> SUFFICES ASSUME WorkInit PROVE WorkInv
  OBVIOUS
<1>1. WorkTypeOK
  <2>1. \A w \in Workers : pc[w] = "get" /\ holds[w] = NoItem
    BY Zenon DEF WorkInit
  <2>2. /\ pc \in [Workers -> {"get", "wait", "work", "exit"}]
        /\ holds \in [Workers -> Items \cup {NoItem}]
    BY Zenon DEF WorkInit
  <2>3. queue \in Seq(Items) /\ dirty \subseteq Items /\ processing \subseteq Items
    BY DEF WorkInit
  <2>4. shuttingDown \in BOOLEAN
    BY Zenon DEF WorkInit
  <2> QED
    BY <2>1, <2>2, <2>3, <2>4, Zenon DEF WorkTypeOK
<1>2. QueueIsDirtyIdle
  <2>1. queue = <<>> /\ dirty = {} /\ DOMAIN queue = {}
    BY DEF WorkInit
  <2> QED
    BY <2>1, Zenon DEF QueueIsDirtyIdle, Range, IsInjective
<1>3. OneWorkerPerItem
  BY Zenon DEF WorkInit, OneWorkerPerItem
<1>4. At("wait") = {} /\ At("exit") = {}
  BY Zenon DEF WorkInit, At
<1>5. NoSleepOverWork /\ LeavingIsShutdown
  BY <1>4, WorkersAssumption, Zenon DEF NoSleepOverWork, LeavingIsShutdown
<1> QED
  BY <1>1, <1>2, <1>3, <1>5, Zenon DEF WorkInv

LEMMA WorkInvNext ==
  ASSUME WorkInv, [WorkNext]_workVars
  PROVE  WorkInv'
<1>1. WorkTypeOK'
  BY WorkTypeNext, Zenon
<1>2. QueueIsDirtyIdle' /\ OneWorkerPerItem'
  BY QueueNext, Zenon
<1>3. NoSleepOverWork'
  BY WakeupNext, Zenon
<1>4. LeavingIsShutdown'
  BY LeavingNext, Zenon
<1> QED
  BY <1>1, <1>2, <1>3, <1>4, Zenon DEF WorkInv

LEMMA WorkInvariant == WorkSpec => []WorkInv
BY WorkInvInit, WorkInvNext, PTL DEF WorkSpec
-----------------------------------------------------------------------------
\* Every variable of the queue keeps its type, and a worker holds an item
\* exactly while it works on it.
THEOREM WorkTypeCorrect == WorkSpec => []WorkTypeOK
<1>1. WorkInv => WorkTypeOK
  BY Zenon DEF WorkInv
<1> QED
  BY <1>1, WorkInvariant, PTL

\* At every moment the queue holds, once each, exactly the items that need
\* processing and are not being processed.
THEOREM QueueCorrect == WorkSpec => []QueueIsDirtyIdle
<1>1. WorkInv => QueueIsDirtyIdle
  BY Zenon DEF WorkInv
<1> QED
  BY <1>1, WorkInvariant, PTL

\* One Signal per item is enough for any number of workers: no worker sleeps in
\* cond.Wait while there are more items than workers about to look for one.
THEOREM WakeupsSuffice == WorkSpec => []NoSleepOverWork
<1>1. WorkInv => NoSleepOverWork
  BY Zenon DEF WorkInv
<1> QED
  BY <1>1, WorkInvariant, PTL

\* A worker leaves only when the queue is empty, and holds nothing then.
LEMMA WorkInvDrains ==
  ASSUME WorkInv
  PROVE  DrainedBeforeExit
<1> SUFFICES ASSUME At("exit") = Workers PROVE dirty = {} /\ processing = {}
  BY Zenon DEF DrainedBeforeExit
<1>1. \A w \in Workers : holds[w] = NoItem
  BY Zenon DEF WorkInv, WorkTypeOK, At
<1>2. processing = {}
  BY <1>1, NoItemAssumption DEF WorkInv, WorkTypeOK, OneWorkerPerItem
<1>3. Range(queue) = {}
  BY DEF WorkInv, LeavingIsShutdown, Range
<1> QED
  BY <1>2, <1>3, Zenon DEF WorkInv, QueueIsDirtyIdle

\* What ShutDown promises: when the last worker has been told to exit, every
\* item that was added has been processed.
THEOREM WorkIsDrained == WorkSpec => []DrainedBeforeExit
  BY WorkInvDrains, WorkInvariant, PTL

\* Every step of the queue is a step of the set of marked items, or leaves it alone.
LEMMA WorkStepIsSetStep ==
  ASSUME WorkInv, [WorkNext]_workVars
  PROVE  [Set!Next]_(Set!setVars)
<1>0. WorkTypeOK /\ QueueIsDirtyIdle /\ OneWorkerPerItem
  BY Zenon DEF WorkInv
<1>1. ASSUME NEW i \in Items, Add(i) PROVE Set!Mark(i)
  BY <1>1, Zenon DEF Add, Set!Mark
<1>2. ASSUME NEW w \in Workers, GetItem(w) PROVE Set!Start(w, Head(queue)) /\ Head(queue) \in Items
  <2> DEFINE i == Head(queue)
  <2>1. i \in Range(queue) /\ i \in Items
    BY <1>0, <1>2 DEF GetItem, WorkTypeOK, Range
  <2>2. i \in dirty /\ i \notin processing
    BY <1>0, <2>1, Zenon DEF QueueIsDirtyIdle
  <2>3. \A v \in Workers : holds[v] # i
    BY <1>0, <2>1, <2>2, NoItemAssumption, Zenon DEF OneWorkerPerItem
  <2>4. holds[w] = NoItem
    BY <1>0, <1>2, Zenon DEF GetItem, WorkTypeOK
  <2> QED
    BY <1>2, <2>1, <2>2, <2>3, <2>4, Zenon DEF GetItem, Set!Start, WorkTypeOK
<1>3. ASSUME NEW w \in Workers, GetWaits(w) \/ GetShutdown(w) PROVE UNCHANGED Set!setVars
  BY <1>3, Zenon DEF GetWaits, GetShutdown, queueVars, Set!setVars
<1>4. ASSUME NEW w \in Workers, Done(w) PROVE Set!Finish(w)
  BY <1>4, Zenon DEF Done, Set!Finish
<1>5. CASE ShutDown
  BY <1>5, Zenon DEF ShutDown, Set!Stop, Set!Next
<1>6. CASE UNCHANGED workVars
  BY <1>6, Zenon DEF workVars, queueVars, Set!setVars
<1> QED
  BY <1>1, <1>2, <1>3, <1>4, <1>5, <1>6, Zenon DEF WorkNext, Get, Set!Next

\* The work queue implements the set of marked items: no item is ever worked on
\* by two workers, and an item added while it is being processed stays marked.
THEOREM WorkQueueImplementsSet == WorkSpec => SetSafe
<1>1. WorkInit => Set!Init
  BY Zenon DEF WorkInit, Set!Init
<1> QED
  BY <1>1, WorkStepIsSetStep, WorkInvariant, PTL DEF WorkSpec, SetSafe, Set!Safe

\* When every worker sleeps or has left, nothing is left to do.
LEMMA WorkInvRests ==
  ASSUME WorkInv, \A w \in Workers : pc[w] \in {"wait", "exit"}
  PROVE  dirty = {} /\ processing = {} /\ (shuttingDown => At("exit") = Workers)
<1>1. At("get") = {} /\ At("exit") \subseteq Workers /\ At("wait") \subseteq Workers
  BY Zenon DEF At
<1>2. processing = {}
  <2>1. \A w \in Workers : holds[w] = NoItem
    BY Zenon DEF WorkInv, WorkTypeOK
  <2> QED BY <2>1, NoItemAssumption, Zenon DEF WorkInv, WorkTypeOK, OneWorkerPerItem
<1>3. At("wait") = {} => At("exit") = Workers
  BY Zenon DEF At
<1>4. queue = <<>>
  <2>1. CASE At("wait") = {}
    BY <1>3, <2>1, Zenon DEF WorkInv, LeavingIsShutdown
  <2>2. CASE At("wait") # {}
    <3>1. Len(queue) <= 0 /\ queue \in Seq(Items)
      BY <1>1, <2>2, FS_EmptySet, Zenon DEF WorkInv, NoSleepOverWork, WorkTypeOK
    <3> QED BY <3>1
  <2> QED BY <2>1, <2>2, Zenon
<1>5. dirty = {}
  <2>1. Range(queue) = {}
    BY <1>4 DEF Range
  <2> QED BY <1>2, <2>1, Zenon DEF WorkInv, QueueIsDirtyIdle
<1> QED BY <1>2, <1>3, <1>5, Zenon DEF WorkInv, LeavingIsShutdown

\* The workers come to rest only when the work is done: when each of them sleeps in
\* cond.Wait or has left, no item needs processing or is being processed, and during a
\* shutdown all of them have left.
THEOREM WorkersRestWhenDone ==
  WorkSpec => []((\A w \in Workers : pc[w] \in {"wait", "exit"})
                   => dirty = {} /\ processing = {} /\ (shuttingDown => At("exit") = Workers))
<1>1. WorkInv => ((\A w \in Workers : pc[w] \in {"wait", "exit"})
                   => dirty = {} /\ processing = {} /\ (shuttingDown => At("exit") = Workers))
  BY WorkInvRests, Zenon
<1> QED BY <1>1, WorkInvariant, PTL
-----------------------------------------------------------------------------
(* The delaying queue *)

\* A set of numbers that is not empty has a least one.
LEMMA LeastNumber ==
  ASSUME NEW S, S \subseteq Nat, S # {}
  PROVE  \E x \in S : \A y \in S : x <= y
<1> DEFINE R == {ss \in Nat \X Nat : ss[1] < ss[2]}
<1>1. IsWellFoundedOn(R, Nat)
  BY NatLessThanWellFounded, Zenon DEF OpToRel
<1>2. PICK x \in S : \A y \in S : ~(<<y, x>> \in R)
  <2> HIDE DEF R
  <2> QED BY <1>1, WFMin, Zenon
<1>3. ASSUME NEW y \in S PROVE x <= y
  <2>1. x \in Nat /\ y \in Nat
    OBVIOUS
  <2>2. y < x => <<y, x>> \in R
    BY <2>1, Zenon
  <2>3. ~(y < x)
    BY <1>2, <2>2, Zenon
  <2> QED BY <2>1, <2>3
<1> QED BY <1>3, Zenon

\* The timer is set to the time of an entry, or not at all.
LEMMA EarliestFacts ==
  ASSUME waiting \in [Items -> Due \cup {Never}]
  PROVE  Earliest(waiting) \in Due \cup {Never}
<1> DEFINE S == Range(waiting) \cup {Never}
<1>1. S \subseteq Due \cup {Never} /\ S \subseteq Nat /\ S # {}
  BY DelayAssumption DEF Range, Due, Never
<1>2. \E x \in S : \A y \in S : x <= y
  <2> HIDE DEF S
  <2> QED BY <1>1, LeastNumber, Zenon
<1>3. \E x \in S : \A y \in Range(waiting) : x <= y
  BY <1>2, Zenon
<1>4. Earliest(waiting) \in S
  BY <1>3, Zenon DEF Earliest
<1> QED BY <1>1, <1>4, Zenon

\* The channel gains an entry at its end and loses one at its front.
LEMMA ChannelFacts ==
  ASSUME NEW S, NEW q \in Seq(S), NEW e \in S
  PROVE  /\ Len(q) \in Nat
         /\ Append(q, e) \in Seq(S) /\ Len(Append(q, e)) = Len(q) + 1
         /\ \A n \in 1..Len(q) : Append(q, e)[n] = q[n]
         /\ Append(q, e)[Len(q) + 1] = e
         /\ q # <<>> => /\ Head(q) \in S /\ Head(q) = q[1] /\ Len(q) > 0
                        /\ Tail(q) \in Seq(S) /\ Len(Tail(q)) = Len(q) - 1
                        /\ \A n \in 1..Len(q) - 1 : Tail(q)[n] = q[n + 1]
<1>1. Len(q) \in Nat
  BY LenProperties, Zenon
<1>2. q # <<>> => Len(q) > 0
  BY EmptySeq, LenProperties
<1> QED BY <1>1, <1>2, AppendProperties, HeadTailProperties

\* The entries that AddAfter sends.
Entries == [data : Items, readyAt : Due]

\* What the types say of the values that the steps compute with.
LEMMA DelayNumbers ==
  /\ MaxTime \in Nat /\ Never \in Nat /\ Never \notin Due /\ Due \subseteq Nat
  /\ \A t \in Due : t < Never /\ t <= MaxTime
BY DelayAssumption DEF Never, Due

\* Every step keeps the types.
LEMMA DelayTypeNext ==
  ASSUME DelayTypeOK, [DelayNext]_delayVars
  PROVE  DelayTypeOK'
<1> USE DelayNumbers
<1>1. ASSUME NEW c \in Callers, NEW i \in Items, NEW d \in Delays, AddAfter(c, i, d)
      PROVE  DelayTypeOK'
  <2>1. now + d \in Due
    BY <1>1, DelayAssumption DEF AddAfter, DelayTypeOK, Due
  <2>2. [data |-> i, readyAt |-> now + d] \in [data : Items, readyAt : Due]
    BY <2>1, Zenon
  <2>3. cpc' \in [Callers -> {"idle", "send"}]
    BY <1>1, Zenon DEF AddAfter, DelayTypeOK
  <2>5. entry' \in [Callers -> [data : Items, readyAt : Due] \cup {NoEntry}]
    BY <1>1, <2>2, Zenon DEF AddAfter, DelayTypeOK
  <2>4. ASSUME NEW b \in Callers
        PROVE  IF cpc'[b] = "idle" THEN entry'[b] = NoEntry ELSE entry'[b] \in [data : Items, readyAt : Due]
    BY <1>1, <2>2, Zenon DEF AddAfter, DelayTypeOK
  <2> QED BY <1>1, <2>3, <2>4, <2>5, Zenon DEF AddAfter, DelayTypeOK, loopVars
<1>2. ASSUME NEW c \in Callers, Return(c)
      PROVE  /\ cpc' \in [Callers -> {"idle", "send"}]
             /\ entry' \in [Callers -> [data : Items, readyAt : Due] \cup {NoEntry}]
             /\ \A b \in Callers : IF cpc'[b] = "idle" THEN entry'[b] = NoEntry
                                   ELSE entry'[b] \in [data : Items, readyAt : Due]
  BY <1>2, Zenon DEF Return, DelayTypeOK
<1>3. ASSUME NEW c \in Callers, Send(c) PROVE DelayTypeOK'
  <2>1. entry[c] \in Entries
    BY <1>3, Zenon DEF Send, DelayTypeOK, Entries
  <2>2. ch' \in Seq(Entries) /\ Len(ch') <= ChanCap
    <3>1. ch \in Seq(Entries) /\ Len(ch) < ChanCap /\ ch' = Append(ch, entry[c])
      BY <1>3, Zenon DEF Send, DelayTypeOK, Entries
    <3> QED BY <2>1, <3>1, ChannelFacts, DelayAssumption
  <2>3. owed' \in [Items -> Due \cup {Never}]
    BY <1>3, <2>1, Zenon DEF Send, DelayTypeOK, Entries
  <2>4. Return(c)
    BY <1>3, Zenon DEF Send
  <2> QED BY <1>2, <1>3, <2>2, <2>3, <2>4, Zenon DEF Send, DelayTypeOK, loopVars, Entries
<1>4. ASSUME NEW c \in Callers, GiveUp(c) PROVE DelayTypeOK'
  <2>1. Return(c)
    BY <1>4, Zenon DEF GiveUp
  <2> QED BY <1>2, <1>4, <2>1, Zenon DEF GiveUp, DelayTypeOK, loopVars
<1>5. ASSUME NEW i \in Items, AddNow(i) PROVE DelayTypeOK'
  BY <1>5, Zenon DEF AddNow, DelayTypeOK, callVars, loopVars
<1>6. CASE LoopTop
  BY <1>6 DEF LoopTop, DelayTypeOK, callVars, Due
<1>7. ASSUME NEW i \in Items, AddReady(i) PROVE DelayTypeOK'
  BY <1>7, Zenon DEF AddReady, LoopAdd, DelayTypeOK, callVars
<1>8. CASE SetTimer
  <2>1. nextReadyAt' \in Nat
    <3>1. Earliest(waiting) \in Due \cup {Never}
      BY EarliestFacts, Zenon DEF DelayTypeOK
    <3> QED BY <1>8, <3>1 DEF SetTimer, DelayTypeOK, Due
  <2> QED BY <1>8, <2>1 DEF SetTimer, DelayTypeOK, callVars, Due
<1>9. CASE SelectStop \/ Heartbeat \/ SelectTimer
  BY <1>9, Zenon DEF SelectStop, Heartbeat, SelectTimer, DelayTypeOK, callVars
<1>10. CASE Receive
  <2>1. /\ ch \in Seq(Entries) /\ ch # <<>> /\ ch' = Tail(ch) /\ Len(ch) <= ChanCap
    BY <1>10, Zenon DEF Receive, DelayTypeOK, Entries
  <2>2. ch' \in Seq(Entries) /\ Len(ch') <= ChanCap /\ Head(ch) \in Entries
    <3>1. Head(ch) \in Entries /\ Tail(ch) \in Seq(Entries) /\ Len(Tail(ch)) = Len(ch) - 1 /\ Len(ch) \in Nat
      BY <2>1, HeadTailProperties, LenProperties, Zenon
    <3> QED BY <2>1, <3>1, DelayAssumption
  <2>3. /\ waiting' \in [Items -> Due \cup {Never}] /\ owed' \in [Items -> Due \cup {Never}]
    BY <1>10, <2>2, ZenonT(40) DEF Receive, insert, LoopAdd, DelayTypeOK, Entries
  <2> QED BY <1>10, <2>2, <2>3, Zenon DEF Receive, DelayTypeOK, callVars, Entries
<1>11. CASE Drained
  BY <1>11, Zenon DEF Drained, DelayTypeOK, callVars
<1>12. CASE DelayingShutDown \/ CloseStopCh
  BY <1>12, Zenon DEF DelayingShutDown, CloseStopCh, DelayTypeOK, callVars, loopVars
<1>13. CASE Tick
  BY <1>13 DEF Tick, DelayTypeOK, callVars, loopVars, Due
<1>14. ASSUME NEW w \in Workers, Worker(w) PROVE DelayTypeOK'
  BY <1>14, Zenon DEF Worker, DelayTypeOK, callVars, loopVars
<1>15. CASE UNCHANGED delayVars
  BY <1>15, Zenon DEF delayVars, DelayTypeOK, callVars, loopVars
<1> QED BY <1>1, <1>3, <1>4, <1>5, <1>6, <1>7, <1>8, <1>9, <1>10, <1>11, <1>12, <1>13, <1>14, <1>15, Zenon
     DEF DelayNext, Finish, Loop

\* Item i waits, in the heap or in the channel, to be added at time t or before.
Waits(i, t) ==
  \/ waiting[i] <= t
  \/ \E n \in 1..Len(ch) : ch[n].data = i /\ ch[n].readyAt <= t

\* OwedIsWaiting in terms of the positions of the channel.
LEMMA OwedWaits ==
  /\ OwedIsWaiting <=> \A i \in Items : owed[i] # Never => Waits(i, owed[i])
  /\ OwedIsWaiting' <=> \A i \in Items : owed'[i] # Never => Waits(i, owed[i])'
<1>1. ASSUME NEW i, NEW t PROVE Waits(i, t) <=> \E u \in DueTimes(i) : u <= t
  BY Zenon DEF Waits, DueTimes
<1>2. ASSUME NEW i, NEW t PROVE Waits(i, t)' <=> (\E u \in DueTimes(i) : u <= t)'
  BY Zenon DEF Waits, DueTimes
<1>3. OwedIsWaiting <=> \A i \in Items : owed[i] # Never => Waits(i, owed[i])
  BY <1>1, Zenon DEF OwedIsWaiting
<1>4. OwedIsWaiting' <=> \A i \in Items : owed'[i] # Never => Waits(i, owed[i])'
  BY Zenon DEF OwedIsWaiting, Waits, DueTimes
<1> QED BY <1>3, <1>4, Zenon

\* A step never forgets or puts off what is owed.
LEMMA OwedNext ==
  ASSUME DelayTypeOK, OwedIsWaiting, [DelayNext]_delayVars
  PROVE  OwedIsWaiting'
<1> USE DelayNumbers
<1>0. \A i \in Items : owed[i] # Never => Waits(i, owed[i])
  BY OwedWaits, Zenon
<1> SUFFICES ASSUME NEW i \in Items, owed'[i] # Never PROVE Waits(i, owed[i])'
  BY OwedWaits, Zenon
<1>1. /\ ch \in Seq(Entries) /\ waiting \in [Items -> Due \cup {Never}]
      /\ owed \in [Items -> Due \cup {Never}]
      /\ Len(ch) \in Nat /\ \A n \in 1..Len(ch) : ch[n] \in Entries
  <2>1. ch \in Seq(Entries)
    BY Zenon DEF DelayTypeOK, Entries
  <2>2. Len(ch) \in Nat /\ \A n \in 1..Len(ch) : ch[n] \in Entries
    BY <2>1, LenProperties, ElementOfSeq, Zenon
  <2> QED BY <2>1, <2>2, Zenon DEF DelayTypeOK
<1>2. ASSUME UNCHANGED <<owed, waiting, ch>> PROVE Waits(i, owed[i])'
  BY <1>0, <1>2, Zenon DEF Waits
<1>3. ASSUME NEW c \in Callers, Send(c) PROVE Waits(i, owed[i])'
  <2> DEFINE e == entry[c]
  <2>1. e \in Entries /\ ch' = Append(ch, e) /\ waiting' = waiting
        /\ owed' = [owed EXCEPT ![e.data] = IF e.readyAt < @ THEN e.readyAt ELSE @]
    BY <1>3, Zenon DEF Send, DelayTypeOK, Entries, loopVars
  <2>2. /\ Len(ch') = Len(ch) + 1 /\ ch'[Len(ch) + 1] = e
        /\ \A n \in 1..Len(ch) : ch'[n] = ch[n]
    BY <1>1, <2>1, ChannelFacts
  <2> HIDE DEF e
  <2>3. CASE owed'[i] = owed[i]
    <3>1. Waits(i, owed[i])
      BY <1>0, <2>3, Zenon
    <3>2. CASE waiting[i] <= owed[i]
      BY <2>1, <2>3, <3>2, Zenon DEF Waits
    <3>3. ASSUME NEW n \in 1..Len(ch), ch[n].data = i, ch[n].readyAt <= owed[i]
          PROVE  Waits(i, owed[i])'
      <4>1. n \in 1..Len(ch') /\ ch'[n] = ch[n]
        BY <1>1, <2>2
      <4> QED BY <2>3, <3>3, <4>1, Zenon DEF Waits
    <3> QED BY <3>1, <3>2, <3>3, Zenon DEF Waits
  <2>4. CASE owed'[i] # owed[i]
    <3>1. e.data = i /\ owed'[i] = e.readyAt /\ e.readyAt \in Nat
      BY <1>1, <2>1, <2>4, Zenon DEF Entries
    <3>2. Len(ch) + 1 \in 1..Len(ch')
      BY <1>1, <2>2
    <3> QED BY <2>2, <3>1, <3>2 DEF Waits
  <2> QED BY <2>3, <2>4, Zenon
<1>4. ASSUME NEW j \in Items, AddReady(j) PROVE Waits(i, owed[i])'
  <2>1. i # j /\ owed'[i] = owed[i] /\ waiting'[i] = waiting[i] /\ ch' = ch
    BY <1>1, <1>4, Zenon DEF AddReady, LoopAdd
  <2> QED BY <1>0, <2>1, Zenon DEF Waits
<1>5. CASE Receive
  <2> DEFINE e == Head(ch)
  <2>1. /\ ch # <<>> /\ ch' = Tail(ch)
        /\ \/ insert(e) /\ UNCHANGED owed
           \/ owed' = [owed EXCEPT ![e.data] = Never] /\ UNCHANGED waiting
    BY <1>5, Zenon DEF Receive, LoopAdd
  <2>2. /\ e = ch[1] /\ e \in Entries /\ Len(ch') = Len(ch) - 1
        /\ \A n \in 1..Len(ch) - 1 : ch'[n] = ch[n + 1]
    <3>1. Len(ch) > 0 /\ 1 \in 1..Len(ch)
      BY <1>1, <2>1, EmptySeq
    <3>2. ch[1] \in Entries
      BY <1>1, <3>1, Zenon
    <3> QED BY <1>1, <2>1, <3>2, ChannelFacts, ZenonT(40)
  <2> HIDE DEF e
  <2>0. waiting[i] \in Nat /\ e.data \in Items /\ e.readyAt \in Nat
    BY <1>1, <2>2, Zenon DEF Entries
  <2>3. owed'[i] = owed[i] /\ waiting'[i] <= waiting[i]
        /\ (e.data = i => waiting'[i] <= e.readyAt)
    <3>1. CASE insert(e) /\ UNCHANGED owed
      <4>1. CASE e.data = i
        <5>1. waiting'[i] = IF e.readyAt < waiting[i] THEN e.readyAt ELSE waiting[i]
          BY <1>1, <3>1, <4>1, Zenon DEF insert
        <5> QED BY <2>0, <3>1, <5>1
      <4>2. CASE e.data # i
        <5>1. waiting'[i] = waiting[i]
          BY <1>1, <3>1, <4>2, Zenon DEF insert
        <5> QED BY <2>0, <3>1, <4>2, <5>1
      <4> QED BY <4>1, <4>2, Zenon
    <3>2. CASE owed' = [owed EXCEPT ![e.data] = Never] /\ UNCHANGED waiting
      <4>1. e.data # i /\ owed'[i] = owed[i]
        BY <1>1, <2>2, <3>2, Zenon DEF Entries
      <4> QED BY <2>0, <3>2, <4>1
    <3> QED BY <2>1, <3>1, <3>2, Zenon
  <2>4. waiting[i] \in Nat /\ waiting'[i] \in Nat /\ owed[i] \in Nat /\ e.readyAt \in Nat
    BY <1>1, <2>1, <2>2, ZenonT(40) DEF insert, Entries
  <2>5. CASE waiting[i] <= owed[i]
    BY <2>3, <2>4, <2>5 DEF Waits
  <2>6. ASSUME NEW n \in 1..Len(ch), ch[n].data = i, ch[n].readyAt <= owed[i]
        PROVE  Waits(i, owed[i])'
    <3>1. CASE n = 1
      BY <2>2, <2>3, <2>4, <2>6, <3>1 DEF Waits
    <3>2. CASE n # 1
      <4>1. n - 1 \in 1..Len(ch') /\ ch'[n - 1] = ch[n]
        BY <1>1, <2>2, <3>2
      <4> QED BY <2>3, <2>6, <4>1, Zenon DEF Waits
    <3> QED BY <3>1, <3>2, Zenon
  <2> QED BY <1>0, <2>3, <2>5, <2>6, Zenon DEF Waits
<1>6. \/ \E c \in Callers : Send(c)
      \/ \E j \in Items : AddReady(j)
      \/ Receive
      \/ UNCHANGED <<owed, waiting, ch>>
  BY Zenon DEF DelayNext, Finish, Loop, AddAfter, GiveUp, AddNow, LoopTop, SetTimer, SelectStop,
         SelectTimer, Heartbeat, Drained, DelayingShutDown, CloseStopCh, Tick, Worker,
         delayVars, loopVars
<1> QED BY <1>2, <1>3, <1>4, <1>5, <1>6, Zenon

\* The types of the delaying queue's state hold throughout.
THEOREM DelayTypeCorrect == DelaySpec => []DelayTypeOK
<1>1. DelayInit => DelayTypeOK
  <2> SUFFICES ASSUME DelayInit PROVE DelayTypeOK
    OBVIOUS
  <2>1. ch \in Seq([data : Items, readyAt : Due]) /\ Len(ch) <= ChanCap
    BY DelayAssumption DEF DelayInit
  <2>2. now \in Due /\ loopNow \in 0..now /\ nextReadyAt \in Nat
    BY DelayNumbers DEF DelayInit, Due
  <2> QED BY <2>1, <2>2, Zenon DEF DelayInit, DelayTypeOK
<1> QED BY <1>1, DelayTypeNext, PTL DEF DelaySpec

\* AddAfter and waitingLoop never forget an item or put it off.
THEOREM NothingIsPutOff == DelaySpec => []OwedIsWaiting
<1>1. DelayInit => OwedIsWaiting
  BY Zenon DEF DelayInit, OwedIsWaiting
<1> QED BY <1>1, DelayTypeCorrect, OwedNext, PTL DEF DelaySpec

\* The delaying queue uses the work queue as any client does.
LEMMA DelayStepIsWorkStep ==
  ASSUME DelayTypeOK, [DelayNext]_delayVars
  PROVE  [WorkNext]_workVars
<1>1. ASSUME NEW i \in Items, CallAdd(i) PROVE [WorkNext]_workVars
  BY <1>1, Zenon DEF CallAdd, WorkNext
<1>2. CASE Receive
  <2>1. ch # <<>> => Head(ch) \in [data : Items, readyAt : Due]
    BY HeadTailProperties, Zenon DEF DelayTypeOK
  <2>2. ch # <<>> => Head(ch).data \in Items
    BY <2>1, Zenon
  <2> QED BY <1>1, <1>2, <2>2, Zenon DEF Receive, LoopAdd
<1>3. ASSUME NEW i \in Items, AddNow(i) \/ AddReady(i) PROVE [WorkNext]_workVars
  BY <1>1, <1>3, Zenon DEF AddNow, AddReady, LoopAdd
<1>4. ASSUME NEW w \in Workers, Worker(w) PROVE [WorkNext]_workVars
  BY <1>4, Zenon DEF Worker, WorkNext
<1>5. CASE DelayingShutDown
  BY <1>5, Zenon DEF DelayingShutDown, WorkNext
<1>6. \/ Receive \/ DelayingShutDown
      \/ \E i \in Items : AddNow(i) \/ AddReady(i)
      \/ \E w \in Workers : Worker(w)
      \/ UNCHANGED workVars
  BY Zenon DEF DelayNext, Finish, Loop, AddAfter, Send, GiveUp, LoopTop, SetTimer, SelectStop,
         SelectTimer, Heartbeat, Drained, CloseStopCh, Tick, delayVars
<1> QED BY <1>2, <1>3, <1>4, <1>5, <1>6, Zenon

\* waitingLoop and the callers of AddAfter are ordinary clients of the queue
\* inside: every behaviour of the delaying queue is one of the work queue.
THEOREM DelayingQueueIsWorkQueue == DelaySpec => WorkInit /\ [][WorkNext]_workVars
<1>1. DelayInit => WorkInit
  BY Zenon DEF DelayInit
<1> QED
  BY <1>1, DelayTypeCorrect, DelayStepIsWorkStep, PTL DEF DelaySpec

\* Hence the queue inside keeps its promises: every item is queued once, none is
\* left behind, no worker sleeps over work, and the last one leaves no item.
THEOREM DelayingQueueKeepsOrder ==
  DelaySpec => [](QueueIsDirtyIdle /\ NoSleepOverWork /\ DrainedBeforeExit)
<1>1. WorkInv => QueueIsDirtyIdle /\ NoSleepOverWork /\ DrainedBeforeExit
  BY WorkInvDrains, Zenon DEF WorkInv
<1> QED
  BY <1>1, DelayingQueueIsWorkQueue, WorkInvInit, WorkInvNext, PTL

\* An item is worked on by one worker at a time, and stays marked when it is added again
\* meanwhile, also when AddAfter and the loop add it.
THEOREM DelayingQueueImplementsSet == DelaySpec => SetSafe
<1>1. WorkInit => Set!Init
  BY Zenon DEF WorkInit, Set!Init
<1> QED
  BY <1>1, WorkStepIsSetStep, DelayingQueueIsWorkQueue, WorkInvInit, WorkInvNext, PTL
  DEF SetSafe, Set!Safe

\* waitingLoop ends, and stopCh is closed, only during a shutdown: until then somebody
\* reads the channel that AddAfter sends to, and adds what is waiting.
THEOREM LoopStaysToRead == DelaySpec => [](lpc = "exit" \/ stopCh => shuttingDown)
<1> DEFINE Inv == lpc = "exit" \/ stopCh => shuttingDown
<1>1. DelayInit => Inv
  BY Zenon DEF DelayInit
<1>2. ASSUME Inv, [WorkNext]_workVars, [DelayNext]_delayVars PROVE Inv'
  <2>1. shuttingDown => shuttingDown'
    BY <1>2, Zenon DEF WorkNext, Add, Get, GetItem, GetWaits, GetShutdown, Done, ShutDown, workVars, queueVars
  <2>2. \/ lpc' = lpc \/ lpc' # "exit" \/ shuttingDown \/ stopCh
    BY <1>2, Zenon DEF DelayNext, AddAfter, Finish, Send, GiveUp, AddNow, Loop, LoopTop, AddReady, SetTimer,
       SelectStop, SelectTimer, Heartbeat, Receive, Drained, DelayingShutDown, CloseStopCh, Tick, Worker,
       delayVars, loopVars
  <2>3. stopCh' = stopCh \/ shuttingDown
    BY <1>2, Zenon DEF DelayNext, AddAfter, Finish, Send, GiveUp, AddNow, Loop, LoopTop, AddReady, SetTimer,
       SelectStop, SelectTimer, Heartbeat, Receive, Drained, DelayingShutDown, CloseStopCh, Tick, Worker,
       delayVars
  <2> QED BY <1>2, <2>1, <2>2, <2>3, Zenon
<1> QED BY <1>1, <1>2, DelayingQueueIsWorkQueue, PTL DEF DelaySpec
=============================================================================
