------------------------ MODULE SharedInformer_proofs ------------------------
(***************************************************************************)
(* Proofs about SharedInformer, for every set of listeners and keys, every *)
(* size of the ring, every number of versions, deltas and notifications.   *)
(***************************************************************************)
EXTENDS SharedInformer, TLAPS

-----------------------------------------------------------------------------
(* The ring *)

\* An index that has run over the end of the array by less than its length.
LEMMA Wraps ==
  ASSUME NEW n \in Nat \ {0}, NEW a \in 0 .. 2 * n - 1
  PROVE  /\ a < n => a % n = a
         /\ a >= n => a % n = a - n
         /\ a % n \in 0 .. n - 1
<1>1. CASE a < n
  BY <1>1
<1>2. CASE a >= n
  BY <1>2
<1> QED BY <1>1, <1>2

\* An index below another, by less than the length, is not wrapped to it.
LEMMA WrapsApart ==
  ASSUME NEW n \in Nat \ {0}, NEW beg \in 0 .. n - 1, NEW j \in 0 .. n - 1, NEW i \in 0 .. j - 1
  PROVE  /\ (beg + i) % n \in 0 .. n - 1
         /\ (beg + i) % n # (j + beg) % n
<1> DEFINE c == beg + i
           a == j + beg
<1>1. c \in 0 .. 2 * n - 1 /\ a \in 0 .. 2 * n - 1 /\ c < a /\ a - n < c
  OBVIOUS
<1> HIDE DEF a, c
<1>3. /\ a < n => a % n = a
      /\ a >= n => a % n = a - n
  BY <1>1, Wraps, Zenon
<1>4. /\ c < n => c % n = c
      /\ c >= n => c % n = c - n
      /\ c % n \in 0 .. n - 1
  BY <1>1, Wraps, Zenon
<1>5. c % n \in 0 .. n - 1 /\ c % n # a % n
  BY <1>1, <1>3, <1>4
<1> QED BY <1>5, Zenon DEF a, c

\* ReadOne removes the element 0 and moves the others forward.
LEMMA ReadOneFacts ==
  ASSUME NEW E, NEW r, RingOK(r, E), r.readable > 0
  PROVE  /\ RingOK(ReadOne(r), E) /\ ReadOne(r).readable = r.readable - 1
         /\ Element(r) = At(r, 0)
         /\ \A i \in 0 .. r.readable - 2 : At(ReadOne(r), i) = At(r, i + 1)
<1> DEFINE n == r.n
           beg == r.beg
           q == ReadOne(r)
<1>1. /\ n \in Nat \ {0} /\ beg \in 0 .. n - 1 /\ r.readable \in 1 .. n
      /\ r.data \in [0 .. n - 1 -> E \cup {Nil}]
  BY DEF RingOK
<1>2. /\ q.data = [r.data EXCEPT ![beg] = Nil] /\ q.n = n
      /\ q.beg = IF beg = n - 1 THEN 0 ELSE beg + 1
      /\ q.readable = r.readable - 1
  BY Zenon DEF ReadOne
<1>3. RingOK(q, E)
  BY <1>1, <1>2 DEF RingOK
<1>4. Element(r) = At(r, 0)
  <2>1. beg + 0 = beg /\ beg \in 0 .. 2 * n - 1 /\ beg < n
    BY <1>1
  <2>2. beg % n = beg
    BY <1>1, <2>1, Wraps, Zenon
  <2> QED BY <2>1, <2>2, Zenon DEF Element, At
<1>5. ASSUME NEW i \in 0 .. r.readable - 2 PROVE At(q, i) = At(r, i + 1)
  <2>1. i \in 0 .. n - 2
    BY <1>1
  <2>2. /\ (q.beg + i) % n = (beg + (i + 1)) % n
        /\ (q.beg + i) % n \in 0 .. n - 1 /\ (q.beg + i) % n # beg
    <3> DEFINE b == q.beg
    <3> HIDE DEF n, beg, q, b
    <3>1. n \in Nat \ {0} /\ beg \in 0 .. n - 1
      BY <1>1, Zenon
    <3>2. beg = n - 1 => b = 0
      BY <1>2, Zenon DEF b
    <3>3. beg # n - 1 => b = beg + 1
      BY <1>2, Zenon DEF b
    <3>4. /\ (b + i) % n = (beg + (i + 1)) % n
          /\ (b + i) % n \in 0 .. n - 1 /\ (b + i) % n # beg
      <4> DEFINE c == b + i
                 a == beg + (i + 1)
      <4>1. /\ c \in 0 .. 2 * n - 1 /\ a \in 0 .. 2 * n - 1 /\ a # beg /\ a - n < beg
            /\ beg = n - 1 => a >= n /\ c < n /\ c = a - n
            /\ beg # n - 1 => c = a
        BY <2>1, <3>1, <3>2, <3>3
      <4> HIDE DEF a, c
      <4>2. (a < n => a % n = a) /\ (a >= n => a % n = a - n) /\ a % n \in 0 .. n - 1
        BY <3>1, <4>1, Wraps, Zenon
      <4>3. (c < n => c % n = c) /\ (c >= n => c % n = c - n) /\ c % n \in 0 .. n - 1
        BY <3>1, <4>1, Wraps, Zenon
      <4>4. c % n = a % n /\ c % n \in 0 .. n - 1 /\ c % n # beg
        BY <3>1, <4>1, <4>2, <4>3
      <4> QED BY <4>4, Zenon DEF a, c
    <3> QED BY <3>4, Zenon DEF b
  <2> DEFINE p == (q.beg + i) % n
  <2> HIDE DEF p
  <2>3. q.data[p] = r.data[p]
    BY <1>1, <1>2, <2>2, Zenon DEF p
  <2> QED BY <1>2, <2>2, <2>3, Zenon DEF At, p
<1> QED BY <1>2, <1>3, <1>4, <1>5, Zenon

\* The ring that has doubled holds the same elements.
LEMMA GrowFacts ==
  ASSUME NEW E, NEW r, RingOK(r, E), r.readable = r.n
  PROVE  /\ RingOK(Grow(r), E) /\ Grow(r).readable = r.readable /\ Grow(r).readable < Grow(r).n
         /\ \A i \in 0 .. r.readable - 1 : At(Grow(r), i) = At(r, i)
<1> DEFINE n == r.n
           beg == r.beg
           q == Grow(r)
<1>1. /\ n \in Nat \ {0} /\ beg \in 0 .. n - 1 /\ r.readable = n
      /\ r.data \in [0 .. n - 1 -> E \cup {Nil}]
  BY Zenon DEF RingOK
<1>2. /\ q.data = [i \in 0 .. 2 * n - 1 |->
                     IF i < n - beg THEN r.data[beg + i]
                     ELSE IF i < n THEN r.data[i - (n - beg)] ELSE Nil]
      /\ q.n = 2 * n /\ q.beg = 0 /\ q.readable = n
  BY <1>1, Zenon DEF Grow
<1>3. q.data \in [0 .. 2 * n - 1 -> E \cup {Nil}]
  <2>1. ASSUME NEW i \in 0 .. 2 * n - 1
        PROVE  (IF i < n - beg THEN r.data[beg + i]
                ELSE IF i < n THEN r.data[i - (n - beg)] ELSE Nil) \in E \cup {Nil}
    <3>1. CASE i < n - beg
      <4>1. beg + i \in 0 .. n - 1
        BY <1>1, <3>1
      <4> QED BY <1>1, <3>1, <4>1, Zenon
    <3>2. CASE ~(i < n - beg) /\ i < n
      <4>1. i - (n - beg) \in 0 .. n - 1
        BY <1>1, <3>2
      <4> QED BY <1>1, <3>2, <4>1, Zenon
    <3>3. CASE ~(i < n - beg) /\ ~(i < n)
      BY <3>3, Zenon
    <3> QED BY <3>1, <3>2, <3>3, Zenon
  <2> QED BY <1>2, <2>1, Zenon
<1>4. RingOK(q, E)
  BY <1>1, <1>2, <1>3 DEF RingOK
<1>5. ASSUME NEW i \in 0 .. n - 1 PROVE At(q, i) = At(r, i)
  <2>1. beg + i \in 0 .. 2 * n - 1 /\ i \in 0 .. 2 * n - 1
    BY <1>1
  <2>2. (0 + i) % (2 * n) = i
    <3> DEFINE m == 2 * n
    <3>1. m \in Nat \ {0} /\ i \in 0 .. 2 * m - 1 /\ i < m /\ 0 + i = i
      BY <1>1
    <3> HIDE DEF m
    <3>2. i % m = i
      BY <3>1, Wraps, Zenon
    <3> QED BY <3>1, <3>2, Zenon DEF m
  <2> DEFINE a == beg + i
  <2>3. a \in 0 .. 2 * n - 1
    BY <2>1, Zenon
  <2> HIDE DEF a
  <2>4. q.data[i] = IF i < n - beg THEN r.data[beg + i] ELSE r.data[i - (n - beg)]
    <3> HIDE DEF q
    <3>1. i < n
      BY <1>1
    <3> QED BY <1>2, <2>1, <3>1, Zenon
  <2>5. CASE i < n - beg
    <3>1. a < n
      BY <1>1, <2>5 DEF a
    <3>2. a % n = a
      BY <1>1, <2>3, <3>1, Wraps, Zenon
    <3> QED BY <1>2, <2>2, <2>4, <2>5, <3>2, Zenon DEF At, a
  <2>6. CASE ~(i < n - beg)
    <3>1. a >= n /\ a - n = i - (n - beg)
      BY <1>1, <2>6 DEF a
    <3>2. a % n = a - n
      BY <1>1, <2>3, <3>1, Wraps, Zenon
    <3> QED BY <1>2, <2>2, <2>4, <2>6, <3>1, <3>2, Zenon DEF At, a
  <2> QED BY <2>5, <2>6, Zenon
<1> QED BY <1>1, <1>2, <1>4, <1>5

\* Put writes behind the last element of a ring that is not full.
LEMMA PutFacts ==
  ASSUME NEW E, NEW x \in E, NEW r, RingOK(r, E), r.readable < r.n
  PROVE  /\ RingOK(Put(r, x), E) /\ Put(r, x).readable = r.readable + 1
         /\ At(Put(r, x), r.readable) = x
         /\ \A i \in 0 .. r.readable - 1 : At(Put(r, x), i) = At(r, i)
<1> DEFINE n == r.n
           beg == r.beg
           q == Put(r, x)
           w == (r.readable + beg) % n
<1>1. /\ n \in Nat \ {0} /\ beg \in 0 .. n - 1 /\ r.readable \in 0 .. n - 1
      /\ r.data \in [0 .. n - 1 -> E \cup {Nil}]
  BY DEF RingOK
<1>2. /\ q.data = [r.data EXCEPT ![w] = x] /\ q.n = n /\ q.beg = beg
      /\ q.readable = r.readable + 1
  BY Zenon DEF Put
<1>3. r.readable + beg \in 0 .. 2 * n - 1
  BY <1>1
<1>4. w \in 0 .. n - 1
  BY <1>1, <1>3, Wraps, Zenon
<1> HIDE DEF w
<1>5. w = (beg + r.readable) % n
  <2>1. r.readable + beg = beg + r.readable
    BY <1>1
  <2> QED BY <2>1, Zenon DEF w
<1>9. RingOK(q, E)
  BY <1>1, <1>2, <1>4 DEF RingOK
<1>6. At(q, r.readable) = x
  <2>1. q.data[w] = x
    BY <1>1, <1>2, <1>4, Zenon
  <2> QED BY <1>2, <1>5, <2>1, Zenon DEF At
<1>7. ASSUME NEW i \in 0 .. r.readable - 1 PROVE At(q, i) = At(r, i)
  <2> DEFINE p == (beg + i) % n
  <2>1. p \in 0 .. n - 1 /\ p # w
    BY <1>1, WrapsApart, Zenon DEF w
  <2> HIDE DEF p
  <2>2. q.data[p] = r.data[p]
    BY <1>1, <1>2, <2>1, Zenon
  <2> QED BY <1>2, <2>2, Zenon DEF At, p
<1> QED BY <1>2, <1>6, <1>7, <1>9, Zenon

\* WriteOne adds one element behind the others, whether it grows or not.
LEMMA WriteOneFacts ==
  ASSUME NEW E, NEW x \in E, NEW r, RingOK(r, E)
  PROVE  /\ RingOK(WriteOne(r, x), E) /\ WriteOne(r, x).readable = r.readable + 1
         /\ At(WriteOne(r, x), r.readable) = x
         /\ \A i \in 0 .. r.readable - 1 : At(WriteOne(r, x), i) = At(r, i)
<1>1. CASE r.readable = r.n
  <2>1. WriteOne(r, x) = Put(Grow(r), x)
    BY <1>1, Zenon DEF WriteOne
  <2>2. /\ RingOK(Grow(r), E) /\ Grow(r).readable = r.readable /\ Grow(r).readable < Grow(r).n
        /\ \A i \in 0 .. r.readable - 1 : At(Grow(r), i) = At(r, i)
    BY <1>1, GrowFacts, Zenon
  <2>3. /\ RingOK(Put(Grow(r), x), E) /\ Put(Grow(r), x).readable = Grow(r).readable + 1
        /\ At(Put(Grow(r), x), Grow(r).readable) = x
        /\ \A i \in 0 .. Grow(r).readable - 1 : At(Put(Grow(r), x), i) = At(Grow(r), i)
    BY <2>2, PutFacts
  <2> QED BY <2>1, <2>2, <2>3, Zenon
<1>2. CASE r.readable # r.n
  <2>1. WriteOne(r, x) = Put(r, x)
    BY <1>2, Zenon DEF WriteOne
  <2>2. r.readable < r.n
    BY <1>2 DEF RingOK
  <2> QED BY <2>1, <2>2, PutFacts
<1> QED BY <1>1, <1>2, Zenon

-----------------------------------------------------------------------------
(* The inductive invariant *)

\* HandleDeltas has the lock blockDeltas while it works, AddEventHandler while it
\* adds and lists, and startedLock until it returns; what HandleDeltas is about
\* to send is what the store has; nobody joins or sends once Run has stopped.
LockInv ==
  /\ dpc = "idle" <=> blockDeltas # "deltas"
  /\ dpc # "idle" => runPC = "running" /\ key \in Keys
  /\ dpc \notin {"distribute", "send"} => note = Nil
  /\ dpc \in {"distribute", "send"} =>
       /\ note \in Notes /\ note.key = key /\ note.obj = store[key]
       /\ note.kind = "add" => note.old = Absent
  /\ dpc # "send" => targets = {}
  /\ stopped => startedLock = Nobody
  /\ stopped <=> runPC \in {"waiting", "done"}
  /\ started <=> runPC # "new"
  /\ runPC = "new" => \A k \in Keys : store[k] = Absent
  /\ processorPC \in {"closing", "done"} => stopped /\ addClosed = listeners
  /\ processorPC \notin {"closing", "done"} => addClosed = {}
  /\ \A l \in Listeners :
       /\ blockDeltas = l <=> joinPC[l] \in {"add", "list"}
       /\ startedLock = l <=> joinPC[l] \in {"block", "add", "list"}
       /\ l \in listeners <=> joinPC[l] \in {"list", "in"}
       /\ toList[l] # {} => joinPC[l] = "list"

\* A notification on its way is of an object no newer than the newest and, if
\* the store has one of its key, no newer than that.
NoteOK(n) ==
  /\ n \in Notes /\ n.obj <= version
  /\ store[n.key] = Absent \/ n.obj <= store[n.key]

\* The ring is used only while pop's variable is; the listeners that have not
\* been added are as they were made, and those that have not joined have missed
\* nothing.
ListenerOK(l) ==
  /\ next[l] = Nil => ring[l].readable = 0
  /\ \A i \in 0 .. Held(l) - 1 : NoteOK(Nth(l, i))
  /\ handling[l] # Nil => NoteOK(handling[l])
  /\ l \notin listeners => next[l] = Nil /\ handling[l] = Nil /\ \A k \in Keys : view[l][k] = Absent
  /\ joinPC[l] # "in" => missed[l] = {}

BufferInv ==
  /\ \A k \in Keys : store[k] <= version
  /\ \A l \in Listeners : ListenerOK(l)

\* What a listener has been told of k: nothing while k is still to be listed for
\* it, what the notification follows while it waits for one, and otherwise what
\* the store has.
Agree(l, k) ==
  IF k \in toList[l] THEN Told(l, k, Absent)
  ELSE IF Awaits(l, k) THEN \E v \in Versions : Told(l, k, v) /\ Follows(note, v)
  ELSE Told(l, k, store[k])

AgreeInv == \A l \in listeners \ addClosed, k \in Keys : k \notin missed[l] => Agree(l, k)

IInv == SharedTypeOK /\ LockInv /\ BufferInv /\ AgreeInv

-----------------------------------------------------------------------------
(* The locks *)

\* Each delta of the loop stores an object and makes a notification of it that
\* follows for those who know what the store had before.
LEMMA Notified ==
  ASSUME SharedTypeOK, LockInv, Change \/ Relist \/ Resync \/ Delete
  PROVE  \E o \in Versions, n \in Notes, sync \in BOOLEAN :
           /\ Notify(o, n, sync) /\ n.key = key /\ n.obj = o /\ (n.kind = "add" => n.old = Absent)
           /\ Follows(n, store[key])
           /\ version' \in Versions /\ version <= version'
           /\ o = Absent \/ o = version' \/ o = store[key]
<1>1. dpc = "next" => key \in Keys /\ store[key] \in Versions
  BY Zenon DEF LockInv, SharedTypeOK
<1>2. MaxVersion \in Nat /\ version \in Versions
  BY InformerAssumption, Zenon DEF SharedTypeOK
<1> DEFINE note2(o) == IF store[key] # Absent THEN updateNotification(key, store[key], o)
                                              ELSE addNotification(key, o)
<1>3. ASSUME NEW o \in Versions, o # Absent, key \in Keys, store[key] \in Versions
      PROVE  /\ note2(o) \in Notes /\ note2(o).key = key /\ note2(o).obj = o
             /\ note2(o).kind = "add" => note2(o).old = Absent
             /\ Follows(note2(o), store[key])
  <2>1. Absent \in Versions
    BY <1>2 DEF Versions, Absent
  <2>2. CASE store[key] # Absent
    <3>1. note2(o) = updateNotification(key, store[key], o)
      BY <2>2, Zenon
    <3> QED BY <1>3, <2>2, <3>1, Zenon DEF updateNotification, Notes, Follows
  <2>3. CASE store[key] = Absent
    <3>1. note2(o) = addNotification(key, o)
      BY <2>3, Zenon
    <3> QED BY <1>3, <2>1, <2>3, <3>1, Zenon DEF addNotification, Notes, Follows
  <2> QED BY <2>2, <2>3, Zenon
<1>4. ASSUME version < MaxVersion
      PROVE  version + 1 \in Versions /\ version + 1 # Absent /\ version <= version + 1
  BY <1>2, <1>4 DEF Versions, Absent
<1>5. CASE Change
  <2>1. dpc = "next" /\ version < MaxVersion /\ version' = version + 1 /\ Notify(version + 1, note2(version + 1), FALSE)
    BY <1>5, Zenon DEF Change, Upsert, Notify
  <2> HIDE DEF note2
  <2> QED BY <1>1, <1>3, <1>4, <2>1, Zenon
<1>6. CASE Relist
  <2>1. dpc = "next" /\ version < MaxVersion /\ version' = version + 1 /\ Notify(version + 1, note2(version + 1), TRUE)
    BY <1>6, Zenon DEF Relist, Upsert, Notify
  <2> HIDE DEF note2
  <2> QED BY <1>1, <1>3, <1>4, <2>1, Zenon
<1>7. version <= version
  BY <1>2 DEF Versions
<1>8. CASE Resync
  <2>1. dpc = "next" /\ store[key] # Absent /\ version' = version /\ Notify(store[key], note2(store[key]), TRUE)
    BY <1>8, Zenon DEF Resync, Upsert
  <2> HIDE DEF note2
  <2> QED BY <1>1, <1>2, <1>3, <1>7, <2>1, Zenon
<1>9. CASE Delete
  <2>1. dpc = "next" /\ store[key] # Absent /\ version' = version /\ Notify(Absent, deleteNotification(key), FALSE)
    BY <1>9, Zenon DEF Delete
  <2>2. Absent \in Versions
    BY <1>2 DEF Versions, Absent
  <2>3. /\ deleteNotification(key) \in Notes /\ deleteNotification(key).key = key
        /\ deleteNotification(key).obj = Absent /\ deleteNotification(key).kind = "delete"
    BY <1>1, <2>1, <2>2, Zenon DEF deleteNotification, Notes
  <2>4. Follows(deleteNotification(key), store[key]) /\ deleteNotification(key).kind # "add"
    BY <2>1, <2>3, Zenon DEF Follows
  <2> QED BY <1>2, <1>7, <2>1, <2>2, <2>3, <2>4, Zenon
<1> QED BY <1>5, <1>6, <1>8, <1>9, Zenon

\* The owners of a lock are not taken for each other.
LEMMA Owners == Nobody \notin Listeners /\ "deltas" \notin Listeners /\ "deltas" # Nobody
BY InformerAssumption

\* Every step keeps the locks with those who work under them.
LEMMA LockStep ==
  ASSUME SharedTypeOK, LockInv, [Next]_vars
  PROVE  LockInv'
<1>1. ASSUME NEW k \in Keys, HandleDeltas(k) PROVE LockInv'
  BY <1>1, InformerAssumption DEF LockInv, SharedTypeOK, HandleDeltas, runVars, processorVars, rwVars,
     joinVars, bufferVars, handlerVars
<1>2. CASE Change \/ Relist \/ Resync \/ Delete
  <2>1. PICK o \in Versions, n \in Notes, sync \in BOOLEAN :
          /\ Notify(o, n, sync) /\ n.key = key /\ n.obj = o /\ (n.kind = "add" => n.old = Absent)
          /\ Follows(n, store[key])
          /\ version' \in Versions /\ version <= version'
          /\ o = Absent \/ o = version' \/ o = store[key]
    BY <1>2, Notified, Zenon
  <2> QED BY <2>1, InformerAssumption DEF LockInv, SharedTypeOK, Notify, runVars, processorVars, joinVars
<1>3. CASE distribute
  BY <1>3, InformerAssumption, Zenon DEF LockInv, SharedTypeOK, distribute, runVars, processorVars,
     joinVars, bufferVars, handlerVars
<1>4. CASE Distributed
  BY <1>4, InformerAssumption, Zenon DEF LockInv, SharedTypeOK, Distributed, runVars, processorVars,
     joinVars, bufferVars, handlerVars
<1>5. CASE DeltasHandled
  BY <1>5, InformerAssumption DEF LockInv, SharedTypeOK, DeltasHandled, runVars, processorVars, rwVars,
     joinVars, bufferVars, handlerVars
<1>6. ASSUME NEW l \in Listeners, Send(l) PROVE LockInv'
  BY <1>6, InformerAssumption, Zenon DEF LockInv, SharedTypeOK, Send, add, runVars, processorVars, rwVars,
     joinVars, handlerVars
<1>7. ASSUME NEW l \in Listeners, AddEventHandler(l) PROVE LockInv'
  BY <1>7, InformerAssumption DEF LockInv, SharedTypeOK, AddEventHandler, addListenerLocked, deltaVars,
     runVars, processorVars, rwVars, bufferVars, handlerVars
<1>8. ASSUME NEW l \in Listeners, BlockDeltas(l) PROVE LockInv'
  BY <1>8, InformerAssumption DEF LockInv, SharedTypeOK, BlockDeltas, deltaVars, runVars, processorVars,
     rwVars, bufferVars, handlerVars
<1>9. ASSUME NEW l \in Listeners, addListener(l) PROVE LockInv'
  BY <1>9, InformerAssumption DEF LockInv, SharedTypeOK, addListener, addListenerLocked, deltaVars,
     runVars, rwVars, bufferVars, handlerVars
<1>10. ASSUME NEW l \in Listeners, NEW k \in Keys, AddItem(l, k) PROVE LockInv'
  BY <1>10, InformerAssumption, Zenon DEF LockInv, SharedTypeOK, AddItem, add, addNotification, deltaVars,
     runVars, processorVars, rwVars, handlerVars
<1>11. ASSUME NEW l \in Listeners, Joined(l) PROVE LockInv'
  BY <1>11, InformerAssumption DEF LockInv, SharedTypeOK, Joined, deltaVars, runVars, processorVars,
     rwVars, bufferVars, handlerVars
<1>12. CASE ResyncWaits
  BY <1>12, InformerAssumption, Zenon DEF LockInv, SharedTypeOK, ResyncWaits, deltaVars, runVars,
     processorVars, joinVars, bufferVars, handlerVars
<1>13. ASSUME NEW due \in SUBSET Listeners, shouldResync(due) PROVE LockInv'
  BY <1>13, InformerAssumption, Zenon DEF LockInv, SharedTypeOK, shouldResync, deltaVars, runVars,
     joinVars, bufferVars, handlerVars
<1>14. CASE Run
  BY <1>14, InformerAssumption, Zenon DEF LockInv, SharedTypeOK, Run, deltaVars, rwVars, joinVars,
     bufferVars, handlerVars
<1>15. CASE ControllerReturns
  BY <1>15, InformerAssumption, Zenon DEF LockInv, SharedTypeOK, ControllerReturns, deltaVars,
     processorVars, rwVars, joinVars, bufferVars, handlerVars
<1>16. CASE RunStops
  BY <1>16, InformerAssumption, Zenon DEF LockInv, SharedTypeOK, RunStops, deltaVars, processorVars,
     rwVars, joinVars, bufferVars, handlerVars
<1>17. CASE RunReturns
  BY <1>17, InformerAssumption, Zenon DEF LockInv, SharedTypeOK, RunReturns, deltaVars, processorVars,
     rwVars, joinVars, bufferVars, handlerVars
<1>18. CASE StartListeners
  BY <1>18, InformerAssumption, Zenon DEF LockInv, SharedTypeOK, StartListeners, deltaVars, runVars,
     rwVars, joinVars, bufferVars, handlerVars
<1>19. CASE CloseListeners
  BY <1>19, InformerAssumption, Zenon DEF LockInv, SharedTypeOK, CloseListeners, deltaVars, runVars,
     joinVars, bufferVars, handlerVars
<1>20. CASE ProcessorReturns
  BY <1>20, InformerAssumption, Zenon DEF LockInv, SharedTypeOK, ProcessorReturns, deltaVars, runVars,
     joinVars, bufferVars, handlerVars
<1>21. ASSUME NEW l \in Listeners, PopNext(l) PROVE LockInv'
  BY <1>21, InformerAssumption, Zenon DEF LockInv, SharedTypeOK, PopNext, deltaVars, runVars,
     processorVars, rwVars, joinVars
<1>22. ASSUME NEW l \in Listeners, PopReturns(l) PROVE LockInv'
  BY <1>22, InformerAssumption, Zenon DEF LockInv, SharedTypeOK, PopReturns, deltaVars, runVars,
     processorVars, rwVars, joinVars, handlerVars
<1>23. ASSUME NEW l \in Listeners, Handle(l) PROVE LockInv'
  BY <1>23, InformerAssumption, Zenon DEF LockInv, SharedTypeOK, Handle, deltaVars, runVars, processorVars,
     rwVars, joinVars, bufferVars
<1>24. ASSUME NEW l \in Listeners, ListenerReturns(l) PROVE LockInv'
  BY <1>24, InformerAssumption, Zenon DEF LockInv, SharedTypeOK, ListenerReturns, deltaVars, runVars,
     processorVars, rwVars, joinVars, bufferVars, handlerVars
<1>25. CASE UNCHANGED vars
  BY <1>25, InformerAssumption, Zenon DEF LockInv, SharedTypeOK, vars, deltaVars, runVars, processorVars,
     rwVars, joinVars, bufferVars, handlerVars
<1> QED BY <1>1, <1>2, <1>3, <1>4, <1>5, <1>6, <1>7, <1>8, <1>9, <1>10, <1>11, <1>12, <1>13, <1>14, <1>15,
           <1>16, <1>17, <1>18, <1>19, <1>20, <1>21, <1>22, <1>23, <1>24, <1>25, Zenon
     DEF Next, Deltas, Join, Resyncs, EndRun, Processor, Listen

-----------------------------------------------------------------------------
(* The types *)

\* What SharedTypeOK says of pop's variable and ring.
BufferTypeOK ==
  /\ next \in [Listeners -> Notes \cup {Nil}] /\ DOMAIN ring = Listeners
  /\ \A l \in Listeners : RingOK(ring[l], Notes)

\* add keeps every ring in order.
LEMMA AddKeepsType ==
  ASSUME SharedTypeOK, NEW l \in Listeners, NEW n \in Notes, add(l, n)
  PROVE  BufferTypeOK'
<1>1. RingOK(ring[l], Notes)
  BY Zenon DEF SharedTypeOK
<1>2. RingOK(WriteOne(ring[l], n), Notes)
  BY <1>1, WriteOneFacts, Zenon
<1>3. CASE next[l] = Nil
  BY <1>3 DEF add, BufferTypeOK, SharedTypeOK
<1>4. CASE next[l] # Nil
  <2>1. ring' = [ring EXCEPT ![l] = WriteOne(ring[l], n)] /\ UNCHANGED next
    BY <1>4, Zenon DEF add
  <2>2. DOMAIN ring' = Listeners /\ ring'[l] = WriteOne(ring[l], n)
    BY <2>1, Zenon DEF SharedTypeOK
  <2>3. \A m \in Listeners : m # l => ring'[m] = ring[m]
    BY <2>1, Zenon DEF SharedTypeOK
  <2>4. \A m \in Listeners : RingOK(ring'[m], Notes)
    BY <1>2, <2>2, <2>3, Zenon DEF SharedTypeOK
  <2> QED BY <2>1, <2>2, <2>4, Zenon DEF BufferTypeOK, SharedTypeOK
<1> QED BY <1>3, <1>4, Zenon

\* So does pop.
LEMMA PopKeepsType ==
  ASSUME SharedTypeOK, NEW l \in Listeners, PopNext(l)
  PROVE  BufferTypeOK'
<1>1. RingOK(ring[l], Notes)
  BY Zenon DEF SharedTypeOK
<1>2. CASE ring[l].readable = 0
  BY <1>2, Zenon DEF PopNext, BufferTypeOK, SharedTypeOK
<1>3. CASE ring[l].readable # 0
  <2>1. /\ next' = [next EXCEPT ![l] = Element(ring[l])]
        /\ ring' = [ring EXCEPT ![l] = ReadOne(ring[l])]
    BY <1>3, Zenon DEF PopNext
  <2>2. ring[l].readable > 0
    BY <1>1, <1>3 DEF RingOK
  <2>3. RingOK(ReadOne(ring[l]), Notes)
    BY <1>1, <2>2, ReadOneFacts, Zenon
  <2>4. Element(ring[l]) \in Notes \cup {Nil}
    BY <1>1, Zenon DEF RingOK, Element
  <2>5. next' \in [Listeners -> Notes \cup {Nil}]
    BY <2>1, <2>4, Zenon DEF SharedTypeOK
  <2>6. DOMAIN ring' = Listeners /\ ring'[l] = ReadOne(ring[l])
    BY <2>1, Zenon DEF SharedTypeOK
  <2>7. \A m \in Listeners : m # l => ring'[m] = ring[m]
    BY <2>1, Zenon DEF SharedTypeOK
  <2>8. \A m \in Listeners : RingOK(ring'[m], Notes)
    BY <2>3, <2>6, <2>7, Zenon DEF SharedTypeOK
  <2> QED BY <2>5, <2>6, <2>8, Zenon DEF BufferTypeOK
<1> QED BY <1>2, <1>3, Zenon

\* Every step keeps the types.
LEMMA TypeStep ==
  ASSUME SharedTypeOK, LockInv, [Next]_vars
  PROVE  SharedTypeOK'
<1>1. ASSUME NEW k \in Keys, HandleDeltas(k) PROVE SharedTypeOK'
  BY <1>1, InformerAssumption DEF LockInv, SharedTypeOK, HandleDeltas, runVars, processorVars, rwVars,
     joinVars, bufferVars, handlerVars
<1>2. CASE Change \/ Relist \/ Resync \/ Delete
  <2>1. PICK o \in Versions, n \in Notes, sync \in BOOLEAN :
          /\ Notify(o, n, sync) /\ n.key = key /\ n.obj = o /\ (n.kind = "add" => n.old = Absent)
          /\ Follows(n, store[key])
          /\ version' \in Versions /\ version <= version'
          /\ o = Absent \/ o = version' \/ o = store[key]
    BY <1>2, Notified, Zenon
  <2> QED BY <2>1, InformerAssumption DEF LockInv, SharedTypeOK, Notify, runVars, processorVars, rwVars,
             joinVars, bufferVars, handlerVars
<1>3. CASE distribute
  BY <1>3, InformerAssumption DEF LockInv, SharedTypeOK, distribute, runVars, processorVars, joinVars,
     bufferVars, handlerVars
<1>4. CASE Distributed
  BY <1>4, InformerAssumption, Zenon DEF LockInv, SharedTypeOK, Distributed, runVars, processorVars,
     joinVars, bufferVars, handlerVars
<1>5. CASE DeltasHandled
  BY <1>5, InformerAssumption DEF LockInv, SharedTypeOK, DeltasHandled, runVars, processorVars, rwVars,
     joinVars, bufferVars, handlerVars
<1>6. ASSUME NEW l \in Listeners, Send(l) PROVE SharedTypeOK'
  <2>1. note \in Notes
    BY <1>6, Zenon DEF LockInv, Send
  <2>2. add(l, note)
    BY <1>6, Zenon DEF Send
  <2>3. BufferTypeOK'
    BY <2>1, <2>2, AddKeepsType, Zenon
  <2> QED BY <1>6, <2>3, InformerAssumption, Zenon DEF LockInv, SharedTypeOK, BufferTypeOK, Send, runVars,
             processorVars, rwVars, joinVars, handlerVars
<1>7. ASSUME NEW l \in Listeners, AddEventHandler(l) PROVE SharedTypeOK'
  <2>1. /\ startedLock' \in Listeners \cup {Nobody}
        /\ joinPC' \in [Listeners -> {"out", "block", "add", "list", "in", "refused"}]
    BY <1>7, Zenon DEF SharedTypeOK, AddEventHandler
  <2>2. /\ listeners' \subseteq Listeners /\ listeners \subseteq listeners'
        /\ syncingListeners' \subseteq listeners'
        /\ listenersStarted' = listenersStarted /\ processorPC' = processorPC
    BY <1>7 DEF SharedTypeOK, AddEventHandler, addListenerLocked, processorVars
  <2>3. UNCHANGED <<deltaVars, blockDeltas, runVars, rwVars, toList, lpc, addClosed, bufferVars,
                    handlerVars, missed>>
    BY <1>7, Zenon DEF AddEventHandler
  <2>4. targets' \subseteq listeners'
    BY <2>2, <2>3 DEF SharedTypeOK, deltaVars
  <2> QED BY <2>1, <2>2, <2>3, <2>4 DEF SharedTypeOK, deltaVars, runVars, rwVars,
             bufferVars, handlerVars
<1>8. ASSUME NEW l \in Listeners, BlockDeltas(l) PROVE SharedTypeOK'
  BY <1>8, InformerAssumption, ZenonT(30) DEF LockInv, SharedTypeOK, BlockDeltas, deltaVars, runVars,
     processorVars, rwVars, bufferVars, handlerVars
<1>9. ASSUME NEW l \in Listeners, addListener(l) PROVE SharedTypeOK'
  <2>1. /\ joinPC' \in [Listeners -> {"out", "block", "add", "list", "in", "refused"}]
        /\ toList' \in [Listeners -> SUBSET Keys]
        /\ lpc' \in [Listeners -> {"off", "on", "stopping", "gone"}]
    BY <1>9 DEF SharedTypeOK, addListener
  <2>2. /\ listeners' \subseteq Listeners /\ listeners \subseteq listeners'
        /\ syncingListeners' \subseteq listeners'
    BY <1>9 DEF SharedTypeOK, addListener, addListenerLocked
  <2>3. UNCHANGED <<deltaVars, blockDeltas, runVars, startedLock, listenersStarted, processorPC, rwVars,
                    addClosed, bufferVars, handlerVars, missed>>
    BY <1>9, Zenon DEF addListener
  <2>4. targets' \subseteq listeners'
    BY <2>2, <2>3 DEF SharedTypeOK, deltaVars
  <2> QED BY <2>1, <2>2, <2>3, <2>4 DEF SharedTypeOK, deltaVars, runVars, rwVars,
             bufferVars, handlerVars
<1>10. ASSUME NEW l \in Listeners, NEW k \in Keys, AddItem(l, k) PROVE SharedTypeOK'
  <2>1. addNotification(k, store[k]) \in Notes
    BY InformerAssumption DEF SharedTypeOK, addNotification, Notes, Versions, Absent
  <2>2. add(l, addNotification(k, store[k]))
    BY <1>10, Zenon DEF AddItem
  <2>3. BufferTypeOK'
    BY <2>1, <2>2, AddKeepsType, Zenon
  <2> QED BY <1>10, <2>3, InformerAssumption, ZenonT(30) DEF LockInv, SharedTypeOK, BufferTypeOK, AddItem,
             deltaVars, runVars, processorVars, rwVars, handlerVars
<1>11. ASSUME NEW l \in Listeners, Joined(l) PROVE SharedTypeOK'
  BY <1>11, InformerAssumption DEF LockInv, SharedTypeOK, Joined, deltaVars, runVars, processorVars,
     rwVars, bufferVars, handlerVars
<1>12. CASE ResyncWaits
  BY <1>12, InformerAssumption, ZenonT(40) DEF LockInv, SharedTypeOK, ResyncWaits, deltaVars, runVars,
     processorVars, joinVars, bufferVars, handlerVars
<1>13. ASSUME NEW due \in SUBSET Listeners, shouldResync(due) PROVE SharedTypeOK'
  BY <1>13, InformerAssumption, ZenonT(40) DEF LockInv, SharedTypeOK, shouldResync, deltaVars, runVars,
     joinVars, bufferVars, handlerVars
<1>14. CASE Run
  BY <1>14, InformerAssumption, Zenon DEF LockInv, SharedTypeOK, Run, deltaVars, rwVars, joinVars,
     bufferVars, handlerVars
<1>15. CASE ControllerReturns
  BY <1>15, InformerAssumption, Zenon DEF LockInv, SharedTypeOK, ControllerReturns, deltaVars,
     processorVars, rwVars, joinVars, bufferVars, handlerVars
<1>16. CASE RunStops
  BY <1>16, InformerAssumption, Zenon DEF LockInv, SharedTypeOK, RunStops, deltaVars, processorVars,
     rwVars, joinVars, bufferVars, handlerVars
<1>17. CASE RunReturns
  BY <1>17, InformerAssumption, Zenon DEF LockInv, SharedTypeOK, RunReturns, deltaVars, processorVars,
     rwVars, joinVars, bufferVars, handlerVars
<1>18. CASE StartListeners
  BY <1>18, InformerAssumption, Zenon DEF LockInv, SharedTypeOK, StartListeners, deltaVars, runVars,
     rwVars, joinVars, bufferVars, handlerVars
<1>19. CASE CloseListeners
  BY <1>19, InformerAssumption, Zenon DEF LockInv, SharedTypeOK, CloseListeners, deltaVars, runVars,
     joinVars, bufferVars, handlerVars
<1>20. CASE ProcessorReturns
  BY <1>20, InformerAssumption, Zenon DEF LockInv, SharedTypeOK, ProcessorReturns, deltaVars, runVars,
     joinVars, bufferVars, handlerVars
<1>21. ASSUME NEW l \in Listeners, PopNext(l) PROVE SharedTypeOK'
  <2>1. BufferTypeOK'
    BY <1>21, PopKeepsType, Zenon
  <2>2. next[l] \in Notes
    BY <1>21, Zenon DEF SharedTypeOK, PopNext
  <2> QED BY <1>21, <2>1, <2>2 DEF SharedTypeOK, BufferTypeOK, PopNext, deltaVars, runVars, processorVars,
             rwVars, joinVars
<1>22. ASSUME NEW l \in Listeners, PopReturns(l) PROVE SharedTypeOK'
  <2>1. RingOK(NewRingGrowing(InitialSize), Notes)
    BY InformerAssumption DEF RingOK, NewRingGrowing, NewData
  <2> QED BY <1>22, <2>1 DEF SharedTypeOK, PopReturns, deltaVars, runVars, processorVars, rwVars, joinVars,
             handlerVars
<1>23. ASSUME NEW l \in Listeners, Handle(l) PROVE SharedTypeOK'
  <2>1. handling[l] \in Notes
    BY <1>23, Zenon DEF SharedTypeOK, Handle
  <2>2. handling[l].key \in Keys /\ handling[l].obj \in Versions
    BY <2>1, Zenon DEF Notes
  <2>3. view' \in [Listeners -> [Keys -> Versions]]
    BY <1>23, <2>2, Zenon DEF SharedTypeOK, Handle
  <2>4. handling' \in [Listeners -> Notes \cup {Nil}]
    BY <1>23, Zenon DEF SharedTypeOK, Handle
  <2> QED BY <1>23, <2>3, <2>4 DEF SharedTypeOK, Handle, deltaVars, runVars, processorVars, rwVars,
             joinVars, bufferVars
<1>24. ASSUME NEW l \in Listeners, ListenerReturns(l) PROVE SharedTypeOK'
  BY <1>24, InformerAssumption DEF LockInv, SharedTypeOK, ListenerReturns, deltaVars, runVars,
     processorVars, rwVars, joinVars, bufferVars, handlerVars
<1>25. CASE UNCHANGED vars
  BY <1>25, InformerAssumption DEF LockInv, SharedTypeOK, vars, deltaVars, runVars, processorVars, rwVars,
     joinVars, bufferVars, handlerVars
<1> QED BY <1>1, <1>2, <1>3, <1>4, <1>5, <1>6, <1>7, <1>8, <1>9, <1>10, <1>11, <1>12, <1>13, <1>14, <1>15,
           <1>16, <1>17, <1>18, <1>19, <1>20, <1>21, <1>22, <1>23, <1>24, <1>25, Zenon
     DEF Next, Deltas, Join, Resyncs, EndRun, Processor, Listen

-----------------------------------------------------------------------------
(* What pop holds *)

\* Neither pop's variable nor its ring changes.
Kept(m) == next'[m] = next[m] /\ ring'[m] = ring[m]

\* pop then holds the same notifications.
LEMMA KeptFacts ==
  ASSUME NEW m, Kept(m)
  PROVE  /\ Held(m)' = Held(m)
         /\ \A i : Nth(m, i)' = Nth(m, i)
BY Zenon DEF Kept, Held, Nth, At

\* The number of notifications that pop holds.
LEMMA HeldFacts ==
  ASSUME SharedTypeOK, NEW l \in Listeners
  PROVE  /\ Held(l) \in Nat /\ ring[l].readable \in Nat
         /\ next[l] # Nil => Held(l) = 1 + ring[l].readable
         /\ Held(l) > 0 <=> next[l] # Nil
<1>1. ring[l].readable \in Nat
  BY DEF SharedTypeOK, RingOK
<1> QED BY <1>1 DEF Held

\* add puts a notification behind those that pop holds.
LEMMA AddFacts ==
  ASSUME SharedTypeOK, NEW l \in Listeners, NEW n \in Notes, add(l, n),
         next[l] = Nil => ring[l].readable = 0
  PROVE  /\ Held(l)' = Held(l) + 1
         /\ next'[l] # Nil
         /\ \A i \in 0 .. Held(l) - 1 : Nth(l, i)' = Nth(l, i)
         /\ \A i : i = Held(l) => Nth(l, i)' = n
         /\ \A m \in Listeners : m # l => Kept(m)
<1>1. RingOK(ring[l], Notes) /\ n # Nil
  BY InformerAssumption, Zenon DEF SharedTypeOK
<1>2. CASE next[l] = Nil
  <2>1. next' = [next EXCEPT ![l] = n] /\ ring' = ring
    BY <1>2, Zenon DEF add
  <2>2. next'[l] = n /\ ring'[l].readable = 0 /\ Held(l) = 0
    BY <1>2, <2>1, Zenon DEF SharedTypeOK, Held
  <2>3. Held(l)' = 1
    BY <1>1, <2>2 DEF Held
  <2>4. \A m \in Listeners : m # l => Kept(m)
    BY <2>1, Zenon DEF SharedTypeOK, Kept
  <2>5. \A i : i = 0 => Nth(l, i)' = n
    BY <2>2, Zenon DEF Nth
  <2> QED BY <1>1, <2>2, <2>3, <2>4, <2>5
<1>3. CASE next[l] # Nil
  <2>1. next' = next /\ ring' = [ring EXCEPT ![l] = WriteOne(ring[l], n)]
    BY <1>3, Zenon DEF add
  <2>2. next'[l] = next[l] /\ ring'[l] = WriteOne(ring[l], n)
    BY <2>1, Zenon DEF SharedTypeOK
  <2>3. /\ WriteOne(ring[l], n).readable = ring[l].readable + 1
        /\ At(WriteOne(ring[l], n), ring[l].readable) = n
        /\ \A i \in 0 .. ring[l].readable - 1 : At(WriteOne(ring[l], n), i) = At(ring[l], i)
    BY <1>1, WriteOneFacts
  <2>4. ring[l].readable \in Nat /\ Held(l) = 1 + ring[l].readable
    BY <1>1, <1>3 DEF Held, RingOK
  <2>5. Held(l)' = Held(l) + 1
    BY <1>3, <2>2, <2>3, <2>4 DEF Held
  <2>6. ASSUME NEW i \in 0 .. Held(l) - 1 PROVE Nth(l, i)' = Nth(l, i)
    <3>1. CASE i = 0
      BY <2>2, <3>1, Zenon DEF Nth
    <3>2. CASE i # 0
      <4>1. i - 1 \in 0 .. ring[l].readable - 1
        BY <2>4, <3>2
      <4>2. At(WriteOne(ring[l], n), i - 1) = At(ring[l], i - 1)
        BY <2>3, <4>1, Zenon
      <4> QED BY <2>2, <3>2, <4>2, Zenon DEF Nth
    <3> QED BY <3>1, <3>2, Zenon
  <2>7. ASSUME NEW i, i = Held(l) PROVE Nth(l, i)' = n
    <3>1. i # 0 /\ i - 1 = ring[l].readable
      BY <2>4, <2>7
    <3> QED BY <2>2, <2>3, <3>1, Zenon DEF Nth
  <2>8. \A m \in Listeners : m # l => Kept(m)
    BY <2>1, Zenon DEF SharedTypeOK, Kept
  <2> QED BY <1>3, <2>2, <2>5, <2>6, <2>7, <2>8, Zenon
<1> QED BY <1>2, <1>3, Zenon

\* pop gives away the first notification that it holds.
LEMMA PopFacts ==
  ASSUME SharedTypeOK, NEW l \in Listeners, PopNext(l), ListenerOK(l)
  PROVE  /\ Held(l) > 0 /\ Held(l)' = Held(l) - 1
         /\ handling'[l] = Nth(l, 0)
         /\ next'[l] = Nil => ring'[l].readable = 0
         /\ \A i \in 0 .. Held(l) - 2 : Nth(l, i)' = Nth(l, i + 1)
         /\ \A m \in Listeners : m # l => Kept(m) /\ handling'[m] = handling[m]
<1>1. RingOK(ring[l], Notes) /\ next[l] # Nil
  BY Zenon DEF SharedTypeOK, PopNext
<1>2. ring[l].readable \in Nat /\ Held(l) = 1 + ring[l].readable
  BY <1>1 DEF RingOK, Held
<1>3. /\ handling'[l] = Nth(l, 0)
      /\ \A m \in Listeners : m # l => handling'[m] = handling[m]
  BY Zenon DEF SharedTypeOK, PopNext, Nth
<1>4. CASE ring[l].readable = 0
  <2>1. next' = [next EXCEPT ![l] = Nil] /\ ring' = ring
    BY <1>4, Zenon DEF PopNext
  <2>2. next'[l] = Nil /\ ring'[l].readable = 0
    BY <1>4, <2>1, Zenon DEF SharedTypeOK
  <2>3. Held(l)' = 0
    BY <2>2, Zenon DEF Held
  <2>4. \A m \in Listeners : m # l => Kept(m)
    BY <2>1, Zenon DEF SharedTypeOK, Kept
  <2> QED BY <1>2, <1>3, <1>4, <2>2, <2>3, <2>4
<1>5. CASE ring[l].readable # 0
  <2>1. /\ next' = [next EXCEPT ![l] = Element(ring[l])]
        /\ ring' = [ring EXCEPT ![l] = ReadOne(ring[l])]
    BY <1>5, Zenon DEF PopNext
  <2>2. next'[l] = Element(ring[l]) /\ ring'[l] = ReadOne(ring[l])
    BY <2>1, Zenon DEF SharedTypeOK
  <2>3. ring[l].readable > 0
    BY <1>2, <1>5
  <2>4. /\ ReadOne(ring[l]).readable = ring[l].readable - 1
        /\ Element(ring[l]) = At(ring[l], 0)
        /\ \A i \in 0 .. ring[l].readable - 2 : At(ReadOne(ring[l]), i) = At(ring[l], i + 1)
    BY <1>1, <2>3, ReadOneFacts, Zenon
  <2>5. Nth(l, 1) = At(ring[l], 0)
    BY DEF Nth
  <2>6. 1 \in 0 .. Held(l) - 1
    BY <1>2, <2>3
  <2>7. next'[l] # Nil
    <3>1. Nth(l, 1) \in Notes
      BY <2>6, Zenon DEF ListenerOK, NoteOK
    <3> QED BY <2>2, <2>4, <2>5, <3>1, InformerAssumption, Zenon
  <2>8. Held(l)' = Held(l) - 1
    BY <1>2, <2>2, <2>4, <2>7 DEF Held
  <2>9. ASSUME NEW i \in 0 .. Held(l) - 2 PROVE Nth(l, i)' = Nth(l, i + 1)
    <3>1. CASE i = 0
      BY <2>2, <2>4, <2>5, <3>1 DEF Nth
    <3>2. CASE i # 0
      <4>1. i - 1 \in 0 .. ring[l].readable - 2 /\ (i - 1) + 1 = (i + 1) - 1 /\ i + 1 # 0
        BY <1>2, <3>2
      <4>2. At(ReadOne(ring[l]), i - 1) = At(ring[l], (i + 1) - 1)
        BY <2>4, <4>1, Zenon
      <4> QED BY <2>2, <3>2, <4>1, <4>2, Zenon DEF Nth
    <3> QED BY <3>1, <3>2, Zenon
  <2>10. \A m \in Listeners : m # l => Kept(m)
    BY <2>1, Zenon DEF SharedTypeOK, Kept
  <2>11. Held(l) > 0
    BY <1>2
  <2> QED BY <1>3, <2>7, <2>8, <2>9, <2>10, <2>11, Zenon
<1> QED BY <1>4, <1>5, Zenon

-----------------------------------------------------------------------------
(* What the listeners hold *)

\* A listener that a step leaves alone is as before, if the notifications that
\* were in order still are.
LEMMA ListenerKept ==
  ASSUME NEW m \in Listeners, ListenerOK(m), Kept(m),
         handling'[m] = handling[m], view'[m] = view[m],
         m \in listeners => m \in listeners',
         joinPC'[m] # "in" => missed'[m] = {},
         \A x \in Notes : NoteOK(x) => x.obj <= version' /\ (store'[x.key] = Absent \/ x.obj <= store'[x.key])
  PROVE  ListenerOK(m)'
<1>1. Held(m)' = Held(m) /\ \A i : Nth(m, i)' = Nth(m, i)
  BY KeptFacts, Zenon
<1>2. ASSUME NEW i \in 0 .. Held(m)' - 1 PROVE NoteOK(Nth(m, i))'
  <2>1. NoteOK(Nth(m, i)) /\ Nth(m, i) \in Notes
    BY <1>1, <1>2, Zenon DEF ListenerOK, NoteOK
  <2> QED BY <1>1, <2>1, Zenon DEF NoteOK
<1>3. (handling[m] # Nil)' => NoteOK(handling[m])'
  BY Zenon DEF ListenerOK, NoteOK
<1>4. (next[m] = Nil)' => (ring[m].readable = 0)'
  BY Zenon DEF ListenerOK, Kept
<1>5. (m \notin listeners)' => (next[m] = Nil /\ handling[m] = Nil /\ \A k \in Keys : view[m][k] = Absent)'
  BY Zenon DEF ListenerOK, Kept
<1> QED BY <1>2, <1>3, <1>4, <1>5, Zenon DEF ListenerOK

\* So are all of them.
LEMMA BufferKept ==
  ASSUME BufferInv, UNCHANGED <<store, version, next, ring, handling, view>>, listeners \subseteq listeners',
         \A m \in Listeners : joinPC'[m] # "in" => missed'[m] = {}
  PROVE  BufferInv'
<1>1. \A x \in Notes : NoteOK(x) => x.obj <= version' /\ (store'[x.key] = Absent \/ x.obj <= store'[x.key])
  BY Zenon DEF NoteOK
<1>2. ASSUME NEW m \in Listeners PROVE ListenerOK(m)'
  BY <1>1, ListenerKept, Zenon DEF BufferInv, Kept
<1>3. \A k \in Keys : (store[k] <= version)'
  BY Zenon DEF BufferInv
<1> QED BY <1>2, <1>3, Zenon DEF BufferInv

\* A notification that is in order may be added.
LEMMA ListenerAdded ==
  ASSUME SharedTypeOK, BufferInv, NEW l \in Listeners, l \in listeners, NEW n, NoteOK(n), add(l, n),
         UNCHANGED <<store, version, handlerVars, listeners, joinPC>>,
         \A m \in Listeners : missed'[m] \subseteq missed[m] /\ (m # l => missed'[m] = missed[m])
  PROVE  BufferInv'
<1>1. n \in Notes /\ ListenerOK(l)
  BY Zenon DEF NoteOK, BufferInv
<1>2. /\ Held(l)' = Held(l) + 1
      /\ next'[l] # Nil
      /\ \A i \in 0 .. Held(l) - 1 : Nth(l, i)' = Nth(l, i)
      /\ \A i : i = Held(l) => Nth(l, i)' = n
      /\ \A m \in Listeners : m # l => Kept(m)
  <2>1. next[l] = Nil => ring[l].readable = 0
    BY <1>1, Zenon DEF ListenerOK
  <2> QED BY <1>1, <2>1, AddFacts, Zenon
<1>3. Held(l) \in Nat
  BY HeldFacts, Zenon
<1>4. ASSUME NEW i \in 0 .. Held(l)' - 1 PROVE NoteOK(Nth(l, i))'
  <2>1. i \in 0 .. Held(l) - 1 \/ i = Held(l)
    BY <1>2, <1>3
  <2>2. CASE i \in 0 .. Held(l) - 1
    BY <1>1, <1>2, <2>2, Zenon DEF ListenerOK, NoteOK
  <2>3. CASE i = Held(l)
    BY <1>2, <2>3, Zenon DEF NoteOK
  <2> QED BY <2>1, <2>2, <2>3, Zenon
<1>5. ListenerOK(l)'
  BY <1>1, <1>2, <1>4, Zenon DEF ListenerOK, NoteOK, handlerVars
<1>6. \A x \in Notes : NoteOK(x) => x.obj <= version' /\ (store'[x.key] = Absent \/ x.obj <= store'[x.key])
  BY Zenon DEF NoteOK
<1>7. ASSUME NEW m \in Listeners, m # l PROVE ListenerOK(m)'
  <2>1. joinPC'[m] # "in" => missed'[m] = {}
    BY <1>7, Zenon DEF BufferInv, ListenerOK
  <2> QED BY <1>2, <1>6, <1>7, <2>1, ListenerKept, Zenon DEF BufferInv, handlerVars
<1>8. \A k \in Keys : (store[k] <= version)'
  BY Zenon DEF BufferInv
<1> QED BY <1>5, <1>7, <1>8, Zenon DEF BufferInv

\* Every step keeps the buffers in order.
LEMMA BufferStep ==
  ASSUME SharedTypeOK, LockInv, BufferInv, [Next]_vars
  PROVE  BufferInv'
<1>1. ASSUME NEW k \in Keys, HandleDeltas(k) PROVE BufferInv'
  <2>1. /\ UNCHANGED <<store, version, bufferVars, handlerVars, missed>> /\ listeners \subseteq listeners'
        /\ \A m \in Listeners : joinPC[m] = "in" => joinPC'[m] = "in"
    BY <1>1, Zenon DEF SharedTypeOK, HandleDeltas, runVars, processorVars, rwVars, joinVars, bufferVars,
       handlerVars
  <2>2. \A m \in Listeners : joinPC'[m] # "in" => missed'[m] = {}
    BY <2>1, Zenon DEF BufferInv, ListenerOK
  <2> QED BY <2>1, <2>2, BufferKept, Zenon DEF bufferVars, handlerVars
<1>2. CASE Change \/ Relist \/ Resync \/ Delete
  <2>1. PICK o \in Versions, n \in Notes, sync \in BOOLEAN :
          /\ Notify(o, n, sync) /\ n.key = key /\ n.obj = o /\ (n.kind = "add" => n.old = Absent)
          /\ Follows(n, store[key])
          /\ version' \in Versions /\ version <= version'
          /\ o = Absent \/ o = version' \/ o = store[key]
    BY <1>2, Notified, Zenon
  <2>2. key \in Keys /\ MaxVersion \in Nat
    BY <2>1, InformerAssumption, Zenon DEF LockInv, Notify
  <2>3. store' = [store EXCEPT ![key] = o]
    BY <2>1, Zenon DEF Notify
  <2>4. store \in [Keys -> Versions] /\ version \in Versions /\ \A k \in Keys : store[k] <= version
    BY Zenon DEF SharedTypeOK, BufferInv
  <2>5. \A k \in Keys : store'[k] = IF k = key THEN o ELSE store[k]
    BY <2>3, <2>4, Zenon
  <2>6. ASSUME NEW k \in Keys PROVE store'[k] <= version'
    BY <2>1, <2>2, <2>4, <2>5 DEF Versions, Absent
  <2>7. ASSUME NEW x \in Notes, NoteOK(x)
        PROVE  x.obj <= version' /\ (store'[x.key] = Absent \/ x.obj <= store'[x.key])
    <3>1. x.key \in Keys /\ x.obj \in Versions /\ x.obj <= version /\ (store[x.key] = Absent \/ x.obj <= store[x.key])
      BY <2>7, Zenon DEF NoteOK, Notes
    <3>2. x.obj <= version'
      BY <2>1, <2>2, <2>4, <3>1 DEF Versions
    <3>3. CASE x.key # key
      BY <2>5, <3>1, <3>2, <3>3, Zenon
    <3>4. CASE x.key = key
      <4>1. store'[x.key] = o
        BY <2>5, <3>1, <3>4, Zenon
      <4> QED BY <2>1, <3>1, <3>2, <3>4, <4>1, Zenon
    <3> QED BY <3>3, <3>4, Zenon
  <2>8. UNCHANGED <<bufferVars, handlerVars, missed, listeners, joinPC>>
    BY <2>1, Zenon DEF Notify, processorVars, joinVars
  <2>9. ASSUME NEW m \in Listeners PROVE ListenerOK(m)'
    <3>1. joinPC'[m] # "in" => missed'[m] = {}
      BY <2>8, Zenon DEF BufferInv, ListenerOK
    <3>2. /\ ListenerOK(m) /\ (m \in listeners => m \in listeners')
          /\ Kept(m) /\ handling'[m] = handling[m] /\ view'[m] = view[m]
      BY <2>8, Zenon DEF BufferInv, Kept, bufferVars, handlerVars
    <3> QED BY <2>7, <3>1, <3>2, ListenerKept, Zenon
  <2> QED BY <2>6, <2>9, Zenon DEF BufferInv
<1>3. CASE distribute
  <2>1. UNCHANGED <<store, version, bufferVars, handlerVars, listeners, joinPC>>
    BY <1>3, Zenon DEF distribute, processorVars, joinVars
  <2>2. ASSUME NEW m \in Listeners PROVE joinPC'[m] # "in" => missed'[m] = {}
    <3>1. m \in listeners => joinPC[m] = "in"
      BY <1>3, InformerAssumption DEF distribute, LockInv, SharedTypeOK
    <3>2. missed'[m] = IF m \in listeners \ targets' /\ Changes(note) THEN missed[m] \cup {key} ELSE missed[m]
      BY <1>3, Zenon DEF distribute
    <3>3. joinPC[m] # "in" => missed[m] = {}
      BY Zenon DEF BufferInv, ListenerOK
    <3> QED BY <2>1, <3>1, <3>2, <3>3, Zenon
  <2> QED BY <2>1, <2>2, BufferKept, Zenon DEF bufferVars, handlerVars
<1>4. CASE Distributed
  <2>1. /\ UNCHANGED <<store, version, bufferVars, handlerVars, missed>> /\ listeners \subseteq listeners'
        /\ \A m \in Listeners : joinPC[m] = "in" => joinPC'[m] = "in"
    BY <1>4, Zenon DEF SharedTypeOK, Distributed, runVars, processorVars, joinVars, bufferVars, handlerVars
  <2>2. \A m \in Listeners : joinPC'[m] # "in" => missed'[m] = {}
    BY <2>1, Zenon DEF BufferInv, ListenerOK
  <2> QED BY <2>1, <2>2, BufferKept, Zenon DEF bufferVars, handlerVars
<1>5. CASE DeltasHandled
  <2>1. /\ UNCHANGED <<store, version, bufferVars, handlerVars, missed>> /\ listeners \subseteq listeners'
        /\ \A m \in Listeners : joinPC[m] = "in" => joinPC'[m] = "in"
    BY <1>5, Zenon DEF SharedTypeOK, DeltasHandled, runVars, processorVars, rwVars, joinVars, bufferVars,
       handlerVars
  <2>2. \A m \in Listeners : joinPC'[m] # "in" => missed'[m] = {}
    BY <2>1, Zenon DEF BufferInv, ListenerOK
  <2> QED BY <2>1, <2>2, BufferKept, Zenon DEF bufferVars, handlerVars
<1>6. ASSUME NEW l \in Listeners, Send(l) PROVE BufferInv'
  <2>1. NoteOK(note)
    <3>1. note \in Notes /\ note.key \in Keys /\ note.obj = store[note.key]
      BY <1>6, Zenon DEF LockInv, Send
    <3>2. store[note.key] <= version /\ store[note.key] <= store[note.key]
      BY <3>1 DEF SharedTypeOK, BufferInv, Versions
    <3> QED BY <3>1, <3>2, Zenon DEF NoteOK
  <2>2. add(l, note)
    BY <1>6, Zenon DEF Send
  <2>3. /\ UNCHANGED <<store, version, handlerVars, listeners, joinPC>>
        /\ missed' = [missed EXCEPT ![l] = @ \ {key}]
    BY <1>6, Zenon DEF Send, processorVars, joinVars
  <2>4. l \in listeners
    BY <1>6, Zenon DEF Send, SharedTypeOK
  <2>5. \A m \in Listeners : missed'[m] \subseteq missed[m] /\ (m # l => missed'[m] = missed[m])
    BY <2>3, Zenon DEF SharedTypeOK
  <2> QED BY <2>1, <2>2, <2>3, <2>4, <2>5, ListenerAdded, Zenon
<1>7. ASSUME NEW l \in Listeners, AddEventHandler(l) PROVE BufferInv'
  <2>1. /\ UNCHANGED <<store, version, bufferVars, handlerVars, missed>> /\ listeners \subseteq listeners'
        /\ \A m \in Listeners : joinPC[m] = "in" => joinPC'[m] = "in"
    BY <1>7, Zenon DEF SharedTypeOK, AddEventHandler, addListenerLocked, deltaVars, runVars, processorVars,
       rwVars, bufferVars, handlerVars
  <2>2. \A m \in Listeners : joinPC'[m] # "in" => missed'[m] = {}
    BY <2>1, Zenon DEF BufferInv, ListenerOK
  <2> QED BY <2>1, <2>2, BufferKept, Zenon DEF bufferVars, handlerVars
<1>8. ASSUME NEW l \in Listeners, BlockDeltas(l) PROVE BufferInv'
  <2>1. /\ UNCHANGED <<store, version, bufferVars, handlerVars, missed>> /\ listeners \subseteq listeners'
        /\ \A m \in Listeners : joinPC[m] = "in" => joinPC'[m] = "in"
    BY <1>8, Zenon DEF SharedTypeOK, BlockDeltas, deltaVars, runVars, processorVars, rwVars, bufferVars,
       handlerVars
  <2>2. \A m \in Listeners : joinPC'[m] # "in" => missed'[m] = {}
    BY <2>1, Zenon DEF BufferInv, ListenerOK
  <2> QED BY <2>1, <2>2, BufferKept, Zenon DEF bufferVars, handlerVars
<1>9. ASSUME NEW l \in Listeners, addListener(l) PROVE BufferInv'
  <2>1. /\ UNCHANGED <<store, version, bufferVars, handlerVars, missed>> /\ listeners \subseteq listeners'
        /\ \A m \in Listeners : joinPC[m] = "in" => joinPC'[m] = "in"
    BY <1>9, Zenon DEF SharedTypeOK, addListener, addListenerLocked, deltaVars, runVars, rwVars,
       bufferVars, handlerVars
  <2>2. \A m \in Listeners : joinPC'[m] # "in" => missed'[m] = {}
    BY <2>1, Zenon DEF BufferInv, ListenerOK
  <2> QED BY <2>1, <2>2, BufferKept, Zenon DEF bufferVars, handlerVars
<1>10. ASSUME NEW l \in Listeners, NEW k \in Keys, AddItem(l, k) PROVE BufferInv'
  <2>1. NoteOK(addNotification(k, store[k]))
    <3>1. Absent \in Versions /\ store[k] \in Versions /\ store[k] <= version /\ store[k] <= store[k]
      BY InformerAssumption DEF SharedTypeOK, BufferInv, Versions, Absent
    <3> QED BY <3>1, Zenon DEF NoteOK, addNotification, Notes
  <2>2. add(l, addNotification(k, store[k]))
    BY <1>10, Zenon DEF AddItem
  <2>3. UNCHANGED <<store, version, handlerVars, listeners, joinPC, missed>>
    BY <1>10, Zenon DEF AddItem, deltaVars, processorVars
  <2>4. l \in listeners
    BY <1>10, Zenon DEF AddItem, LockInv
  <2>5. \A m \in Listeners : missed'[m] \subseteq missed[m] /\ (m # l => missed'[m] = missed[m])
    BY <2>3, Zenon
  <2> QED BY <2>1, <2>2, <2>3, <2>4, <2>5, ListenerAdded, Zenon
<1>11. ASSUME NEW l \in Listeners, Joined(l) PROVE BufferInv'
  <2>1. /\ UNCHANGED <<store, version, bufferVars, handlerVars, missed>> /\ listeners \subseteq listeners'
        /\ \A m \in Listeners : joinPC[m] = "in" => joinPC'[m] = "in"
    BY <1>11, Zenon DEF SharedTypeOK, Joined, deltaVars, runVars, processorVars, rwVars, bufferVars,
       handlerVars
  <2>2. \A m \in Listeners : joinPC'[m] # "in" => missed'[m] = {}
    BY <2>1, Zenon DEF BufferInv, ListenerOK
  <2> QED BY <2>1, <2>2, BufferKept, Zenon DEF bufferVars, handlerVars
<1>12. CASE ResyncWaits
  <2>1. /\ UNCHANGED <<store, version, bufferVars, handlerVars, missed>> /\ listeners \subseteq listeners'
        /\ \A m \in Listeners : joinPC[m] = "in" => joinPC'[m] = "in"
    BY <1>12, Zenon DEF SharedTypeOK, ResyncWaits, deltaVars, runVars, processorVars, joinVars, bufferVars,
       handlerVars
  <2>2. \A m \in Listeners : joinPC'[m] # "in" => missed'[m] = {}
    BY <2>1, Zenon DEF BufferInv, ListenerOK
  <2> QED BY <2>1, <2>2, BufferKept, Zenon DEF bufferVars, handlerVars
<1>13. ASSUME NEW due \in SUBSET Listeners, shouldResync(due) PROVE BufferInv'
  <2>1. /\ UNCHANGED <<store, version, bufferVars, handlerVars, missed>> /\ listeners \subseteq listeners'
        /\ \A m \in Listeners : joinPC[m] = "in" => joinPC'[m] = "in"
    BY <1>13, Zenon DEF SharedTypeOK, shouldResync, deltaVars, runVars, joinVars, bufferVars, handlerVars
  <2>2. \A m \in Listeners : joinPC'[m] # "in" => missed'[m] = {}
    BY <2>1, Zenon DEF BufferInv, ListenerOK
  <2> QED BY <2>1, <2>2, BufferKept, Zenon DEF bufferVars, handlerVars
<1>14. CASE Run
  <2>1. /\ UNCHANGED <<store, version, bufferVars, handlerVars, missed>> /\ listeners \subseteq listeners'
        /\ \A m \in Listeners : joinPC[m] = "in" => joinPC'[m] = "in"
    BY <1>14, Zenon DEF SharedTypeOK, Run, deltaVars, rwVars, joinVars, bufferVars, handlerVars
  <2>2. \A m \in Listeners : joinPC'[m] # "in" => missed'[m] = {}
    BY <2>1, Zenon DEF BufferInv, ListenerOK
  <2> QED BY <2>1, <2>2, BufferKept, Zenon DEF bufferVars, handlerVars
<1>15. CASE ControllerReturns
  <2>1. /\ UNCHANGED <<store, version, bufferVars, handlerVars, missed>> /\ listeners \subseteq listeners'
        /\ \A m \in Listeners : joinPC[m] = "in" => joinPC'[m] = "in"
    BY <1>15, Zenon DEF SharedTypeOK, ControllerReturns, deltaVars, processorVars, rwVars, joinVars,
       bufferVars, handlerVars
  <2>2. \A m \in Listeners : joinPC'[m] # "in" => missed'[m] = {}
    BY <2>1, Zenon DEF BufferInv, ListenerOK
  <2> QED BY <2>1, <2>2, BufferKept, Zenon DEF bufferVars, handlerVars
<1>16. CASE RunStops
  <2>1. /\ UNCHANGED <<store, version, bufferVars, handlerVars, missed>> /\ listeners \subseteq listeners'
        /\ \A m \in Listeners : joinPC[m] = "in" => joinPC'[m] = "in"
    BY <1>16, Zenon DEF SharedTypeOK, RunStops, deltaVars, processorVars, rwVars, joinVars, bufferVars,
       handlerVars
  <2>2. \A m \in Listeners : joinPC'[m] # "in" => missed'[m] = {}
    BY <2>1, Zenon DEF BufferInv, ListenerOK
  <2> QED BY <2>1, <2>2, BufferKept, Zenon DEF bufferVars, handlerVars
<1>17. CASE RunReturns
  <2>1. /\ UNCHANGED <<store, version, bufferVars, handlerVars, missed>> /\ listeners \subseteq listeners'
        /\ \A m \in Listeners : joinPC[m] = "in" => joinPC'[m] = "in"
    BY <1>17, Zenon DEF SharedTypeOK, RunReturns, deltaVars, processorVars, rwVars, joinVars, bufferVars,
       handlerVars
  <2>2. \A m \in Listeners : joinPC'[m] # "in" => missed'[m] = {}
    BY <2>1, Zenon DEF BufferInv, ListenerOK
  <2> QED BY <2>1, <2>2, BufferKept, Zenon DEF bufferVars, handlerVars
<1>18. CASE StartListeners
  <2>1. /\ UNCHANGED <<store, version, bufferVars, handlerVars, missed>> /\ listeners \subseteq listeners'
        /\ \A m \in Listeners : joinPC[m] = "in" => joinPC'[m] = "in"
    BY <1>18, Zenon DEF SharedTypeOK, StartListeners, deltaVars, runVars, rwVars, joinVars, bufferVars,
       handlerVars
  <2>2. \A m \in Listeners : joinPC'[m] # "in" => missed'[m] = {}
    BY <2>1, Zenon DEF BufferInv, ListenerOK
  <2> QED BY <2>1, <2>2, BufferKept, Zenon DEF bufferVars, handlerVars
<1>19. CASE CloseListeners
  <2>1. /\ UNCHANGED <<store, version, bufferVars, handlerVars, missed>> /\ listeners \subseteq listeners'
        /\ \A m \in Listeners : joinPC[m] = "in" => joinPC'[m] = "in"
    BY <1>19, Zenon DEF SharedTypeOK, CloseListeners, deltaVars, runVars, joinVars, bufferVars, handlerVars
  <2>2. \A m \in Listeners : joinPC'[m] # "in" => missed'[m] = {}
    BY <2>1, Zenon DEF BufferInv, ListenerOK
  <2> QED BY <2>1, <2>2, BufferKept, Zenon DEF bufferVars, handlerVars
<1>20. CASE ProcessorReturns
  <2>1. /\ UNCHANGED <<store, version, bufferVars, handlerVars, missed>> /\ listeners \subseteq listeners'
        /\ \A m \in Listeners : joinPC[m] = "in" => joinPC'[m] = "in"
    BY <1>20, Zenon DEF SharedTypeOK, ProcessorReturns, deltaVars, runVars, joinVars, bufferVars,
       handlerVars
  <2>2. \A m \in Listeners : joinPC'[m] # "in" => missed'[m] = {}
    BY <2>1, Zenon DEF BufferInv, ListenerOK
  <2> QED BY <2>1, <2>2, BufferKept, Zenon DEF bufferVars, handlerVars
<1>21. ASSUME NEW l \in Listeners, PopNext(l) PROVE BufferInv'
  <2>1. ListenerOK(l)
    BY Zenon DEF BufferInv
  <2>2. /\ Held(l) > 0 /\ Held(l)' = Held(l) - 1
        /\ handling'[l] = Nth(l, 0)
        /\ next'[l] = Nil => ring'[l].readable = 0
        /\ \A j \in 0 .. Held(l) - 2 : Nth(l, j)' = Nth(l, j + 1)
        /\ \A m \in Listeners : m # l => Kept(m) /\ handling'[m] = handling[m]
    BY <1>21, <2>1, PopFacts, Zenon
  <2>3. UNCHANGED <<store, version, view, missed, listeners, joinPC>>
    BY <1>21, Zenon DEF PopNext, deltaVars, processorVars, joinVars
  <2>4. ASSUME NEW m \in Listeners, m # l PROVE ListenerOK(m)'
    <3>1. \A x \in Notes : NoteOK(x) => x.obj <= version' /\ (store'[x.key] = Absent \/ x.obj <= store'[x.key])
      BY <2>3, Zenon DEF NoteOK
    <3>2. joinPC'[m] # "in" => missed'[m] = {}
      BY <2>3, Zenon DEF BufferInv, ListenerOK
    <3>3. ListenerOK(m) /\ (m \in listeners => m \in listeners') /\ view'[m] = view[m]
      BY <2>3, Zenon DEF BufferInv
    <3> QED BY <2>2, <2>4, <3>1, <3>2, <3>3, ListenerKept, Zenon
  <2>5. Held(l) \in Nat
    BY HeldFacts, Zenon
  <2>6. ASSUME NEW j \in 0 .. Held(l)' - 1 PROVE NoteOK(Nth(l, j))'
    <3>1. j \in 0 .. Held(l) - 2 /\ j + 1 \in 0 .. Held(l) - 1
      BY <2>2, <2>5
    <3>2. NoteOK(Nth(l, j + 1)) /\ Nth(l, j)' = Nth(l, j + 1)
      BY <2>1, <2>2, <3>1, Zenon DEF ListenerOK
    <3> QED BY <2>3, <3>2, Zenon DEF NoteOK
  <2>7. NoteOK(handling[l])'
    <3>1. 0 \in 0 .. Held(l) - 1
      BY <2>2, <2>5
    <3>2. NoteOK(Nth(l, 0))
      BY <2>1, <3>1, Zenon DEF ListenerOK
    <3> QED BY <2>2, <2>3, <3>2, Zenon DEF NoteOK
  <2>8. l \in listeners
    BY <1>21, <2>1, Zenon DEF ListenerOK, PopNext
  <2>9. ListenerOK(l)'
    BY <2>1, <2>2, <2>3, <2>6, <2>7, <2>8, Zenon DEF ListenerOK
  <2>10. \A k \in Keys : (store[k] <= version)'
    BY <2>3, Zenon DEF BufferInv
  <2> QED BY <2>4, <2>9, <2>10, Zenon DEF BufferInv
<1>22. ASSUME NEW l \in Listeners, PopReturns(l) PROVE BufferInv'
  <2>1. ListenerOK(l)
    BY Zenon DEF BufferInv
  <2>2. UNCHANGED <<store, version, handlerVars, missed, listeners, joinPC>>
    BY <1>22, Zenon DEF PopReturns, deltaVars, processorVars, joinVars
  <2>3. next'[l] = Nil /\ ring'[l].readable = 0
    BY <1>22, Zenon DEF PopReturns, SharedTypeOK, NewRingGrowing
  <2>4. Held(l)' = 0
    BY <2>3, Zenon DEF Held
  <2>5. ListenerOK(l)'
    BY <2>1, <2>2, <2>3, <2>4 DEF ListenerOK, NoteOK, handlerVars
  <2>6. \A m \in Listeners : m # l => Kept(m)
    BY <1>22, Zenon DEF PopReturns, SharedTypeOK, Kept
  <2>7. \A m \in Listeners : m # l => handling'[m] = handling[m] /\ view'[m] = view[m]
    BY <2>2, Zenon DEF handlerVars
  <2>8. \A x \in Notes : NoteOK(x) => x.obj <= version' /\ (store'[x.key] = Absent \/ x.obj <= store'[x.key])
    BY <2>2, Zenon DEF NoteOK
  <2>9. ASSUME NEW m \in Listeners, m # l PROVE ListenerOK(m)'
    <3>1. joinPC'[m] # "in" => missed'[m] = {}
      BY <2>2, Zenon DEF BufferInv, ListenerOK
    <3>2. ListenerOK(m) /\ (m \in listeners => m \in listeners')
      BY <2>2, Zenon DEF BufferInv
    <3> QED BY <2>6, <2>7, <2>8, <2>9, <3>1, <3>2, ListenerKept, Zenon
  <2>10. \A k \in Keys : (store[k] <= version)'
    BY <2>2, Zenon DEF BufferInv
  <2> QED BY <2>5, <2>9, <2>10, Zenon DEF BufferInv
<1>23. ASSUME NEW l \in Listeners, Handle(l) PROVE BufferInv'
  <2>1. ListenerOK(l)
    BY Zenon DEF BufferInv
  <2>2. UNCHANGED <<store, version, bufferVars, missed, listeners, joinPC>>
    BY <1>23, Zenon DEF Handle, deltaVars, processorVars, joinVars
  <2>3. Kept(l) /\ handling'[l] = Nil
    BY <1>23, Zenon DEF Handle, SharedTypeOK, Kept, bufferVars
  <2>4. Held(l)' = Held(l) /\ \A j : Nth(l, j)' = Nth(l, j)
    BY <2>3, KeptFacts, Zenon
  <2>11. l \in listeners
    BY <1>23, <2>1, Zenon DEF ListenerOK, Handle
  <2>5. ListenerOK(l)'
    BY <2>1, <2>2, <2>3, <2>4, <2>11, Zenon DEF ListenerOK, NoteOK, bufferVars
  <2>6. \A m \in Listeners : m # l => Kept(m)
    BY <2>2, Zenon DEF Kept, bufferVars
  <2>7. \A m \in Listeners : m # l => handling'[m] = handling[m] /\ view'[m] = view[m]
    BY <1>23, Zenon DEF Handle, SharedTypeOK
  <2>8. \A x \in Notes : NoteOK(x) => x.obj <= version' /\ (store'[x.key] = Absent \/ x.obj <= store'[x.key])
    BY <2>2, Zenon DEF NoteOK
  <2>9. ASSUME NEW m \in Listeners, m # l PROVE ListenerOK(m)'
    <3>1. joinPC'[m] # "in" => missed'[m] = {}
      BY <2>2, Zenon DEF BufferInv, ListenerOK
    <3>2. ListenerOK(m) /\ (m \in listeners => m \in listeners')
      BY <2>2, Zenon DEF BufferInv
    <3> QED BY <2>6, <2>7, <2>8, <2>9, <3>1, <3>2, ListenerKept, Zenon
  <2>10. \A k \in Keys : (store[k] <= version)'
    BY <2>2, Zenon DEF BufferInv
  <2> QED BY <2>5, <2>9, <2>10, Zenon DEF BufferInv
<1>24. ASSUME NEW l \in Listeners, ListenerReturns(l) PROVE BufferInv'
  <2>1. /\ UNCHANGED <<store, version, bufferVars, handlerVars, missed>> /\ listeners \subseteq listeners'
        /\ \A m \in Listeners : joinPC[m] = "in" => joinPC'[m] = "in"
    BY <1>24, Zenon DEF SharedTypeOK, ListenerReturns, deltaVars, runVars, processorVars, rwVars, joinVars,
       bufferVars, handlerVars
  <2>2. \A m \in Listeners : joinPC'[m] # "in" => missed'[m] = {}
    BY <2>1, Zenon DEF BufferInv, ListenerOK
  <2> QED BY <2>1, <2>2, BufferKept, Zenon DEF bufferVars, handlerVars
<1>25. CASE UNCHANGED vars
  <2>1. /\ UNCHANGED <<store, version, bufferVars, handlerVars, missed>> /\ listeners \subseteq listeners'
        /\ \A m \in Listeners : joinPC[m] = "in" => joinPC'[m] = "in"
    BY <1>25, Zenon DEF SharedTypeOK, vars, deltaVars, runVars, processorVars, rwVars, joinVars,
       bufferVars, handlerVars
  <2>2. \A m \in Listeners : joinPC'[m] # "in" => missed'[m] = {}
    BY <2>1, Zenon DEF BufferInv, ListenerOK
  <2> QED BY <2>1, <2>2, BufferKept, Zenon DEF bufferVars, handlerVars
<1> QED BY <1>1, <1>2, <1>3, <1>4, <1>5, <1>6, <1>7, <1>8, <1>9, <1>10, <1>11, <1>12, <1>13, <1>14, <1>15,
           <1>16, <1>17, <1>18, <1>19, <1>20, <1>21, <1>22, <1>23, <1>24, <1>25, Zenon
     DEF Next, Deltas, Join, Resyncs, EndRun, Processor, Listen

-----------------------------------------------------------------------------
(* What the listeners have been told *)

\* A listener that a step leaves alone has been told the same.
LEMMA ToldKept ==
  ASSUME NEW m, Kept(m), handling'[m] = handling[m], view'[m] = view[m], NEW k, NEW v, Told(m, k, v)
  PROVE  Told(m, k, v)'
<1>1. Held(m)' = Held(m) /\ \A i : Nth(m, i)' = Nth(m, i)
  BY KeptFacts, Zenon
<1> QED BY <1>1, Zenon DEF Told

\* A listener that has not been added has been told nothing.
LEMMA ToldFresh ==
  ASSUME NEW l \in Listeners, ListenerOK(l), l \notin listeners, NEW k \in Keys
  PROVE  Told(l, k, Absent)
<1>1. Held(l) = 0 /\ handling[l] = Nil /\ view[l][k] = Absent
  BY Zenon DEF ListenerOK, Held
<1> QED BY <1>1 DEF Told

\* The notification that is added is the last of its key, and of no other.
LEMMA ToldAdded ==
  ASSUME SharedTypeOK, NEW l \in Listeners, ListenerOK(l), NEW n \in Notes, add(l, n),
         UNCHANGED handlerVars
  PROVE  \A k, v : /\ k = n.key /\ v = n.obj => Told(l, k, v)'
                   /\ k # n.key /\ Told(l, k, v) => Told(l, k, v)'
<1>1. /\ Held(l)' = Held(l) + 1
      /\ \A i \in 0 .. Held(l) - 1 : Nth(l, i)' = Nth(l, i)
      /\ \A i : i = Held(l) => Nth(l, i)' = n
  <2>1. next[l] = Nil => ring[l].readable = 0
    BY Zenon DEF ListenerOK
  <2> QED BY <2>1, AddFacts, Zenon
<1>2. Held(l) \in Nat
  BY HeldFacts, Zenon
<1>3. ASSUME NEW k, NEW v, k = n.key, v = n.obj PROVE Told(l, k, v)'
  <2>1. \E i \in 0 .. Held(l)' - 1 :
          /\ Nth(l, i)' = n
          /\ \A j \in i + 1 .. Held(l)' - 1 : Nth(l, j)'.key # n.key
    <3>1. Held(l) \in 0 .. Held(l)' - 1 /\ \A j \in Held(l) + 1 .. Held(l)' - 1 : FALSE
      BY <1>1, <1>2
    <3> QED BY <1>1, <3>1, Zenon
  <2> QED BY <1>3, <2>1, Zenon DEF Told
<1>4. ASSUME NEW k, NEW v, k # n.key, Told(l, k, v) PROVE Told(l, k, v)'
  <2>1. \A j \in 0 .. Held(l)' - 1 : j \in 0 .. Held(l) - 1 \/ j = Held(l)
    BY <1>1, <1>2
  <2>2. CASE \A j \in 0 .. Held(l) - 1 : Nth(l, j).key # k
    <3>1. IF handling[l] # Nil /\ handling[l].key = k THEN handling[l].obj = v ELSE view[l][k] = v
      BY <1>4, <2>2, Zenon DEF Told
    <3>2. \A j \in 0 .. Held(l)' - 1 : Nth(l, j)'.key # k
      BY <1>1, <1>4, <2>1, <2>2, Zenon
    <3> QED BY <3>1, <3>2, Zenon DEF Told, handlerVars
  <2>3. CASE \E i \in 0 .. Held(l) - 1 :
               /\ Nth(l, i).key = k /\ Nth(l, i).obj = v
               /\ \A j \in i + 1 .. Held(l) - 1 : Nth(l, j).key # k
    <3>1. PICK i \in 0 .. Held(l) - 1 :
                 /\ Nth(l, i).key = k /\ Nth(l, i).obj = v
                 /\ \A j \in i + 1 .. Held(l) - 1 : Nth(l, j).key # k
      BY <2>3, Zenon
    <3>2. i \in 0 .. Held(l)' - 1 /\ Nth(l, i)' = Nth(l, i)
      BY <1>1, <1>2
    <3>3. ASSUME NEW j \in i + 1 .. Held(l)' - 1 PROVE Nth(l, j)'.key # k
      <4>1. (j \in i + 1 .. Held(l) - 1 /\ j \in 0 .. Held(l) - 1) \/ j = Held(l)
        BY <1>1, <1>2
      <4> QED BY <1>1, <1>4, <3>1, <4>1, Zenon
    <3> QED BY <3>1, <3>2, <3>3, Zenon DEF Told
  <2> QED BY <1>4, <2>2, <2>3, Zenon DEF Told
<1> QED BY <1>3, <1>4, Zenon

\* pop's dispatch does not change what a listener has been told.
LEMMA ToldPopped ==
  ASSUME SharedTypeOK, NEW l \in Listeners, ListenerOK(l), PopNext(l), NEW k, NEW v, Told(l, k, v)
  PROVE  Told(l, k, v)'
<1>1. /\ Held(l) > 0 /\ Held(l)' = Held(l) - 1
      /\ handling'[l] = Nth(l, 0)
      /\ \A i \in 0 .. Held(l) - 2 : Nth(l, i)' = Nth(l, i + 1)
  BY PopFacts, Zenon
<1>2. Held(l) \in Nat
  BY HeldFacts, Zenon
<1>3. 0 \in 0 .. Held(l) - 1 /\ handling[l] = Nil /\ view' = view
  BY <1>1, <1>2 DEF PopNext
<1>4. handling'[l] # Nil
  <2>1. Nth(l, 0) \in Notes
    BY <1>3, Zenon DEF ListenerOK, NoteOK
  <2> QED BY <1>1, <2>1, InformerAssumption, Zenon
<1>5. ASSUME NEW i \in 0 .. Held(l) - 1, \A j \in i + 1 .. Held(l) - 1 : Nth(l, j).key # k
      PROVE  \A j \in 0 .. Held(l)' - 1 : j >= i => Nth(l, j)'.key # k
  <2>1. ASSUME NEW j \in 0 .. Held(l)' - 1, j >= i PROVE Nth(l, j)'.key # k
    <3>1. j \in 0 .. Held(l) - 2 /\ j + 1 \in i + 1 .. Held(l) - 1
      BY <1>1, <1>2, <2>1
    <3> QED BY <1>1, <1>5, <3>1, Zenon
  <2> QED BY <2>1, Zenon
<1>6. CASE \A j \in 0 .. Held(l) - 1 : Nth(l, j).key # k
  <2>1. view[l][k] = v
    BY <1>3, <1>6, Zenon DEF Told
  <2>2. handling'[l].key # k
    BY <1>1, <1>3, <1>6, Zenon
  <2>3. \A j \in 0 .. Held(l)' - 1 : Nth(l, j)'.key # k
    <3>1. \A j \in 0 + 1 .. Held(l) - 1 : Nth(l, j).key # k
      BY <1>2, <1>6
    <3>2. \A j \in 0 .. Held(l)' - 1 : j >= 0
      BY <1>1, <1>2
    <3> QED BY <1>3, <1>5, <3>1, <3>2, Zenon
  <2> QED BY <1>3, <2>1, <2>2, <2>3, Zenon DEF Told
<1>7. CASE \E i \in 0 .. Held(l) - 1 :
             /\ Nth(l, i).key = k /\ Nth(l, i).obj = v
             /\ \A j \in i + 1 .. Held(l) - 1 : Nth(l, j).key # k
  <2>1. PICK i \in 0 .. Held(l) - 1 :
               /\ Nth(l, i).key = k /\ Nth(l, i).obj = v
               /\ \A j \in i + 1 .. Held(l) - 1 : Nth(l, j).key # k
    BY <1>7, Zenon
  <2>2. \A j \in 0 .. Held(l)' - 1 : j >= i => Nth(l, j)'.key # k
    BY <1>5, <2>1, Zenon
  <2>3. CASE i = 0
    <3>1. \A j \in 0 .. Held(l)' - 1 : Nth(l, j)'.key # k
      BY <2>2, <2>3
    <3> QED BY <1>1, <1>4, <2>1, <2>3, <3>1, Zenon DEF Told
  <2>4. CASE i # 0
    <3>1. i - 1 \in 0 .. Held(l) - 2 /\ i - 1 \in 0 .. Held(l)' - 1 /\ (i - 1) + 1 = i
      BY <1>1, <1>2, <2>4
    <3>2. Nth(l, i - 1)' = Nth(l, i)
      BY <1>1, <3>1, Zenon
    <3>3. \A j \in (i - 1) + 1 .. Held(l)' - 1 : Nth(l, j)'.key # k
      BY <1>1, <1>2, <2>2, <3>1
    <3> QED BY <2>1, <3>1, <3>2, <3>3, Zenon DEF Told
  <2> QED BY <2>3, <2>4, Zenon
<1> QED BY <1>6, <1>7, Zenon DEF Told

\* Nor does the handler.
LEMMA ToldHandled ==
  ASSUME SharedTypeOK, NEW l \in Listeners, Handle(l), NEW k \in Keys, NEW v, Told(l, k, v)
  PROVE  Told(l, k, v)'
<1>1. Kept(l)
  BY Zenon DEF Handle, Kept, bufferVars
<1>2. Held(l)' = Held(l) /\ \A i : Nth(l, i)' = Nth(l, i)
  BY <1>1, KeptFacts, Zenon
<1>3. handling[l] # Nil /\ handling[l].key \in Keys /\ handling'[l] = Nil
  BY Zenon DEF Handle, SharedTypeOK, Notes
<1>4. view'[l][k] = IF handling[l].key = k THEN handling[l].obj ELSE view[l][k]
  BY <1>3, Zenon DEF Handle, SharedTypeOK
<1> QED BY <1>2, <1>3, <1>4, Zenon DEF Told

-----------------------------------------------------------------------------
(* The listeners agree with the cache *)

\* v is what Agree says that m has been told of k.
Says(m, k, v) ==
  /\ Told(m, k, v)
  /\ k \in toList[m] => v = Absent
  /\ k \notin toList[m] /\ Awaits(m, k) => Follows(note, v)
  /\ k \notin toList[m] /\ ~Awaits(m, k) => v = store[k]

\* Agree says something of every key, before a step and after it.
LEMMA AgreeElim ==
  ASSUME SharedTypeOK, NEW m, NEW k \in Keys, Agree(m, k)
  PROVE  \E v \in Versions : Says(m, k, v)
<1>1. Absent \in Versions /\ store[k] \in Versions
  BY InformerAssumption DEF SharedTypeOK, Versions, Absent
<1> QED BY <1>1, Zenon DEF Agree, Says

\* What a listener has been told after a step makes it agree.
LEMMA AgreeIntro ==
  ASSUME NEW m, NEW k, NEW v \in Versions, Told(m, k, v)',
         k \in toList'[m] => v = Absent,
         k \notin toList'[m] /\ Awaits(m, k)' => Follows(note', v),
         k \notin toList'[m] /\ ~Awaits(m, k)' => v = store'[k]
  PROVE  Agree(m, k)'
<1>1. CASE k \in toList'[m]
  BY <1>1, Zenon DEF Agree
<1>2. CASE k \notin toList'[m] /\ Awaits(m, k)'
  BY <1>2, Zenon DEF Agree, Follows
<1>3. CASE k \notin toList'[m] /\ ~Awaits(m, k)'
  <2>1. Told(m, k, store[k])'
    BY <1>3, Zenon DEF Told
  <2> QED BY <1>3, <2>1, Zenon DEF Agree
<1> QED BY <1>1, <1>2, <1>3, Zenon

\* A step that changes neither the store nor what is to be sent, and that does
\* not make a listener forget what it has been told.
LEMMA AgreeKept ==
  ASSUME SharedTypeOK, AgreeInv, UNCHANGED <<store, toList>>,
         \A m \in Listeners, k \in Keys : (Awaits(m, k)' <=> Awaits(m, k)) /\ (Awaits(m, k) => note' = note),
         \A m \in listeners' \ addClosed' :
           /\ m \in listeners \ addClosed /\ missed'[m] = missed[m]
           /\ \A k \in Keys, v \in Versions : Told(m, k, v) => Told(m, k, v)'
  PROVE  AgreeInv'
<1>1. ASSUME NEW m \in listeners' \ addClosed', NEW k \in Keys, k \notin missed'[m] PROVE Agree(m, k)'
  <2>1. m \in Listeners /\ m \in listeners \ addClosed /\ k \notin missed[m]
    BY <1>1, Zenon DEF SharedTypeOK
  <2>2. PICK v \in Versions : Says(m, k, v)
    BY <2>1, AgreeElim, Zenon DEF AgreeInv
  <2>3. Told(m, k, v)'
    BY <1>1, <2>2, Zenon DEF Says
  <2>4. Follows(note, v) /\ note' = note => Follows(note', v)
    BY Zenon
  <2> QED BY <2>1, <2>2, <2>3, <2>4, AgreeIntro, Zenon DEF Says
<1> QED BY <1>1, Zenon DEF AgreeInv

\* A step that does not touch what the listeners hold and know.
LEMMA AgreeQuiet ==
  ASSUME SharedTypeOK, AgreeInv, UNCHANGED <<store, toList, next, ring, handling, view, missed>>,
         \A m \in Listeners, k \in Keys : (Awaits(m, k)' <=> Awaits(m, k)) /\ (Awaits(m, k) => note' = note),
         listeners' \ addClosed' \subseteq listeners \ addClosed
  PROVE  AgreeInv'
<1>1. ASSUME NEW m, NEW k, NEW v, Told(m, k, v) PROVE Told(m, k, v)'
  <2>1. Kept(m) /\ handling'[m] = handling[m] /\ view'[m] = view[m]
    BY Zenon DEF Kept
  <2> QED BY <1>1, <2>1, ToldKept, Zenon
<1>2. missed' = missed
  OBVIOUS
<1> QED BY <1>1, <1>2, AgreeKept, Zenon

\* Every step keeps the listeners in agreement.
LEMMA AgreeStep ==
  ASSUME SharedTypeOK, LockInv, BufferInv, AgreeInv, [Next]_vars
  PROVE  AgreeInv'
<1>1. ASSUME NEW k \in Keys, HandleDeltas(k) PROVE AgreeInv'
  <2>1. /\ UNCHANGED <<store, toList, next, ring, handling, view, missed>>
        /\ listeners' \ addClosed' \subseteq listeners \ addClosed
    BY <1>1, Zenon DEF SharedTypeOK, LockInv, HandleDeltas, runVars, processorVars, rwVars, joinVars,
       bufferVars, handlerVars
  <2>2. \A m \in Listeners, q \in Keys : (Awaits(m, q)' <=> Awaits(m, q)) /\ (Awaits(m, q) => note' = note)
    BY <1>1, Zenon DEF Awaits, SharedTypeOK, HandleDeltas, runVars, processorVars, rwVars, joinVars,
       bufferVars, handlerVars
  <2> QED BY <2>1, <2>2, AgreeQuiet, Zenon
<1>2. CASE Change \/ Relist \/ Resync \/ Delete
  <2>1. PICK o \in Versions, n \in Notes, sync \in BOOLEAN :
          /\ Notify(o, n, sync) /\ n.key = key /\ n.obj = o /\ (n.kind = "add" => n.old = Absent)
          /\ Follows(n, store[key])
          /\ version' \in Versions /\ version <= version'
          /\ o = Absent \/ o = version' \/ o = store[key]
    BY <1>2, Notified, ZenonT(30)
  <2>2. key \in Keys /\ dpc = "next" /\ \A m \in Listeners : toList[m] = {}
    BY <2>1, Owners DEF LockInv, SharedTypeOK, Notify
  <2>3. \A k \in Keys : store'[k] = IF k = key THEN o ELSE store[k]
    BY <2>1, <2>2, Zenon DEF Notify, SharedTypeOK
  <2>4. /\ UNCHANGED <<key, targets, toList, listeners, addClosed, missed, bufferVars, handlerVars>>
        /\ dpc' = "distribute" /\ note' = n
    BY <2>1, Zenon DEF Notify, processorVars, joinVars
  <2>9. ASSUME NEW m \in listeners \ addClosed, NEW k \in Keys, k \notin missed[m] PROVE Agree(m, k)'
    <3>1. m \in Listeners
      BY Zenon DEF SharedTypeOK
    <3>2. PICK v \in Versions : Says(m, k, v)
      BY <2>9, <3>1, AgreeElim, Zenon DEF AgreeInv
    <3>3. Told(m, k, v)'
      <4>1. Kept(m) /\ handling'[m] = handling[m] /\ view'[m] = view[m]
        BY <2>4, Zenon DEF Kept, bufferVars, handlerVars
      <4> QED BY <3>2, <4>1, ToldKept, Zenon DEF Says
    <3>4. v = store[k]
      BY <2>2, <3>1, <3>2, Zenon DEF Says, Awaits
    <3>5. k \notin toList'[m] /\ (Awaits(m, k)' <=> k = key)
      BY <2>2, <2>4, <3>1, Zenon DEF Awaits
    <3>6. k = key => Follows(note', v)
      BY <2>1, <2>4, <3>4, Zenon
    <3>7. k # key => v = store'[k]
      BY <2>3, <3>4, Zenon
    <3> QED BY <3>3, <3>5, <3>6, <3>7, AgreeIntro, Zenon
  <2> QED BY <2>4, <2>9, Zenon DEF AgreeInv
<1>3. CASE distribute
  <2>1. /\ UNCHANGED <<store, key, note, toList, listeners, addClosed, bufferVars, handlerVars>>
        /\ dpc = "distribute" /\ dpc' = "send"
    BY <1>3, Zenon DEF distribute, processorVars, joinVars
  <2>2. \A m \in Listeners : toList[m] = {}
    BY <2>1, Owners DEF LockInv, SharedTypeOK
  <2>3. note.obj = store[key] /\ (note.kind = "add" => note.old = Absent)
    BY <2>1, Zenon DEF LockInv
  <2>4. \A m \in Listeners :
          missed'[m] = IF m \in listeners \ targets' /\ Changes(note) THEN missed[m] \cup {key} ELSE missed[m]
    BY <1>3, Zenon DEF distribute
  <2>9. ASSUME NEW m \in listeners \ addClosed, NEW k \in Keys, k \notin missed'[m] PROVE Agree(m, k)'
    <3>1. m \in Listeners /\ k \notin missed[m]
      BY <2>4, <2>9, ZenonT(30) DEF SharedTypeOK
    <3>2. PICK v \in Versions : Says(m, k, v)
      BY <2>9, <3>1, AgreeElim, Zenon DEF AgreeInv
    <3>3. Told(m, k, v)'
      <4>1. Kept(m) /\ handling'[m] = handling[m] /\ view'[m] = view[m]
        BY <2>1, Zenon DEF Kept, bufferVars, handlerVars
      <4> QED BY <3>2, <4>1, ToldKept, Zenon DEF Says
    <3>4. k \notin toList[m] /\ k \notin toList'[m]
      BY <2>1, <2>2, <3>1, Zenon
    <3>5. CASE k # key
      <4>1. ~Awaits(m, k) /\ ~Awaits(m, k)'
        BY <2>1, <3>5, Zenon DEF Awaits
      <4>2. v = store'[k]
        BY <2>1, <3>2, <3>4, <4>1, Zenon DEF Says
      <4> QED BY <3>3, <3>4, <4>1, <4>2, AgreeIntro, Zenon
    <3>6. CASE k = key
      <4>1. Awaits(m, k) /\ (Awaits(m, k)' <=> m \in targets')
        BY <2>1, <3>6, Zenon DEF Awaits
      <4>2. Follows(note, v)
        BY <3>2, <3>4, <4>1, Zenon DEF Says
      <4>3. m \notin targets' => v = store'[k]
        <5>1. ASSUME m \notin targets' PROVE ~Changes(note)
          BY <2>4, <2>9, <3>1, <3>6, <5>1, Zenon
        <5> QED BY <2>1, <2>3, <3>6, <4>2, <5>1, Zenon DEF Changes, Follows
      <4>4. Follows(note', v)
        BY <2>1, <4>2, Zenon
      <4> QED BY <3>3, <3>4, <4>1, <4>3, <4>4, AgreeIntro, Zenon
    <3> QED BY <3>5, <3>6, Zenon
  <2> QED BY <2>1, <2>9, Zenon DEF AgreeInv
<1>4. CASE Distributed
  <2>1. /\ UNCHANGED <<store, toList, next, ring, handling, view, missed>>
        /\ listeners' \ addClosed' \subseteq listeners \ addClosed
    BY <1>4, Zenon DEF SharedTypeOK, LockInv, Distributed, runVars, processorVars, joinVars, bufferVars,
       handlerVars
  <2>2. \A m \in Listeners, k \in Keys : (Awaits(m, k)' <=> Awaits(m, k)) /\ (Awaits(m, k) => note' = note)
    BY <1>4, Zenon DEF Awaits, SharedTypeOK, Distributed, runVars, processorVars, joinVars, bufferVars,
       handlerVars
  <2> QED BY <2>1, <2>2, AgreeQuiet, Zenon
<1>5. CASE DeltasHandled
  <2>1. /\ UNCHANGED <<store, toList, next, ring, handling, view, missed>>
        /\ listeners' \ addClosed' \subseteq listeners \ addClosed
    BY <1>5, Zenon DEF SharedTypeOK, LockInv, DeltasHandled, runVars, processorVars, rwVars, joinVars,
       bufferVars, handlerVars
  <2>2. \A m \in Listeners, k \in Keys : (Awaits(m, k)' <=> Awaits(m, k)) /\ (Awaits(m, k) => note' = note)
    BY <1>5, Zenon DEF Awaits, SharedTypeOK, DeltasHandled, runVars, processorVars, rwVars, joinVars,
       bufferVars, handlerVars
  <2> QED BY <2>1, <2>2, AgreeQuiet, Zenon
<1>6. ASSUME NEW l \in Listeners, Send(l) PROVE AgreeInv'
  <2>1. /\ UNCHANGED <<store, dpc, key, note, toList, listeners, addClosed, handlerVars>>
        /\ dpc = "send" /\ add(l, note) /\ targets' = targets \ {l}
        /\ missed' = [missed EXCEPT ![l] = missed[l] \ {key}]
    BY <1>6, Zenon DEF Send, processorVars, joinVars
  <2>2. \A m \in Listeners : toList[m] = {}
    BY <2>1, Owners DEF LockInv, SharedTypeOK
  <2>3. note \in Notes /\ note.key = key /\ note.obj = store[key]
    BY <2>1, Zenon DEF LockInv
  <2>4. PICK n \in Notes : n = note
    BY <2>3, Zenon
  <2>5. ListenerOK(l) /\ add(l, n) /\ (next[l] = Nil => ring[l].readable = 0)
    BY <2>1, <2>4, Zenon DEF BufferInv, ListenerOK
  <2>6. \A k, v : /\ k = n.key /\ v = n.obj => Told(l, k, v)'
                  /\ k # n.key /\ Told(l, k, v) => Told(l, k, v)'
    BY <2>1, <2>5, ToldAdded, Zenon
  <2>7. \A m \in Listeners : m # l => Kept(m)
    BY <2>5, AddFacts, Zenon
  <2>8. /\ missed'[l] = missed[l] \ {key}
        /\ \A m \in Listeners : m # l => missed'[m] = missed[m]
    BY <2>1, Zenon DEF SharedTypeOK
  <2>9. ASSUME NEW m \in listeners \ addClosed, NEW k \in Keys, k \notin missed[m], m # l \/ k # key
        PROVE  Agree(m, k)'
    <3>1. m \in Listeners
      BY Zenon DEF SharedTypeOK
    <3>2. PICK v \in Versions : Says(m, k, v)
      BY <2>9, <3>1, AgreeElim, Zenon DEF AgreeInv
    <3>3. Told(m, k, v)'
      <4>1. CASE m = l
        BY <2>3, <2>4, <2>6, <2>9, <3>2, <4>1, Zenon DEF Says
      <4>2. CASE m # l
        <5>1. Kept(m) /\ handling'[m] = handling[m] /\ view'[m] = view[m]
          BY <2>1, <2>7, <3>1, <4>2, Zenon DEF handlerVars
        <5> QED BY <3>2, <5>1, ToldKept, Zenon DEF Says
      <4> QED BY <4>1, <4>2, Zenon
    <3>4. Awaits(m, k)' <=> Awaits(m, k)
      BY <2>1, <2>9, Zenon DEF Awaits
    <3>5. UNCHANGED <<store, note, toList>>
      BY <2>1, Zenon
    <3> QED BY <3>2, <3>3, <3>4, <3>5, AgreeIntro, Zenon DEF Says
  <2>10. ASSUME NEW k \in Keys, k = key PROVE Agree(l, k)'
    <3>1. PICK v \in Versions : v = n.obj
      BY <2>4, Zenon DEF Notes
    <3>2. Told(l, k, v)'
      BY <2>3, <2>4, <2>6, <2>10, <3>1, Zenon
    <3>3. k \notin toList'[l] /\ ~Awaits(l, k)' /\ v = store'[k]
      BY <2>1, <2>2, <2>3, <2>4, <2>10, <3>1, Zenon DEF Awaits
    <3> QED BY <3>2, <3>3, AgreeIntro, Zenon
  <2>11. ASSUME NEW m \in listeners \ addClosed, NEW k \in Keys, k \notin missed'[m] PROVE Agree(m, k)'
    <3>1. CASE m = l /\ k = key
      BY <2>10, <3>1, Zenon
    <3>2. CASE m # l \/ k # key
      <4>1. k \notin missed[m]
        BY <2>8, <2>11, <3>2, Zenon DEF SharedTypeOK
      <4> QED BY <2>9, <3>2, <4>1, Zenon
    <3> QED BY <3>1, <3>2, Zenon
  <2> QED BY <2>1, <2>11, Zenon DEF AgreeInv
<1>7. ASSUME NEW l \in Listeners, AddEventHandler(l) PROVE AgreeInv'
  <2>1. UNCHANGED <<store, dpc, key, note, targets, toList, addClosed, bufferVars, handlerVars, missed>>
    BY <1>7, Zenon DEF AddEventHandler, deltaVars
  <2>2. listeners' = listeners \/ (listeners' = listeners \cup {l} /\ ~started)
    BY <1>7, Zenon DEF AddEventHandler, addListenerLocked, processorVars
  <2>3. \A m \in Listeners : m # l => toList'[m] = toList[m]
    BY <2>1, Zenon
  <2>4. l \notin listeners /\ toList[l] = {}
    BY <1>7, Zenon DEF AddEventHandler, LockInv
  <2>9. ASSUME NEW m \in listeners \ addClosed, NEW k \in Keys, k \notin missed[m] PROVE Agree(m, k)'
    <3>1. m \in Listeners /\ m # l
      BY <2>4, Zenon DEF SharedTypeOK
    <3>2. PICK v \in Versions : Says(m, k, v)
      BY <2>9, <3>1, AgreeElim, Zenon DEF AgreeInv
    <3>3. Told(m, k, v)'
      <4>1. Kept(m) /\ handling'[m] = handling[m] /\ view'[m] = view[m]
        BY <2>1, Zenon DEF Kept, bufferVars, handlerVars
      <4> QED BY <3>2, <4>1, ToldKept, Zenon DEF Says
    <3>4. Awaits(m, k)' <=> Awaits(m, k)
      BY <2>1, Zenon DEF Awaits
    <3>5. toList'[m] = toList[m] /\ store' = store /\ note' = note
      BY <2>1, <2>3, <3>1, Zenon
    <3> QED BY <3>2, <3>3, <3>4, <3>5, AgreeIntro, Zenon DEF Says
  <2>10. ASSUME l \in listeners', NEW k \in Keys PROVE Agree(l, k)'
    <3>1. PICK v \in Versions : v = Absent /\ Told(l, k, v)
      <4>1. Absent \in Versions
        BY InformerAssumption DEF Versions, Absent
      <4>2. ListenerOK(l)
        BY Zenon DEF BufferInv
      <4> QED BY <2>4, <4>1, <4>2, ToldFresh, Zenon
    <3>2. ~started
      BY <2>2, <2>4, <2>10, Zenon
    <3>3. dpc = "idle" /\ store[k] = Absent
      BY <3>2, Zenon DEF LockInv
    <3>4. k \notin toList'[l] /\ ~Awaits(l, k)' /\ store'[k] = Absent
      BY <2>1, <2>4, <3>3, Zenon DEF Awaits
    <3>5. Told(l, k, v)'
      <4>1. Kept(l) /\ handling'[l] = handling[l] /\ view'[l] = view[l]
        BY <2>1, Zenon DEF Kept, bufferVars, handlerVars
      <4> QED BY <3>1, <4>1, ToldKept, Zenon
    <3> QED BY <3>1, <3>4, <3>5, AgreeIntro, Zenon
  <2>11. ASSUME NEW m \in listeners' \ addClosed', NEW k \in Keys, k \notin missed'[m] PROVE Agree(m, k)'
    <3>1. CASE m = l
      BY <2>10, <3>1, Zenon
    <3>2. CASE m # l
      BY <2>1, <2>2, <2>9, <2>11, <3>2, Zenon
    <3> QED BY <3>1, <3>2, Zenon
  <2> QED BY <2>11, Zenon DEF AgreeInv
<1>8. ASSUME NEW l \in Listeners, BlockDeltas(l) PROVE AgreeInv'
  <2>1. /\ UNCHANGED <<store, toList, next, ring, handling, view, missed>>
        /\ listeners' \ addClosed' \subseteq listeners \ addClosed
    BY <1>8, Zenon DEF SharedTypeOK, LockInv, BlockDeltas, deltaVars, runVars, processorVars, rwVars,
       bufferVars, handlerVars
  <2>2. \A m \in Listeners, k \in Keys : (Awaits(m, k)' <=> Awaits(m, k)) /\ (Awaits(m, k) => note' = note)
    BY <1>8, Zenon DEF Awaits, SharedTypeOK, BlockDeltas, deltaVars, runVars, processorVars, rwVars,
       bufferVars, handlerVars
  <2> QED BY <2>1, <2>2, AgreeQuiet, Zenon
<1>9. ASSUME NEW l \in Listeners, addListener(l) PROVE AgreeInv'
  <2>1. UNCHANGED <<store, dpc, key, note, targets, addClosed, bufferVars, handlerVars, missed>>
    BY <1>9, Zenon DEF addListener, deltaVars
  <2>2. listeners' = listeners \cup {l}
    BY <1>9, Zenon DEF addListener, addListenerLocked
  <2>3. /\ \A m \in Listeners : m # l => toList'[m] = toList[m]
        /\ toList'[l] = {k \in Keys : store[k] # Absent}
    BY <1>9, Zenon DEF addListener, SharedTypeOK
  <2>4. l \notin listeners /\ dpc = "idle"
    BY <1>9, Owners DEF addListener, LockInv, SharedTypeOK
  <2>9. ASSUME NEW m \in listeners \ addClosed, NEW k \in Keys, k \notin missed[m] PROVE Agree(m, k)'
    <3>1. m \in Listeners /\ m # l
      BY <2>4, Zenon DEF SharedTypeOK
    <3>2. PICK v \in Versions : Says(m, k, v)
      BY <2>9, <3>1, AgreeElim, Zenon DEF AgreeInv
    <3>3. Told(m, k, v)'
      <4>1. Kept(m) /\ handling'[m] = handling[m] /\ view'[m] = view[m]
        BY <2>1, Zenon DEF Kept, bufferVars, handlerVars
      <4> QED BY <3>2, <4>1, ToldKept, Zenon DEF Says
    <3>4. Awaits(m, k)' <=> Awaits(m, k)
      BY <2>1, Zenon DEF Awaits
    <3>5. toList'[m] = toList[m] /\ store' = store /\ note' = note
      BY <2>1, <2>3, <3>1, Zenon
    <3> QED BY <3>2, <3>3, <3>4, <3>5, AgreeIntro, Zenon DEF Says
  <2>10. ASSUME l \in listeners', NEW k \in Keys PROVE Agree(l, k)'
    <3>1. PICK v \in Versions : v = Absent /\ Told(l, k, v)
      <4>1. Absent \in Versions
        BY InformerAssumption DEF Versions, Absent
      <4>2. ListenerOK(l)
        BY Zenon DEF BufferInv
      <4> QED BY <2>4, <4>1, <4>2, ToldFresh, Zenon
    <3>4. ~Awaits(l, k)' /\ (k \notin toList'[l] => store'[k] = Absent)
      BY <2>1, <2>3, <2>4, Zenon DEF Awaits
    <3>5. Told(l, k, v)'
      <4>1. Kept(l) /\ handling'[l] = handling[l] /\ view'[l] = view[l]
        BY <2>1, Zenon DEF Kept, bufferVars, handlerVars
      <4> QED BY <3>1, <4>1, ToldKept, Zenon
    <3> QED BY <3>1, <3>4, <3>5, AgreeIntro, Zenon
  <2>11. ASSUME NEW m \in listeners' \ addClosed', NEW k \in Keys, k \notin missed'[m] PROVE Agree(m, k)'
    <3>1. CASE m = l
      BY <2>10, <3>1, Zenon
    <3>2. CASE m # l
      BY <2>1, <2>2, <2>9, <2>11, <3>2, Zenon
    <3> QED BY <3>1, <3>2, Zenon
  <2> QED BY <2>11, Zenon DEF AgreeInv
<1>10. ASSUME NEW l \in Listeners, NEW k \in Keys, AddItem(l, k) PROVE AgreeInv'
  <2>1. /\ UNCHANGED <<store, dpc, key, note, targets, listeners, addClosed, handlerVars, missed>>
        /\ add(l, addNotification(k, store[k])) /\ k \in toList[l]
        /\ toList' = [toList EXCEPT ![l] = toList[l] \ {k}]
    BY <1>10, ZenonT(30) DEF AddItem, deltaVars, processorVars
  <2>2. dpc = "idle"
    BY <1>10, Owners DEF LockInv, SharedTypeOK, AddItem
  <2>3. PICK n \in Notes : n = addNotification(k, store[k]) /\ n.key = k /\ n.obj = store[k]
    <3>1. Absent \in Versions /\ store[k] \in Versions
      BY InformerAssumption DEF SharedTypeOK, Versions, Absent
    <3>2. addNotification(k, store[k]) \in Notes
      BY <3>1, Zenon DEF addNotification, Notes
    <3>3. addNotification(k, store[k]).key = k /\ addNotification(k, store[k]).obj = store[k]
      BY Zenon DEF addNotification
    <3> QED BY <3>2, <3>3, Zenon
  <2>5. ListenerOK(l) /\ add(l, n) /\ (next[l] = Nil => ring[l].readable = 0)
    BY <2>1, <2>3, Zenon DEF BufferInv, ListenerOK
  <2>6. \A j, v : /\ j = n.key /\ v = n.obj => Told(l, j, v)'
                  /\ j # n.key /\ Told(l, j, v) => Told(l, j, v)'
    BY <2>1, <2>5, ToldAdded, Zenon
  <2>7. \A m \in Listeners : m # l => Kept(m)
    BY <2>5, AddFacts, Zenon
  <2>8. /\ toList'[l] = toList[l] \ {k}
        /\ \A m \in Listeners : m # l => toList'[m] = toList[m]
    BY <2>1, Zenon DEF SharedTypeOK
  <2>9. ASSUME NEW m \in listeners \ addClosed, NEW j \in Keys, j \notin missed[m], m # l \/ j # k
        PROVE  Agree(m, j)'
    <3>1. m \in Listeners
      BY Zenon DEF SharedTypeOK
    <3>2. PICK v \in Versions : Says(m, j, v)
      BY <2>9, <3>1, AgreeElim, Zenon DEF AgreeInv
    <3>3. Told(m, j, v)'
      <4>1. CASE m = l
        BY <2>3, <2>6, <2>9, <3>2, <4>1, Zenon DEF Says
      <4>2. CASE m # l
        <5>1. Kept(m) /\ handling'[m] = handling[m] /\ view'[m] = view[m]
          BY <2>1, <2>7, <3>1, <4>2, Zenon DEF handlerVars
        <5> QED BY <3>2, <5>1, ToldKept, Zenon DEF Says
      <4> QED BY <4>1, <4>2, Zenon
    <3>4. ~Awaits(m, j) /\ ~Awaits(m, j)'
      BY <2>1, <2>2, Zenon DEF Awaits
    <3>5. j \in toList'[m] <=> j \in toList[m]
      BY <2>8, <2>9, <3>1, Zenon
    <3>6. store' = store
      BY <2>1, Zenon
    <3> QED BY <3>2, <3>3, <3>4, <3>5, <3>6, AgreeIntro, Zenon DEF Says
  <2>10. Agree(l, k)'
    <3>1. PICK v \in Versions : v = n.obj
      BY Zenon DEF Notes
    <3>2. Told(l, k, v)'
      BY <2>3, <2>6, <3>1, Zenon
    <3>3. k \notin toList'[l] /\ ~Awaits(l, k)' /\ v = store'[k]
      BY <2>1, <2>2, <2>3, <2>8, <3>1, Zenon DEF Awaits
    <3> QED BY <3>2, <3>3, AgreeIntro, Zenon
  <2> QED BY <2>1, <2>9, <2>10, Zenon DEF AgreeInv
<1>11. ASSUME NEW l \in Listeners, Joined(l) PROVE AgreeInv'
  <2>1. /\ UNCHANGED <<store, toList, next, ring, handling, view, missed>>
        /\ listeners' \ addClosed' \subseteq listeners \ addClosed
    BY <1>11, Zenon DEF SharedTypeOK, LockInv, Joined, deltaVars, runVars, processorVars, rwVars,
       bufferVars, handlerVars
  <2>2. \A m \in Listeners, k \in Keys : (Awaits(m, k)' <=> Awaits(m, k)) /\ (Awaits(m, k) => note' = note)
    BY <1>11, Zenon DEF Awaits, SharedTypeOK, Joined, deltaVars, runVars, processorVars, rwVars,
       bufferVars, handlerVars
  <2> QED BY <2>1, <2>2, AgreeQuiet, Zenon
<1>12. CASE ResyncWaits
  <2>1. /\ UNCHANGED <<store, toList, next, ring, handling, view, missed>>
        /\ listeners' \ addClosed' \subseteq listeners \ addClosed
    BY <1>12, Zenon DEF SharedTypeOK, LockInv, ResyncWaits, deltaVars, runVars, processorVars, joinVars,
       bufferVars, handlerVars
  <2>2. \A m \in Listeners, k \in Keys : (Awaits(m, k)' <=> Awaits(m, k)) /\ (Awaits(m, k) => note' = note)
    BY <1>12, Zenon DEF Awaits, SharedTypeOK, ResyncWaits, deltaVars, runVars, processorVars, joinVars,
       bufferVars, handlerVars
  <2> QED BY <2>1, <2>2, AgreeQuiet, Zenon
<1>13. ASSUME NEW due \in SUBSET Listeners, shouldResync(due) PROVE AgreeInv'
  <2>1. /\ UNCHANGED <<store, toList, next, ring, handling, view, missed>>
        /\ listeners' \ addClosed' \subseteq listeners \ addClosed
    BY <1>13, Zenon DEF SharedTypeOK, LockInv, shouldResync, deltaVars, runVars, joinVars, bufferVars,
       handlerVars
  <2>2. \A m \in Listeners, k \in Keys : (Awaits(m, k)' <=> Awaits(m, k)) /\ (Awaits(m, k) => note' = note)
    BY <1>13, Zenon DEF Awaits, SharedTypeOK, shouldResync, deltaVars, runVars, joinVars, bufferVars,
       handlerVars
  <2> QED BY <2>1, <2>2, AgreeQuiet, Zenon
<1>14. CASE Run
  <2>1. /\ UNCHANGED <<store, toList, next, ring, handling, view, missed>>
        /\ listeners' \ addClosed' \subseteq listeners \ addClosed
    BY <1>14, Zenon DEF SharedTypeOK, LockInv, Run, deltaVars, rwVars, joinVars, bufferVars, handlerVars
  <2>2. \A m \in Listeners, k \in Keys : (Awaits(m, k)' <=> Awaits(m, k)) /\ (Awaits(m, k) => note' = note)
    BY <1>14, Zenon DEF Awaits, SharedTypeOK, Run, deltaVars, rwVars, joinVars, bufferVars, handlerVars
  <2> QED BY <2>1, <2>2, AgreeQuiet, Zenon
<1>15. CASE ControllerReturns
  <2>1. /\ UNCHANGED <<store, toList, next, ring, handling, view, missed>>
        /\ listeners' \ addClosed' \subseteq listeners \ addClosed
    BY <1>15, Zenon DEF SharedTypeOK, LockInv, ControllerReturns, deltaVars, processorVars, rwVars,
       joinVars, bufferVars, handlerVars
  <2>2. \A m \in Listeners, k \in Keys : (Awaits(m, k)' <=> Awaits(m, k)) /\ (Awaits(m, k) => note' = note)
    BY <1>15, Zenon DEF Awaits, SharedTypeOK, ControllerReturns, deltaVars, processorVars, rwVars,
       joinVars, bufferVars, handlerVars
  <2> QED BY <2>1, <2>2, AgreeQuiet, Zenon
<1>16. CASE RunStops
  <2>1. /\ UNCHANGED <<store, toList, next, ring, handling, view, missed>>
        /\ listeners' \ addClosed' \subseteq listeners \ addClosed
    BY <1>16, Zenon DEF SharedTypeOK, LockInv, RunStops, deltaVars, processorVars, rwVars, joinVars,
       bufferVars, handlerVars
  <2>2. \A m \in Listeners, k \in Keys : (Awaits(m, k)' <=> Awaits(m, k)) /\ (Awaits(m, k) => note' = note)
    BY <1>16, Zenon DEF Awaits, SharedTypeOK, RunStops, deltaVars, processorVars, rwVars, joinVars,
       bufferVars, handlerVars
  <2> QED BY <2>1, <2>2, AgreeQuiet, Zenon
<1>17. CASE RunReturns
  <2>1. /\ UNCHANGED <<store, toList, next, ring, handling, view, missed>>
        /\ listeners' \ addClosed' \subseteq listeners \ addClosed
    BY <1>17, Zenon DEF SharedTypeOK, LockInv, RunReturns, deltaVars, processorVars, rwVars, joinVars,
       bufferVars, handlerVars
  <2>2. \A m \in Listeners, k \in Keys : (Awaits(m, k)' <=> Awaits(m, k)) /\ (Awaits(m, k) => note' = note)
    BY <1>17, Zenon DEF Awaits, SharedTypeOK, RunReturns, deltaVars, processorVars, rwVars, joinVars,
       bufferVars, handlerVars
  <2> QED BY <2>1, <2>2, AgreeQuiet, Zenon
<1>18. CASE StartListeners
  <2>1. /\ UNCHANGED <<store, toList, next, ring, handling, view, missed>>
        /\ listeners' \ addClosed' \subseteq listeners \ addClosed
    BY <1>18, Zenon DEF SharedTypeOK, LockInv, StartListeners, deltaVars, runVars, rwVars, joinVars,
       bufferVars, handlerVars
  <2>2. \A m \in Listeners, k \in Keys : (Awaits(m, k)' <=> Awaits(m, k)) /\ (Awaits(m, k) => note' = note)
    BY <1>18, Zenon DEF Awaits, SharedTypeOK, StartListeners, deltaVars, runVars, rwVars, joinVars,
       bufferVars, handlerVars
  <2> QED BY <2>1, <2>2, AgreeQuiet, Zenon
<1>19. CASE CloseListeners
  <2>1. /\ UNCHANGED <<store, toList, next, ring, handling, view, missed>>
        /\ listeners' \ addClosed' \subseteq listeners \ addClosed
    BY <1>19, Zenon DEF SharedTypeOK, LockInv, CloseListeners, deltaVars, runVars, joinVars, bufferVars,
       handlerVars
  <2>2. \A m \in Listeners, k \in Keys : (Awaits(m, k)' <=> Awaits(m, k)) /\ (Awaits(m, k) => note' = note)
    BY <1>19, Zenon DEF Awaits, SharedTypeOK, CloseListeners, deltaVars, runVars, joinVars, bufferVars,
       handlerVars
  <2> QED BY <2>1, <2>2, AgreeQuiet, Zenon
<1>20. CASE ProcessorReturns
  <2>1. /\ UNCHANGED <<store, toList, next, ring, handling, view, missed>>
        /\ listeners' \ addClosed' \subseteq listeners \ addClosed
    BY <1>20, Zenon DEF SharedTypeOK, LockInv, ProcessorReturns, deltaVars, runVars, joinVars, bufferVars,
       handlerVars
  <2>2. \A m \in Listeners, k \in Keys : (Awaits(m, k)' <=> Awaits(m, k)) /\ (Awaits(m, k) => note' = note)
    BY <1>20, Zenon DEF Awaits, SharedTypeOK, ProcessorReturns, deltaVars, runVars, joinVars, bufferVars,
       handlerVars
  <2> QED BY <2>1, <2>2, AgreeQuiet, Zenon
<1>21. ASSUME NEW l \in Listeners, PopNext(l) PROVE AgreeInv'
  <2>1. UNCHANGED <<store, dpc, key, note, targets, toList, listeners, addClosed, missed>>
    BY <1>21, Zenon DEF PopNext, deltaVars, processorVars, joinVars
  <2>2. ListenerOK(l) /\ view' = view
    BY <1>21, Zenon DEF BufferInv, PopNext
  <2>3. ASSUME NEW m \in Listeners, NEW k \in Keys, NEW v, Told(m, k, v) PROVE Told(m, k, v)'
    <3>1. CASE m = l
      BY <1>21, <2>2, <2>3, <3>1, ToldPopped, Zenon
    <3>2. CASE m # l
      <4>1. Kept(m) /\ handling'[m] = handling[m]
        BY <1>21, <2>2, <3>2, PopFacts, Zenon
      <4> QED BY <2>2, <2>3, <4>1, ToldKept, Zenon
    <3> QED BY <3>1, <3>2, Zenon
  <2>4. \A m \in Listeners, k \in Keys : Awaits(m, k)' <=> Awaits(m, k)
    BY <2>1, Zenon DEF Awaits
  <2>5. listeners \subseteq Listeners
    BY Zenon DEF SharedTypeOK
  <2> QED BY <2>1, <2>3, <2>4, <2>5, AgreeKept, Zenon
<1>22. ASSUME NEW l \in Listeners, PopReturns(l) PROVE AgreeInv'
  <2>1. UNCHANGED <<store, dpc, key, note, targets, toList, listeners, addClosed, missed>>
    BY <1>22, Zenon DEF PopReturns, deltaVars, processorVars, joinVars
  <2>2. l \in addClosed
    BY <1>22, Zenon DEF PopReturns
  <2>3. ASSUME NEW m \in Listeners, m \notin addClosed, NEW k \in Keys, NEW v, Told(m, k, v)
        PROVE  Told(m, k, v)'
    <3>1. m # l
      BY <2>2, <2>3, Zenon
    <3>2. Kept(m) /\ handling'[m] = handling[m] /\ view'[m] = view[m]
      BY <1>22, <3>1, Zenon DEF PopReturns, SharedTypeOK, Kept, handlerVars
    <3> QED BY <2>3, <3>2, ToldKept, Zenon
  <2>4. \A m \in Listeners, k \in Keys : Awaits(m, k)' <=> Awaits(m, k)
    BY <2>1, Zenon DEF Awaits
  <2>5. listeners \subseteq Listeners
    BY Zenon DEF SharedTypeOK
  <2> QED BY <2>1, <2>3, <2>4, <2>5, AgreeKept, Zenon
<1>23. ASSUME NEW l \in Listeners, Handle(l) PROVE AgreeInv'
  <2>1. UNCHANGED <<store, dpc, key, note, targets, toList, listeners, addClosed, missed>>
    BY <1>23, Zenon DEF Handle, deltaVars, processorVars, joinVars
  <2>3. ASSUME NEW m \in Listeners, NEW k \in Keys, NEW v, Told(m, k, v) PROVE Told(m, k, v)'
    <3>1. CASE m = l
      BY <1>23, <2>3, <3>1, ToldHandled, Zenon
    <3>2. CASE m # l
      <4>1. Kept(m) /\ handling'[m] = handling[m] /\ view'[m] = view[m]
        BY <1>23, <3>2, Zenon DEF Handle, SharedTypeOK, Kept, bufferVars
      <4> QED BY <2>3, <4>1, ToldKept, Zenon
    <3> QED BY <3>1, <3>2, Zenon
  <2>4. \A m \in Listeners, k \in Keys : Awaits(m, k)' <=> Awaits(m, k)
    BY <2>1, Zenon DEF Awaits
  <2>5. listeners \subseteq Listeners
    BY Zenon DEF SharedTypeOK
  <2> QED BY <2>1, <2>3, <2>4, <2>5, AgreeKept, Zenon
<1>24. ASSUME NEW l \in Listeners, ListenerReturns(l) PROVE AgreeInv'
  <2>1. /\ UNCHANGED <<store, toList, next, ring, handling, view, missed>>
        /\ listeners' \ addClosed' \subseteq listeners \ addClosed
    BY <1>24, Zenon DEF SharedTypeOK, LockInv, ListenerReturns, deltaVars, runVars, processorVars, rwVars,
       joinVars, bufferVars, handlerVars
  <2>2. \A m \in Listeners, k \in Keys : (Awaits(m, k)' <=> Awaits(m, k)) /\ (Awaits(m, k) => note' = note)
    BY <1>24, Zenon DEF Awaits, SharedTypeOK, ListenerReturns, deltaVars, runVars, processorVars, rwVars,
       joinVars, bufferVars, handlerVars
  <2> QED BY <2>1, <2>2, AgreeQuiet, Zenon
<1>25. CASE UNCHANGED vars
  <2>1. /\ UNCHANGED <<store, toList, next, ring, handling, view, missed>>
        /\ listeners' \ addClosed' \subseteq listeners \ addClosed
    BY <1>25, Zenon DEF SharedTypeOK, LockInv, vars, deltaVars, runVars, processorVars, rwVars, joinVars,
       bufferVars, handlerVars
  <2>2. \A m \in Listeners, k \in Keys : (Awaits(m, k)' <=> Awaits(m, k)) /\ (Awaits(m, k) => note' = note)
    BY <1>25, Zenon DEF Awaits, SharedTypeOK, vars, deltaVars, runVars, processorVars, rwVars, joinVars,
       bufferVars, handlerVars
  <2> QED BY <2>1, <2>2, AgreeQuiet, Zenon
<1> QED BY <1>1, <1>2, <1>3, <1>4, <1>5, <1>6, <1>7, <1>8, <1>9, <1>10, <1>11, <1>12, <1>13, <1>14, <1>15,
           <1>16, <1>17, <1>18, <1>19, <1>20, <1>21, <1>22, <1>23, <1>24, <1>25, Zenon
     DEF Next, Deltas, Join, Resyncs, EndRun, Processor, Listen

-----------------------------------------------------------------------------
(* The theorems *)

\* An informer that has just been made satisfies the invariant.
LEMMA InitInv ==
  ASSUME Init
  PROVE  IInv
<1>1. RingOK(NewRingGrowing(InitialSize), Notes)
  BY InformerAssumption, SMTT(30) DEF RingOK, NewRingGrowing, NewData
<1>2. Absent \in Versions /\ MaxBatch \in Nat
  BY InformerAssumption DEF Versions, Absent
<1>3. SharedTypeOK
  <2>1. BufferTypeOK
    BY <1>1, Zenon DEF Init, BufferTypeOK
  <2>2. /\ store \in [Keys -> Versions] /\ version \in Versions
        /\ view \in [Listeners -> [Keys -> Versions]] /\ left \in 0 .. MaxBatch
    BY <1>2 DEF Init, Absent
  <2>3. /\ joinPC \in [Listeners -> {"out", "block", "add", "list", "in", "refused"}]
        /\ lpc \in [Listeners -> {"off", "on", "stopping", "gone"}]
    BY Zenon DEF Init
  <2> QED BY <2>1, <2>2, <2>3, Zenon DEF Init, SharedTypeOK, BufferTypeOK
<1>4. LockInv
  BY InformerAssumption, Zenon DEF Init, LockInv
<1>5. ASSUME NEW l \in Listeners PROVE ListenerOK(l)
  <2>1. next[l] = Nil /\ ring[l].readable = 0 /\ handling[l] = Nil /\ missed[l] = {}
    BY Zenon DEF Init, NewRingGrowing
  <2>2. \A k \in Keys : view[l][k] = Absent
    BY Zenon DEF Init
  <2>3. Held(l) = 0
    BY <2>1, Zenon DEF Held
  <2> QED BY <2>1, <2>2, <2>3 DEF ListenerOK
<1>6. \A k \in Keys : store[k] <= version
  BY DEF Init, Absent
<1>7. AgreeInv
  BY Zenon DEF Init, AgreeInv
<1> QED BY <1>3, <1>4, <1>5, <1>6, <1>7, ZenonT(30) DEF IInv, BufferInv

\* The types, the ownership of the locks, the order in pop's variable and ring,
\* and the agreement of every listener with the cache are kept by every step of
\* HandleDeltas, AddEventHandler, Run, the resyncs and the listeners.
THEOREM SharedInvariant == Spec => []IInv
<1>1. Init => IInv
  BY InitInv, Zenon
<1>2. IInv /\ [Next]_vars => IInv'
  BY TypeStep, LockStep, BufferStep, AgreeStep, Zenon DEF IInv
<1> QED BY <1>1, <1>2, PTL DEF Spec, Safe

\* Every variable stays in its domain and the indices of every ring inside its
\* array, whatever is read and written and however often the ring grows.
THEOREM SharedTypes == Spec => []SharedTypeOK
<1>1. IInv => SharedTypeOK
  BY Zenon DEF IInv
<1> QED BY <1>1, SharedInvariant, PTL

\* HandleDeltas and AddEventHandler tell each listener what the store has, in
\* whatever order they get the locks and whatever pop's ring does in between.
THEOREM ListenersAgreeAlways == Spec => []ListenersAgree
<1>1. IInv => ListenersAgree
  BY Zenon DEF IInv, AgreeInv, Agree, ListenersAgree, Untold
<1> QED BY <1>1, SharedInvariant, PTL

\* The cache is at least as fresh as every notification that distribute, pop or
\* a handler has: HandleDeltas changes the store before it distributes.
THEOREM CacheIsFresherAlways == Spec => []CacheIsFresher
<1>1. ASSUME IInv PROVE CacheIsFresher
  <2>1. ASSUME NEW l \in Listeners, NEW n \in {note, handling[l]} \cup {Nth(l, i) : i \in 0 .. Held(l) - 1}, n # Nil
        PROVE  store[n.key] = Absent \/ n.obj <= store[n.key]
    <3>1. CASE n = note
      <4>1. LockInv /\ note # Nil
        BY <1>1, <2>1, <3>1, Zenon DEF IInv
      <4>2. note \in Notes /\ note.obj = store[note.key]
        BY <4>1, Zenon DEF LockInv
      <4>3. note.obj <= note.obj
        BY <4>2 DEF Notes, Versions
      <4> QED BY <3>1, <4>2, <4>3, Zenon
    <3>2. CASE n = handling[l]
      BY <1>1, <2>1, <3>2, Zenon DEF IInv, BufferInv, ListenerOK, NoteOK
    <3>3. CASE n \in {Nth(l, i) : i \in 0 .. Held(l) - 1}
      <4>1. PICK i \in 0 .. Held(l) - 1 : n = Nth(l, i)
        BY <3>3, Zenon
      <4> QED BY <1>1, <4>1, Zenon DEF IInv, BufferInv, ListenerOK, NoteOK
    <3> QED BY <2>1, <3>1, <3>2, <3>3, Zenon
  <2> QED BY <2>1, Zenon DEF CacheIsFresher
<1> QED BY <1>1, SharedInvariant, PTL

\* Once sharedProcessor.run has closed the channels, neither distribute nor
\* AddEventHandler sends to one of them.
THEOREM NobodySendsOnClosed == Spec => []NoSendOnClosed
<1>1. ASSUME IInv PROVE NoSendOnClosed
  <2>1. SharedTypeOK /\ LockInv
    BY <1>1, Zenon DEF IInv
  <2>2. CASE addClosed = {}
    BY <2>2, Zenon DEF NoSendOnClosed
  <2>3. CASE addClosed # {}
    <3>1. stopped /\ addClosed = listeners
      BY <2>1, <2>3, Zenon DEF LockInv
    <3>2. startedLock = Nobody /\ dpc = "idle" /\ targets = {}
      BY <2>1, <3>1, Zenon DEF LockInv
    <3>3. \A l \in addClosed : joinPC[l] = "in"
      BY <2>1, <3>1, <3>2, InformerAssumption DEF LockInv, SharedTypeOK
    <3> QED BY <3>1, <3>2, <3>3, Zenon DEF NoSendOnClosed
  <2> QED BY <2>2, <2>3, Zenon
<1> QED BY <1>1, SharedInvariant, PTL

\* Each notification that distribute or AddEventHandler sends follows for the
\* listener that gets it: no second add, no update or delete of what it has not
\* been told of, even when it joins while deltas are handled.
THEOREM SentNotificationsFit == Spec => SentFits
<1> DEFINE Fits == \A l \in Listeners :
             /\ Send(l) /\ key \notin missed[l] => \E v \in Versions : Told(l, key, v) /\ Follows(note, v)
             /\ \A k \in Keys : AddItem(l, k) => Told(l, k, Absent)
<1>1. ASSUME IInv, [Next]_vars PROVE [Fits]_vars
  <2>1. SharedTypeOK /\ LockInv /\ BufferInv /\ AgreeInv
    BY <1>1, Zenon DEF IInv
  <2>2. ASSUME NEW l \in Listeners, Send(l), key \notin missed[l]
        PROVE  \E v \in Versions : Told(l, key, v) /\ Follows(note, v)
    <3>1. dpc = "send" /\ l \in targets
      BY <2>2, Zenon DEF Send
    <3>2. key \in Keys /\ l \in listeners \ addClosed /\ key \notin toList[l]
      BY <2>1, <3>1, Owners DEF LockInv, SharedTypeOK
    <3>3. Awaits(l, key)
      BY <3>1, Zenon DEF Awaits
    <3> QED BY <2>1, <2>2, <3>2, <3>3, Zenon DEF AgreeInv, Agree
  <2>3. ASSUME NEW l \in Listeners, NEW k \in Keys, AddItem(l, k)
        PROVE  Told(l, k, Absent)
    <3>1. joinPC[l] = "list" /\ k \in toList[l]
      BY <2>3, Zenon DEF AddItem
    <3>2. l \in listeners \ addClosed /\ k \notin missed[l]
      <4>1. missed[l] = {}
        BY <2>1, <3>1, Zenon DEF BufferInv, ListenerOK
      <4>2. l \in listeners /\ addClosed = {}
        BY <2>1, <3>1, Owners DEF LockInv, SharedTypeOK
      <4> QED BY <4>1, <4>2, Zenon
    <3> QED BY <2>1, <3>1, <3>2, Zenon DEF AgreeInv, Agree
  <2> QED BY <2>2, <2>3, Zenon
<1> QED BY <1>1, SharedInvariant, PTL DEF Spec, Safe, SentFits

-----------------------------------------------------------------------------
(* Who can go on *)

\* The guards of the steps that each goroutine takes by itself.
CanHandle ==
  \/ dpc = "next" /\ (left < MaxBatch \/ (left > 0 /\ (store[key] # Absent \/ version < MaxVersion)))
  \/ dpc = "distribute" /\ ~writerWaits
  \/ dpc = "send" /\ (targets = {} \/ \E l \in targets : lpc[l] = "on")

CanJoin(l) ==
  \/ joinPC[l] = "block" /\ blockDeltas = Nobody
  \/ joinPC[l] = "add" /\ readers = {} /\ ~writerWaits
  \/ joinPC[l] = "list" /\ (toList[l] = {} \/ lpc[l] = "on")

CanResync == writerWaits /\ readers = {}

CanEndRun ==
  \/ runPC = "stopping" /\ startedLock = Nobody
  \/ runPC = "waiting" /\ processorPC = "done"

CanProcess ==
  \/ processorPC = "spawned" /\ ~writerWaits
  \/ processorPC = "started" /\ runPC = "waiting" /\ ~writerWaits
  \/ processorPC = "closing" /\ \A l \in listeners : lpc[l] = "gone"

CanListen(l) ==
  \/ lpc[l] = "on" /\ next[l] # Nil /\ handling[l] = Nil
  \/ lpc[l] = "on" /\ l \in addClosed
  \/ handling[l] # Nil
  \/ lpc[l] = "stopping" /\ handling[l] = Nil

SomebodyCanGoOn ==
  \/ CanHandle \/ CanResync \/ CanEndRun \/ CanProcess
  \/ \E l \in Listeners : CanJoin(l) \/ CanListen(l)

\* Nobody holds a lock, Run has not begun, goes on or has returned, and as long as it
\* goes on the handlers know what the store has.
Settled ==
  /\ startedLock = Nobody /\ blockDeltas = Nobody
  /\ runPC \in {"new", "running", "done"}
  /\ runPC = "running" => UpToDate

\* Who reads under listenersLock; the goroutines of the listeners run from
\* StartListeners until their addCh is closed.
ProgressInv ==
  /\ "deltas" \in readers <=> dpc = "send"
  /\ "processor" \in readers <=> processorPC = "closing"
  /\ listenersStarted <=> processorPC \in {"started", "closing", "done"}
  /\ processorPC = "none" <=> runPC = "new"
  /\ startedLock # Nobody => runPC # "new"
  /\ dpc # "idle" => \/ left < MaxBatch
                     \/ dpc = "next" /\ left > 0 /\ (store[key] # Absent \/ version < MaxVersion)
  /\ \A l \in Listeners :
       /\ listenersStarted /\ l \in listeners => lpc[l] # "off"
       /\ lpc[l] # "off" => l \in listeners /\ listenersStarted
       /\ lpc[l] \in {"stopping", "gone"} => l \in addClosed

\* Every step keeps the read lock with distribute and the processor, and the goroutines
\* of the listeners running.
LEMMA ProgressStep ==
  ASSUME SharedTypeOK, LockInv, ProgressInv, [Next]_vars
  PROVE  ProgressInv'
<1>1. ASSUME NEW k \in Keys, HandleDeltas(k) PROVE ProgressInv'
  <2>1. /\ dpc = "idle" /\ dpc' = "next" /\ left' = MaxBatch /\ key' = k
        /\ store[k] # Absent \/ version < MaxVersion
        /\ UNCHANGED <<store, version, readers, writerWaits, runPC, startedLock, processorPC,
                       listenersStarted, listeners, lpc, addClosed>>
    BY <1>1, Zenon DEF HandleDeltas, runVars, processorVars, rwVars
  <2>2. left' > 0
    BY <2>1, InformerAssumption
  <2> QED BY <2>1, <2>2, Zenon DEF ProgressInv
<1>2. CASE Change \/ Relist \/ Resync \/ Delete
  <2>1. PICK o \in Versions, n \in Notes, sync \in BOOLEAN : Notify(o, n, sync)
    BY <1>2, Notified, Zenon
  <2>2. /\ dpc = "next" /\ dpc' = "distribute" /\ left' = left - 1 /\ left \in 0 .. MaxBatch /\ left > 0
        /\ UNCHANGED <<readers, writerWaits, runPC, startedLock, processorPC, listenersStarted, listeners,
                       lpc, addClosed>>
    BY <2>1, Zenon DEF Notify, SharedTypeOK, runVars, processorVars, rwVars
  <2>3. left' < MaxBatch
    BY <2>2, InformerAssumption
  <2> QED BY <2>2, <2>3, Zenon DEF ProgressInv
<1>3. CASE distribute
  BY <1>3, InformerAssumption, Zenon DEF ProgressInv, LockInv, SharedTypeOK, distribute, deltaVars, runVars,
     processorVars, rwVars, joinVars, bufferVars, handlerVars
<1>4. CASE Distributed
  BY <1>4, InformerAssumption, Zenon DEF ProgressInv, LockInv, SharedTypeOK, Distributed, deltaVars, runVars,
     processorVars, rwVars, joinVars, bufferVars, handlerVars
<1>5. CASE DeltasHandled
  BY <1>5, InformerAssumption, Zenon DEF ProgressInv, LockInv, SharedTypeOK, DeltasHandled, deltaVars, runVars,
     processorVars, rwVars, joinVars, bufferVars, handlerVars
<1>6. ASSUME NEW l \in Listeners, Send(l) PROVE ProgressInv'
  BY <1>6, InformerAssumption, Zenon DEF ProgressInv, LockInv, SharedTypeOK, Send, deltaVars, runVars,
     processorVars, rwVars, joinVars, bufferVars, handlerVars
<1>7. ASSUME NEW l \in Listeners, AddEventHandler(l) PROVE ProgressInv'
  <2>1. UNCHANGED <<readers, writerWaits, runPC, dpc, left, key, store, version, processorPC,
                    listenersStarted, lpc, addClosed>>
    BY <1>7, Zenon DEF AddEventHandler, addListenerLocked, deltaVars, runVars, rwVars, processorVars
  <2>2. /\ startedLock' = startedLock \/ started
        /\ listeners' = listeners \/ (~started /\ listeners \subseteq listeners')
    BY <1>7, Zenon DEF AddEventHandler, addListenerLocked, processorVars
  <2>3. (started <=> runPC # "new") /\ (~started => ~listenersStarted)
    BY Zenon DEF LockInv, ProgressInv
  <2> QED BY <2>1, <2>2, <2>3, Zenon DEF ProgressInv
<1>8. ASSUME NEW l \in Listeners, BlockDeltas(l) PROVE ProgressInv'
  BY <1>8, InformerAssumption, Zenon DEF ProgressInv, LockInv, SharedTypeOK, BlockDeltas, deltaVars, runVars,
     processorVars, rwVars, joinVars, bufferVars, handlerVars
<1>9. ASSUME NEW l \in Listeners, addListener(l) PROVE ProgressInv'
  BY <1>9, InformerAssumption, Zenon DEF ProgressInv, LockInv, SharedTypeOK, addListener, addListenerLocked, deltaVars, runVars,
     processorVars, rwVars, joinVars, bufferVars, handlerVars
<1>10. ASSUME NEW l \in Listeners, NEW k \in Keys, AddItem(l, k) PROVE ProgressInv'
  BY <1>10, InformerAssumption, Zenon DEF ProgressInv, LockInv, SharedTypeOK, AddItem, deltaVars, runVars,
     processorVars, rwVars, joinVars, bufferVars, handlerVars
<1>11. ASSUME NEW l \in Listeners, Joined(l) PROVE ProgressInv'
  BY <1>11, InformerAssumption, Zenon DEF ProgressInv, LockInv, SharedTypeOK, Joined, deltaVars, runVars,
     processorVars, rwVars, joinVars, bufferVars, handlerVars
<1>12. CASE ResyncWaits
  BY <1>12, InformerAssumption, Zenon DEF ProgressInv, LockInv, SharedTypeOK, ResyncWaits, deltaVars, runVars,
     processorVars, rwVars, joinVars, bufferVars, handlerVars
<1>13. ASSUME NEW due \in SUBSET Listeners, shouldResync(due) PROVE ProgressInv'
  BY <1>13, InformerAssumption, Zenon DEF ProgressInv, LockInv, SharedTypeOK, shouldResync, deltaVars, runVars,
     processorVars, rwVars, joinVars, bufferVars, handlerVars
<1>14. CASE Run
  BY <1>14, InformerAssumption, Zenon DEF ProgressInv, LockInv, SharedTypeOK, Run, deltaVars, runVars,
     processorVars, rwVars, joinVars, bufferVars, handlerVars
<1>15. CASE ControllerReturns
  BY <1>15, InformerAssumption, Zenon DEF ProgressInv, LockInv, SharedTypeOK, ControllerReturns, deltaVars, runVars,
     processorVars, rwVars, joinVars, bufferVars, handlerVars
<1>16. CASE RunStops
  BY <1>16, InformerAssumption, Zenon DEF ProgressInv, LockInv, SharedTypeOK, RunStops, deltaVars, runVars,
     processorVars, rwVars, joinVars, bufferVars, handlerVars
<1>17. CASE RunReturns
  BY <1>17, InformerAssumption, Zenon DEF ProgressInv, LockInv, SharedTypeOK, RunReturns, deltaVars, runVars,
     processorVars, rwVars, joinVars, bufferVars, handlerVars
<1>18. CASE StartListeners
  BY <1>18, InformerAssumption, Zenon DEF ProgressInv, LockInv, SharedTypeOK, StartListeners, deltaVars, runVars,
     processorVars, rwVars, joinVars, bufferVars, handlerVars
<1>19. CASE CloseListeners
  BY <1>19, InformerAssumption, Zenon DEF ProgressInv, LockInv, SharedTypeOK, CloseListeners, deltaVars, runVars,
     processorVars, rwVars, joinVars, bufferVars, handlerVars
<1>20. CASE ProcessorReturns
  BY <1>20, InformerAssumption, Zenon DEF ProgressInv, LockInv, SharedTypeOK, ProcessorReturns, deltaVars, runVars,
     processorVars, rwVars, joinVars, bufferVars, handlerVars
<1>21. ASSUME NEW l \in Listeners, PopNext(l) PROVE ProgressInv'
  BY <1>21, InformerAssumption, Zenon DEF ProgressInv, LockInv, SharedTypeOK, PopNext, deltaVars, runVars,
     processorVars, rwVars, joinVars, bufferVars, handlerVars
<1>22. ASSUME NEW l \in Listeners, PopReturns(l) PROVE ProgressInv'
  BY <1>22, InformerAssumption, Zenon DEF ProgressInv, LockInv, SharedTypeOK, PopReturns, deltaVars, runVars,
     processorVars, rwVars, joinVars, bufferVars, handlerVars
<1>23. ASSUME NEW l \in Listeners, Handle(l) PROVE ProgressInv'
  BY <1>23, InformerAssumption, Zenon DEF ProgressInv, LockInv, SharedTypeOK, Handle, deltaVars, runVars,
     processorVars, rwVars, joinVars, bufferVars, handlerVars
<1>24. ASSUME NEW l \in Listeners, ListenerReturns(l) PROVE ProgressInv'
  BY <1>24, InformerAssumption, Zenon DEF ProgressInv, LockInv, SharedTypeOK, ListenerReturns, deltaVars, runVars,
     processorVars, rwVars, joinVars, bufferVars, handlerVars
<1>25. CASE UNCHANGED vars
  BY <1>25, InformerAssumption, Zenon DEF ProgressInv, LockInv, SharedTypeOK, vars, deltaVars, runVars,
     processorVars, rwVars, joinVars, bufferVars, handlerVars
<1> QED BY <1>1, <1>2, <1>3, <1>4, <1>5, <1>6, <1>7, <1>8, <1>9, <1>10, <1>11, <1>12, <1>13, <1>14, <1>15,
           <1>16, <1>17, <1>18, <1>19, <1>20, <1>21, <1>22, <1>23, <1>24, <1>25, Zenon
     DEF Next, Deltas, Join, Resyncs, EndRun, Processor, Listen

\* sharedProcessor.run waits for listenersLock before it has started the listeners only
\* while distribute waits for one of them, and a writer for distribute.
LEMMA ProcessorStarts ==
  ASSUME IInv, ProgressInv, ~SomebodyCanGoOn, ~Wedged
  PROVE  processorPC # "spawned"
<1> SUFFICES ASSUME processorPC = "spawned" PROVE FALSE
  OBVIOUS
<1>1. writerWaits
  BY Zenon DEF SomebodyCanGoOn, CanProcess
<1>2. readers # {}
  BY <1>1, Zenon DEF SomebodyCanGoOn, CanResync
<1>3. "deltas" \in readers
  BY <1>2, ZenonT(40) DEF IInv, SharedTypeOK, ProgressInv
<1>4. dpc = "send"
  BY <1>3, Zenon DEF ProgressInv
<1>5. targets # {}
  BY <1>4, Zenon DEF SomebodyCanGoOn, CanHandle
<1> QED BY <1>1, <1>5, Zenon DEF Wedged

\* While the informer runs, pop of a listener that has joined is there to receive, or
\* sharedProcessor.run has still to start it.
LEMMA PopReceives ==
  ASSUME IInv, ProgressInv, ~stopped, runPC # "new", NEW l \in listeners
  PROVE  lpc[l] = "on" \/ processorPC = "spawned"
<1>1. /\ SharedTypeOK /\ LockInv /\ l \in Listeners
      /\ processorPC \in {"none", "spawned", "started", "closing", "done"}
  BY Zenon DEF IInv, SharedTypeOK
<1>2. addClosed = {} /\ processorPC \notin {"none", "closing", "done"}
  BY <1>1, Zenon DEF LockInv, ProgressInv
<1>3. lpc[l] \in {"off", "on"}
  BY <1>1, <1>2, Zenon DEF SharedTypeOK, ProgressInv
<1>4. CASE lpc[l] = "off"
  <2>1. ~listenersStarted
    BY <1>1, <1>4, Zenon DEF ProgressInv
  <2> QED BY <1>1, <1>2, <2>1, Zenon DEF ProgressInv
<1> QED BY <1>3, <1>4, Zenon

\* When nobody can go on, everybody has arrived, or the processor is kept from starting.
LEMMA RestIsSettled ==
  ASSUME IInv, ProgressInv, ~SomebodyCanGoOn, ~Wedged
  PROVE  Settled
<1>a. SharedTypeOK /\ LockInv
  BY Zenon DEF IInv
<1>b. /\ ~CanHandle /\ ~CanResync /\ ~CanEndRun /\ ~CanProcess
      /\ \A l \in Listeners : ~CanJoin(l) /\ ~CanListen(l)
  BY Zenon DEF SomebodyCanGoOn
<1>c. ASSUME dpc # "send", processorPC # "closing" PROVE readers = {}
  <2>1. readers \subseteq {"deltas", "processor"} /\ "deltas" \notin readers /\ "processor" \notin readers
    BY <1>a, <1>c, Zenon DEF SharedTypeOK, ProgressInv
  <2> QED BY <2>1
<1>d. processorPC # "spawned"
  BY ProcessorStarts, Zenon
<1>1. blockDeltas = Nobody
  <2>1. CASE blockDeltas = "deltas"
    <3>1. dpc # "idle" /\ runPC = "running" /\ ~stopped /\ processorPC # "closing"
      BY <1>a, <2>1, Zenon DEF LockInv
    <3>2. dpc # "next"
      BY <1>b, <3>1, Zenon DEF CanHandle, ProgressInv
    <3>3. dpc # "distribute"
      BY <1>b, <1>c, <3>1, Zenon DEF CanHandle, CanResync
    <3>4. dpc # "send"
      <4> SUFFICES ASSUME dpc = "send" PROVE FALSE
        OBVIOUS
      <4>1. PICK l \in targets : lpc[l] # "on"
        BY <1>b, Zenon DEF CanHandle
      <4>2. l \in listeners
        BY <1>a, <4>1, Zenon DEF SharedTypeOK
      <4> QED BY <1>d, <3>1, <4>1, <4>2, PopReceives, Zenon
    <3> QED BY <1>a, <3>1, <3>2, <3>3, <3>4, Zenon DEF SharedTypeOK
  <2>2. ASSUME NEW l \in Listeners, blockDeltas = l PROVE FALSE
    <3>1. joinPC[l] \in {"add", "list"} /\ startedLock = l
      BY <1>a, <2>2, Zenon DEF LockInv
    <3>2. startedLock # Nobody /\ blockDeltas # "deltas"
      BY <2>2, <3>1, InformerAssumption
    <3>3. ~stopped /\ dpc = "idle" /\ runPC # "new"
      BY <1>a, <3>2, Zenon DEF LockInv, ProgressInv
    <3>4. readers = {}
      BY <1>a, <1>c, <3>3, Zenon DEF LockInv
    <3>5. joinPC[l] # "add"
      BY <1>b, <3>4, Zenon DEF CanJoin, CanResync
    <3>6. joinPC[l] = "list" /\ lpc[l] # "on" /\ l \in listeners
      BY <1>a, <1>b, <3>1, <3>5, Zenon DEF CanJoin, LockInv
    <3> QED BY <1>d, <3>3, <3>6, PopReceives, Zenon
  <2> QED BY <1>a, <2>1, <2>2, Zenon DEF SharedTypeOK
<1>2. startedLock = Nobody
  <2> SUFFICES ASSUME NEW l \in Listeners, startedLock = l PROVE FALSE
    BY <1>a, Zenon DEF SharedTypeOK
  <2>1. joinPC[l] \in {"block", "add", "list"} /\ blockDeltas # l
    BY <1>1, <1>a, InformerAssumption, Zenon DEF LockInv
  <2>2. joinPC[l] = "block"
    BY <1>a, <2>1, Zenon DEF LockInv
  <2> QED BY <1>1, <1>b, <2>2, Zenon DEF CanJoin
<1>3. dpc = "idle"
  BY <1>1, <1>a, InformerAssumption DEF LockInv
<1>4. runPC \in {"new", "running", "done"}
  <2>1. runPC # "stopping"
    BY <1>2, <1>b, Zenon DEF CanEndRun
  <2>2. runPC # "waiting"
    <3> SUFFICES ASSUME runPC = "waiting" PROVE FALSE
      OBVIOUS
    <3>1. processorPC \notin {"none", "done"}
      BY <1>b, Zenon DEF CanEndRun, ProgressInv
    <3>3. processorPC # "started"
      BY <1>3, <1>b, <1>c, Zenon DEF CanProcess, CanResync
    <3>4. processorPC # "closing"
      <4> SUFFICES ASSUME processorPC = "closing" PROVE FALSE
        OBVIOUS
      <4>1. PICK l \in listeners : lpc[l] # "gone"
        BY <1>b, Zenon DEF CanProcess
      <4>2. l \in Listeners /\ l \in addClosed /\ listenersStarted
        BY <1>a, <4>1, Zenon DEF SharedTypeOK, LockInv, ProgressInv
      <4>3. lpc[l] \in {"on", "stopping"}
        BY <1>a, <4>1, <4>2, Zenon DEF SharedTypeOK, ProgressInv
      <4> QED BY <1>b, <4>2, <4>3, Zenon DEF CanListen
    <3> QED BY <1>a, <1>d, <3>1, <3>3, <3>4, Zenon DEF SharedTypeOK
  <2> QED BY <1>a, <2>1, <2>2, Zenon DEF SharedTypeOK
<1>5. ASSUME runPC = "running", NEW l \in listeners, NEW k \in Keys, k \notin missed[l]
      PROVE  view[l][k] = store[k]
  <2>1. l \in Listeners /\ ~stopped /\ runPC # "new"
    BY <1>a, <1>5, Zenon DEF SharedTypeOK, LockInv
  <2>2. addClosed = {}
    BY <1>a, <2>1, Zenon DEF LockInv
  <2>3. k \notin toList[l]
    BY <1>2, <1>a, <2>1, InformerAssumption DEF LockInv
  <2>4. Told(l, k, store[k])
    BY <1>3, <1>5, <2>2, <2>3, Zenon DEF IInv, AgreeInv, Agree, Awaits
  <2>5. lpc[l] = "on"
    BY <1>d, <2>1, PopReceives, Zenon
  <2>6. handling[l] = Nil /\ next[l] = Nil
    BY <1>b, <2>1, <2>5, Zenon DEF CanListen
  <2>7. Held(l) = 0
    BY <2>6, Zenon DEF Held
  <2>8. 0 .. Held(l) - 1 = {}
    BY <2>7
  <2> QED BY <2>4, <2>6, <2>8, Zenon DEF Told
<1> QED BY <1>1, <1>2, <1>4, <1>5, Zenon DEF Settled, UpToDate

\* The progress invariant holds throughout.
LEMMA ProgressInvariant == Spec => []ProgressInv
<1>1. Init => ProgressInv
  BY InformerAssumption, Zenon DEF Init, ProgressInv
<1>2. IInv /\ ProgressInv /\ [Next]_vars => ProgressInv'
  BY ProgressStep, Zenon DEF IInv
<1> QED BY <1>1, <1>2, SharedInvariant, PTL DEF Spec, Safe

\* There is one circle of waiting goroutines and no other.  As long as a lock is held,
\* Run is on its way back or a handler does not know what the store has (but for missed
\* changes), one of the goroutines of HandleDeltas, AddEventHandler, shouldResync, Run,
\* sharedProcessor.run, pop and run is not waiting for a lock, a channel or another
\* goroutine, or else shouldResync waits for distribute, distribute for a listener that
\* sharedProcessor.run has not started, and sharedProcessor.run for shouldResync.
THEOREM SomebodyGoesOn == Spec => [](SomebodyCanGoOn \/ Settled \/ Wedged)
<1>1. IInv /\ ProgressInv => SomebodyCanGoOn \/ Settled \/ Wedged
  BY RestIsSettled, Zenon
<1> QED BY <1>1, SharedInvariant, ProgressInvariant, PTL

\* The exception is not wider than the deadlock: no step of anybody, a handler that
\* joins, a resync or the stop, ends it.
THEOREM WedgeLasts == Spec => [][Wedged => Wedged']_vars
<1>1. ASSUME IInv, ProgressInv, [Next]_vars, Wedged PROVE Wedged'
  <2>1. /\ processorPC = "spawned" /\ writerWaits /\ targets # {} /\ ~listenersStarted /\ runPC # "new"
        /\ targets \subseteq Listeners /\ \A l \in Listeners : lpc[l] = "off"
    BY <1>1, Zenon DEF Wedged, ProgressInv, IInv, SharedTypeOK
  <2>2. dpc = "send" /\ "deltas" \in readers
    BY <1>1, <2>1, Zenon DEF IInv, LockInv, ProgressInv, SharedTypeOK
  <2>3. UNCHANGED <<processorPC, writerWaits, targets>>
    <3>1. ASSUME NEW k \in Keys, HandleDeltas(k) PROVE FALSE
      BY <2>2, <3>1, Zenon DEF HandleDeltas
    <3>2. CASE Deltas
      BY <2>1, <2>2, <3>2, Zenon DEF Deltas, Change, Relist, Resync, Delete, Upsert, Notify, distribute,
         Distributed, DeltasHandled, Send, add
    <3>3. ASSUME NEW l \in Listeners, AddEventHandler(l) \/ Join(l)
          PROVE  UNCHANGED <<processorPC, writerWaits, targets>>
      BY <3>3, Zenon DEF AddEventHandler, Join, BlockDeltas, addListener, addListenerLocked, AddItem, Joined,
         deltaVars, processorVars, rwVars
    <3>4. ASSUME NEW l \in Listeners, Listen(l) PROVE UNCHANGED <<processorPC, writerWaits, targets>>
      BY <3>4, Zenon DEF Listen, PopNext, PopReturns, Handle, ListenerReturns, deltaVars, processorVars, rwVars
    <3>5. ~ResyncWaits /\ ~Resyncs /\ ~Run
      BY <2>1, <2>2, Zenon DEF ResyncWaits, Resyncs, shouldResync, Run
    <3>6. CASE ControllerReturns \/ EndRun
      BY <3>6, Zenon DEF ControllerReturns, EndRun, RunStops, RunReturns, deltaVars, processorVars, rwVars
    <3>7. ~Processor
      BY <2>1, Zenon DEF Processor, StartListeners, CloseListeners, ProcessorReturns
    <3>8. CASE UNCHANGED vars
      BY <3>8, Zenon DEF vars, deltaVars, processorVars, rwVars
    <3> QED BY <1>1, <3>1, <3>2, <3>3, <3>4, <3>5, <3>6, <3>7, <3>8, Zenon DEF Next
  <2> QED BY <2>1, <2>3, Zenon DEF Wedged
<1> QED BY <1>1, SharedInvariant, ProgressInvariant, PTL DEF Spec, Safe
=============================================================================
