-------------------------- MODULE DeltaFIFO_proofs --------------------------
(* Safety of the DeltaFIFO for any number of keys, any versions and any    *)
(* compressor that returns a list of deltas.                               *)
EXTENDS DeltaFIFOClients, FiniteSetTheorems, SequenceTheorems, TLAPS

CompressorTyped == \A ds \in Deltas : Compress(ds) \in Deltas
-----------------------------------------------------------------------------
(* Lemmas about the operators *)

\* dedupDeltas turns deltas into deltas.
LEMMA DedupType ==
  ASSUME NEW ds \in Deltas
  PROVE  DedupDeltas(ds) \in Deltas
<1>1. CASE Len(ds) >= 2 /\ IsDeletionDup(ds[Len(ds)], ds[Len(ds)-1])
  <2>1. TheDeletion(ds[Len(ds)], ds[Len(ds)-1]) \in Delta
    BY <1>1 DEF TheDeletion, Deltas
  <2>2. SubSeq(ds, 1, Len(ds)-2) \in Seq(Delta)
    BY <1>1 DEF Deltas
  <2> QED
    BY <1>1, <2>1, <2>2 DEF DedupDeltas, Deltas
<1> QED
  BY <1>1 DEF DedupDeltas, Deltas

\* Whatever is queued for a key, its entry in items is a list of deltas.
LEMMA QueuedType ==
  ASSUME CompressorTyped, NEW ds \in Deltas, NEW d \in Delta
  PROVE  Queued(ds, d) \in Deltas
<1>1. Append(ds, d) \in Deltas
  BY DEF Deltas
<1> QED
  BY <1>1, DedupType DEF Queued, CompressorTyped

\* The deltas that the methods build.
LEMMA DeltaType ==
  /\ \A t \in {"Added", "Updated", "Deleted", "Sync"}, o \in Nat : MkDelta(t, o) \in Delta
  /\ \A o \in Nat : DeletedFinalStateUnknown(o) \in Delta
BY DEF MkDelta, DeletedFinalStateUnknown, Delta

\* An order of a finite set lists each of its elements exactly once.
LEMMA OrdersProperties ==
  ASSUME NEW S, IsFiniteSet(S), NEW l \in Orders(S)
  PROVE  /\ l \in Seq(S)
         /\ Len(l) = Cardinality(S)
         /\ \A x \in S : \E i \in 1..Len(l) : l[i] = x
         /\ \A i, j \in 1..Len(l) : l[i] = l[j] => i = j
<1>1. Cardinality(S) \in Nat
  BY FS_CardinalityType
<1>2. l \in [1..Cardinality(S) -> S]
  BY DEF Orders, Bijection, Injection
<1>3. /\ \A x \in S : \E i \in 1..Cardinality(S) : l[i] = x
      /\ \A i, j \in 1..Cardinality(S) : l[i] = l[j] => i = j
  BY <1>2 DEF Orders, Bijection, Injection, Surjection, IsInjective
<1>4. l \in Seq(S) /\ Len(l) = Cardinality(S)
  BY <1>1, <1>2
<1> QED
  BY <1>3, <1>4
-----------------------------------------------------------------------------
(* The inductive invariant *)

\* Before the first producer call only Resync has queued anything: known keys,
\* each once, which the first Replace will count, listed or gone.
Unpopulated ==
  ~populated => /\ IsInjective(queue)
                /\ \A k \in Range(queue) : items[k] # <<>> /\ known[k] # NoObj
                /\ ~hasKnown => queue = <<>>
                /\ popKey \notin Range(queue)
                /\ firstBatch = {}

\* The keys of the first batch are among the ids the counter still counts.
FirstBatchAhead ==
  \A k \in firstBatch :
    \E i \in 1..Len(queue) : i <= initialPopulationCount /\ queue[i] = k

FifoInv == TypeOK /\ NoItemStranded /\ Unpopulated /\ FirstBatchAhead

\* Ids at the front of a queue keep their index when the queue is extended,
\* so what the invariant says of keys already queued survives an Append.
LEMMA ExtendedQueue ==
  ASSUME NEW q \in Seq(Keys), NEW r \in Seq(Keys)
  PROVE  /\ q \o r \in Seq(Keys)
         /\ Len(q \o r) = Len(q) + Len(r)
         /\ \A i \in 1..Len(q) : (q \o r)[i] = q[i]
         /\ \A i \in 1..Len(r) : (q \o r)[Len(q) + i] = r[i]
         /\ Range(q) \subseteq Range(q \o r)
         /\ Range(r) \subseteq Range(q \o r)
<1>1. /\ q \o r \in Seq(Keys)
      /\ Len(q \o r) = Len(q) + Len(r)
      /\ \A i \in 1..Len(q) : (q \o r)[i] = q[i]
      /\ \A i \in 1..Len(r) : (q \o r)[Len(q) + i] = r[i]
  OBVIOUS
<1> QED
  BY <1>1, RangeConcatenation

\* Only the empty queue holds no id.
LEMMA EmptyRange ==
  ASSUME NEW q \in Seq(Keys), Range(q) = {}
  PROVE  q = <<>>
<1>1. ASSUME q # <<>> PROVE FALSE
  <2>1. 1 \in DOMAIN q
    BY <1>1
  <2>2. q[1] \in Range(q)
    BY <2>1 DEF Range
  <2> QED
    BY <2>2
<1> QED
  BY <1>1

\* Two sequences of distinct keys that share none make one of distinct keys.
LEMMA DistinctConcat ==
  ASSUME NEW l \in Seq(Keys), NEW d \in Seq(Keys), IsInjective(l), IsInjective(d),
         Range(l) \cap Range(d) = {}
  PROVE  IsInjective(l \o d)
<1>1. /\ Len(l \o d) = Len(l) + Len(d) /\ DOMAIN (l \o d) = 1..Len(l \o d)
      /\ \A i \in 1..Len(l) : (l \o d)[i] = l[i]
      /\ \A i \in 1..Len(d) : (l \o d)[Len(l) + i] = d[i]
  BY ExtendedQueue
<1>2. ASSUME NEW i \in 1..Len(l), NEW j \in 1..Len(d), l[i] = d[j] PROVE FALSE
  <2>1. l[i] \in Range(l) /\ l[i] \in Range(d)
    BY <1>2 DEF Range
  <2> QED
    BY <2>1, Zenon
<1> SUFFICES ASSUME NEW i \in 1..Len(l \o d), NEW j \in 1..Len(l \o d),
                    (l \o d)[i] = (l \o d)[j]
             PROVE  i = j
  BY <1>1, Zenon DEF IsInjective
<1>3. i \in 1..Len(l) \/ (i - Len(l) \in 1..Len(d) /\ (l \o d)[i] = d[i - Len(l)])
  BY <1>1
<1>4. j \in 1..Len(l) \/ (j - Len(l) \in 1..Len(d) /\ (l \o d)[j] = d[j - Len(l)])
  BY <1>1
<1>5. CASE i \in 1..Len(l) /\ j \in 1..Len(l)
  BY <1>1, <1>5 DEF IsInjective
<1>6. CASE i \notin 1..Len(l) /\ j \notin 1..Len(l)
  <2>1. i - Len(l) = j - Len(l)
    BY <1>3, <1>4, <1>6 DEF IsInjective
  <2> QED
    BY <2>1
<1>7. CASE i \in 1..Len(l) /\ j \notin 1..Len(l)
  BY <1>1, <1>2, <1>4, <1>7, Zenon
<1>8. CASE i \notin 1..Len(l) /\ j \in 1..Len(l)
  BY <1>1, <1>2, <1>3, <1>8, Zenon
<1> QED
  BY <1>5, <1>6, <1>7, <1>8, Zenon

\* A queue of different ids is no longer than the set they are from is large.
LEMMA DistinctLength ==
  ASSUME NEW q \in Seq(Keys), IsInjective(q), NEW S, IsFiniteSet(S), Range(q) \subseteq S
  PROVE  Len(q) <= Cardinality(S)
<1>1. Len(q) \in Nat /\ IsFiniteSet(1..Len(q)) /\ Cardinality(1..Len(q)) = Len(q)
  <2>1. Len(q) \in Nat
    BY LenProperties
  <2>2. 1 \in Int /\ Len(q) \in Int
    BY <2>1
  <2>3. /\ IsFiniteSet(1..Len(q))
        /\ Cardinality(1..Len(q)) = IF 1 > Len(q) THEN 0 ELSE Len(q) - 1 + 1
    BY <2>2, FS_Interval
  <2> QED BY <2>1, <2>3
<1>2. q \in [1..Len(q) -> S]
  BY DEF Range
<1>3. q \in Injection(1..Len(q), S)
  BY <1>2 DEF Injection, IsInjective
<1>4. Cardinality(1..Len(q)) <= Cardinality(S)
  BY <1>3, FS_Injection
<1> QED BY <1>1, <1>4

\* A method that only appends ids, among them every key that enters items,
\* strands nothing and leaves the first batch where it was.
LEMMA AppendedIds ==
  ASSUME FifoInv, NEW r \in Seq(Keys), queue' = queue \o r,
         \A k \in Keys : items[k] = <<>> /\ items'[k] # <<>> => k \in Range(r)
  PROVE  /\ queue' \in Seq(Keys)
         /\ NoItemStranded'
         /\ UNCHANGED <<initialPopulationCount, firstBatch>> => FirstBatchAhead'
<1>1. queue \in Seq(Keys) /\ initialPopulationCount \in Nat
  BY DEF FifoInv, TypeOK
<1>2. NoItemStranded'
  BY <1>1, ExtendedQueue DEF FifoInv, NoItemStranded
<1>3. UNCHANGED <<initialPopulationCount, firstBatch>> => FirstBatchAhead'
  BY <1>1, ExtendedQueue DEF FifoInv, FirstBatchAhead
<1> QED
  BY <1>1, <1>2, <1>3, ExtendedQueue

\* queueActionLocked on one key keeps the four facts a producer can disturb.
LEMMA QueueActionInv ==
  ASSUME CompressorTyped, FifoInv, NEW k \in Keys, NEW d \in Delta, populated' = TRUE,
         queueActionLocked(k, d),
         UNCHANGED <<initialPopulationCount, hasKnown, popVars, known, firstBatch>>
  PROVE  FifoInv'
<1> DEFINE nd == Queued(items[k], d)
<1>1. nd \in Deltas
  BY QueuedType DEF FifoInv, TypeOK
<1> DEFINE r == IF items[k] = <<>> /\ nd # <<>> THEN <<k>> ELSE <<>>
<1>2. /\ r \in Seq(Keys)
      /\ queue' = queue \o r
      /\ items[k] = <<>> /\ nd # <<>> => r = <<k>>
  <2>1. CASE items[k] = <<>> /\ nd # <<>>
    BY <2>1, AppendIsConcat DEF queueActionLocked, FifoInv, TypeOK
  <2>2. CASE ~(items[k] = <<>> /\ nd # <<>>)
    BY <2>2, ConcatEmptySeq DEF queueActionLocked, FifoInv, TypeOK
  <2> QED
    BY <2>1, <2>2
<1>3. items' = [items EXCEPT ![k] = nd]
  BY DEF queueActionLocked
<1> HIDE DEF nd, r
<1>4. \A x \in Keys : items[x] = <<>> /\ items'[x] # <<>> => x \in Range(r)
  BY <1>2, <1>3 DEF FifoInv, TypeOK, Range
<1>5. /\ queue' \in Seq(Keys)
      /\ NoItemStranded'
      /\ FirstBatchAhead'
  BY <1>2, <1>4, AppendedIds
<1>6. TypeOK'
  BY <1>1, <1>3, <1>5 DEF FifoInv, TypeOK, popVars, LockFree
<1> QED
  BY <1>5, <1>6 DEF FifoInv, Unpopulated

\* addIfNotPresent keeps the types of queue and items.
LEMMA AddIfNotPresentType ==
  ASSUME FifoInv, NEW k \in Keys, NEW ds \in Deltas, addIfNotPresent(k, ds)
  PROVE  queue' \in Seq(Keys) /\ items' \in [Keys -> Deltas] /\ populated' = TRUE
<1>1. CASE items[k] # <<>>
  BY <1>1 DEF addIfNotPresent, FifoInv, TypeOK
<1>2. CASE items[k] = <<>>
  <2>1. items' = [items EXCEPT ![k] = ds] /\ queue' = Append(queue, k) /\ populated' = TRUE
    BY <1>2 DEF addIfNotPresent
  <2> QED
    BY <2>1, AppendProperties DEF FifoInv, TypeOK
<1> QED
  BY <1>1, <1>2

\* Add, Update and Delete keep the invariant.
LEMMA ChangeInv ==
  ASSUME CompressorTyped, FifoInv, NEW k \in Keys, NEW o \in Nat,
         Add(k, o) \/ Update(k, o) \/ Delete(k, o)
  PROVE  FifoInv'
<1>1. \A t \in {"Added", "Updated", "Deleted"} : MkDelta(t, o) \in Delta
  BY DeltaType
<1>2. CASE Add(k, o)
  BY <1>1, <1>2, QueueActionInv DEF Add
<1>3. CASE Update(k, o)
  BY <1>1, <1>3, QueueActionInv DEF Update
<1>4. CASE Delete(k, o) /\ UNCHANGED <<items, queue>>
  BY <1>4 DEF Delete, FifoInv, TypeOK, NoItemStranded, Unpopulated, FirstBatchAhead, popVars, LockFree
<1>5. CASE Delete(k, o) /\ queueActionLocked(k, MkDelta("Deleted", o))
  BY <1>1, <1>5, QueueActionInv DEF Delete
<1> QED
  BY <1>2, <1>3, <1>4, <1>5 DEF Delete

\* AddIfNotPresent, and Pop's requeueing of an item, keep the invariant.
LEMMA AddIfNotPresentInv ==
  ASSUME FifoInv, NEW k \in Keys, NEW ds \in Deltas, addIfNotPresent(k, ds), TypeOK',
         UNCHANGED <<initialPopulationCount, firstBatch>>
  PROVE  FifoInv'
<1> DEFINE r == IF items[k] = <<>> THEN <<k>> ELSE <<>>
<1>1. r \in Seq(Keys) /\ queue' = queue \o r
  <2>1. CASE items[k] = <<>>
    <3>1. queue \in Seq(Keys) /\ queue' = Append(queue, k)
      BY <2>1 DEF addIfNotPresent, FifoInv, TypeOK
    <3> QED
      BY <2>1, <3>1, AppendIsConcat
  <2>2. CASE items[k] # <<>>
    BY <2>2, ConcatEmptySeq DEF addIfNotPresent, FifoInv, TypeOK
  <2> QED
    BY <2>1, <2>2
<1>2. \A x \in Keys : items[x] = <<>> /\ items'[x] # <<>> => x \in Range(r)
  <2> SUFFICES ASSUME NEW x \in Keys, items[x] = <<>>, items'[x] # <<>>
               PROVE  x \in Range(r)
    OBVIOUS
  <2>1. x = k
    BY DEF addIfNotPresent, FifoInv, TypeOK
  <2> QED
    BY <2>1 DEF Range
<1> HIDE DEF r
<1>3. NoItemStranded' /\ FirstBatchAhead'
  BY <1>1, <1>2, AppendedIds
<1> QED
  BY <1>3 DEF FifoInv, Unpopulated, addIfNotPresent

\* The ids Replace and Resync append are exactly the keys that enter items.
LEMMA FreshOrder ==
  ASSUME NEW S \in SUBSET Keys, NEW new, NEW l \in Orders(Fresh(S, new))
  PROVE  /\ l \in Seq(Keys)
         /\ Range(l) = Fresh(S, new)
         /\ IsInjective(l)
<1>1. Fresh(S, new) \subseteq Keys
  BY DEF Fresh
<1>2. IsFiniteSet(Fresh(S, new))
  BY <1>1, FS_Subset, KeysAssumption
<1>3. l \in Seq(Fresh(S, new)) /\ IsInjective(l)
  BY <1>2, OrdersProperties DEF IsInjective
<1>4. l \in Seq(Keys)
  BY <1>1, <1>3, SeqMonotonic
<1>5. Range(l) = Fresh(S, new)
  BY <1>2, <1>3, OrdersProperties DEF Range
<1> QED
  BY <1>3, <1>4, <1>5
-----------------------------------------------------------------------------
(* Replace and Resync *)

\* The items Replace leaves are lists of deltas.
LEMMA ReplacedType ==
  ASSUME CompressorTyped, FifoInv, NEW list \in [Keys -> Nat]
  PROVE  ReplacedItems(list) \in [Keys -> Deltas]
<1> SUFFICES ASSUME NEW k \in Keys
             PROVE  ReplacedItems(list)[k] \in Deltas
  BY DEF ReplacedItems
<1>1. items[k] \in Deltas
  BY DEF FifoInv, TypeOK
<1>2. Queued(items[k], MkDelta("Sync", list[k])) \in Deltas
  BY <1>1, QueuedType, DeltaType
<1>3. ASSUME k \in Gone(list)
      PROVE  Queued(items[k], DeletedFinalStateUnknown(LastKnown(k))) \in Deltas
  <2>1. CASE hasKnown
    <3>1. LastKnown(k) \in Nat
      BY <2>1 DEF LastKnown, FifoInv, TypeOK
    <3> QED
      BY <3>1, <1>1, QueuedType, DeltaType
  <2>2. CASE ~hasKnown
    <3>1. items[k] # <<>>
      BY <1>3, <2>2 DEF Gone
    <3>2. Len(items[k]) \in 1..Len(items[k])
      BY <1>1, <3>1 DEF Deltas
    <3>3. Last(items[k]) \in Delta
      BY <1>1, <3>2, ElementOfSeq DEF Last, Deltas
    <3>4. LastKnown(k) \in Nat
      BY <2>2, <3>3 DEF LastKnown, Delta
    <3> QED
      BY <3>4, <1>1, QueuedType, DeltaType
  <2> QED
    BY <2>1, <2>2
<1> QED
  BY <1>1, <1>2, <1>3 DEF ReplacedItems

\* Replace keeps the invariant.  The first Replace finds different ids of known
\* keys and appends others, so that the queue is not longer than the population it
\* counts: the listed keys and the known ones that are gone.
LEMMA ReplaceInv ==
  ASSUME CompressorTyped, FifoInv, NEW list \in [Keys -> Nat], Replace(list)
  PROVE  FifoInv'
<1> DEFINE new == ReplacedItems(list)
           A == Fresh(Listed(list), new)
           B == Fresh(Gone(list), new)
<1>1. PICK l \in Orders(A), d \in Orders(B) : queue' = queue \o (l \o d)
  BY DEF Replace
<1>2. new \in [Keys -> Deltas] /\ items' = new
  BY ReplacedType DEF Replace
<1>3. Listed(list) \in SUBSET Keys /\ Gone(list) \in SUBSET Keys
  BY DEF Listed, Gone
<1>4. /\ l \in Seq(Keys) /\ Range(l) = A /\ IsInjective(l)
      /\ d \in Seq(Keys) /\ Range(d) = B /\ IsInjective(d)
  BY <1>3, FreshOrder
<1>5. \A k \in Keys : items[k] = <<>> /\ new[k] # <<>> => k \in A \cup B
  <2> SUFFICES ASSUME NEW k \in Keys, items[k] = <<>>, new[k] # <<>>
               PROVE  k \in A \cup B
    OBVIOUS
  <2>1. k \in Listed(list) \/ k \in Gone(list)
    BY DEF ReplacedItems
  <2> QED
    BY <2>1 DEF Fresh
<1> HIDE DEF new, A, B
<1>6. queue \in Seq(Keys)
  BY DEF FifoInv, TypeOK
<1>7. l \o d \in Seq(Keys)
  BY <1>4, ConcatProperties
<1>8. Range(l \o d) = A \cup B
  BY <1>4, RangeConcatenation
<1>9. /\ queue' \in Seq(Keys)
      /\ NoItemStranded'
      /\ UNCHANGED <<initialPopulationCount, firstBatch>> => FirstBatchAhead'
  <2>1. \A k \in Keys : items[k] = <<>> /\ items'[k] # <<>> => k \in Range(l \o d)
    BY <1>2, <1>5, <1>8
  <2> QED
    BY <2>1, <1>1, <1>7, AppendedIds
<1>10. Cardinality(Listed(list)) \in Nat /\ ReplacePopulation(list) \in Nat
  <2>1. Cardinality(Listed(list)) \in Nat /\ Cardinality(Gone(list)) \in Nat
    BY <1>3, FS_Subset, FS_CardinalityType, KeysAssumption
  <2> QED
    BY <2>1 DEF ReplacePopulation
<1>11. TypeOK'
  BY <1>2, <1>3, <1>9, <1>10 DEF Replace, FifoInv, TypeOK, popVars, LockFree
<1>12. FirstBatchAhead'
  <2>1. CASE populated
    BY <2>1, <1>9 DEF Replace
  <2>2. CASE ~populated
    <3> DEFINE P == Listed(list) \cup Gone(list)
    <3>1. /\ IsInjective(queue) /\ \A k \in Range(queue) : k \in Keys /\ items[k] # <<>> /\ known[k] # NoObj
          /\ ~hasKnown => queue = <<>>
      BY <2>2, <1>6 DEF FifoInv, Unpopulated, Range
    <3>2. /\ A \subseteq Listed(list) /\ B \subseteq Gone(list)
          /\ \A k \in A \cup B : items[k] = <<>>
          /\ Listed(list) \cap Gone(list) = {}
      BY DEF A, B, Fresh, Listed, Gone
    <3>3. IsInjective(l \o d)
      BY <1>4, <3>2, DistinctConcat
    <3>4. IsInjective(queue')
      BY <1>1, <1>6, <1>7, <1>8, <3>1, <3>2, <3>3, DistinctConcat
    <3>5. Range(queue) \subseteq P
      <4>1. CASE hasKnown
        BY <3>1, <4>1 DEF Listed, Gone
      <4>2. CASE ~hasKnown
        BY <3>1, <4>2 DEF Range
      <4> QED BY <4>1, <4>2
    <3>6. Range(queue') = Range(queue) \cup (A \cup B)
      <4>1. ASSUME NEW r \in Seq(Keys)
            PROVE  Range(queue \o r) = Range(queue) \cup Range(r)
        BY <1>6, RangeConcatenation
      <4> QED BY <4>1, <1>1, <1>7, <1>8
    <3>7. Range(queue') \subseteq P
      BY <3>2, <3>5, <3>6
    <3>8. IsFiniteSet(P) /\ Cardinality(P) = initialPopulationCount'
      <4>1. IsFiniteSet(Listed(list)) /\ IsFiniteSet(Gone(list))
        BY <1>3, FS_Subset, KeysAssumption
      <4>2. /\ IsFiniteSet(P)
            /\ Cardinality(P) = Cardinality(Listed(list)) + Cardinality(Gone(list)) - Cardinality({})
        BY <4>1, <3>2, FS_Union
      <4>3. Cardinality({}) = 0 /\ Cardinality(Gone(list)) \in Nat
        BY <4>1, FS_EmptySet, FS_CardinalityType
      <4>4. ~hasKnown => Gone(list) = {}
        <5> SUFFICES ASSUME ~hasKnown PROVE Gone(list) = {}
          OBVIOUS
        <5>1. Range(queue) = {}
          BY <3>1 DEF Range
        <5> QED BY <5>1 DEF Gone, FifoInv, NoItemStranded
      <4>5. initialPopulationCount' = ReplacePopulation(list)
        BY <2>2 DEF Replace
      <4>6. CASE hasKnown
        BY <4>2, <4>3, <4>5, <4>6, <1>10 DEF ReplacePopulation
      <4>7. CASE ~hasKnown
        BY <4>2, <4>3, <4>4, <4>5, <4>7, <1>10 DEF ReplacePopulation
      <4> QED BY <4>2, <4>6, <4>7
    <3> HIDE DEF P
    <3>9. Len(queue') <= initialPopulationCount'
      BY <1>9, <3>4, <3>7, <3>8, DistinctLength
    <3>10. Len(queue') \in Nat /\ initialPopulationCount' \in Nat
      BY <1>9, <1>11, LenProperties DEF TypeOK
    <3>11. ASSUME NEW k \in firstBatch'
           PROVE  \E i \in 1..Len(queue') : i <= initialPopulationCount' /\ queue'[i] = k
      <4>1. k \in Keys /\ items'[k] # <<>>
        BY <2>2, <1>2, <1>3 DEF Replace, new
      <4>2. PICK i \in 1..Len(queue') : queue'[i] = k
        BY <4>1, <1>9 DEF NoItemStranded, Range
      <4>3. i <= initialPopulationCount'
        BY <3>9, <3>10
      <4> QED
        BY <4>2, <4>3
    <3> QED
      BY <3>11 DEF FirstBatchAhead
  <2> QED
    BY <2>1, <2>2
<1> QED
  BY <1>9, <1>11, <1>12 DEF FifoInv, Unpopulated, Replace

\* Resync keeps the invariant; before the queue is populated it appends known keys
\* that are not in the queue.
LEMMA ResyncInv ==
  ASSUME CompressorTyped, FifoInv, Resync
  PROVE  FifoInv'
<1> DEFINE new == ResyncedItems
<1>1. PICK l \in Orders(Fresh(Keys, new)) : queue' = queue \o l
  BY DEF Resync
<1>2. l \in Seq(Keys) /\ Range(l) = Fresh(Keys, new) /\ IsInjective(l)
  BY FreshOrder
<1>3. new \in [Keys -> Deltas] /\ items' = new
  <2>1. <<>> \in Deltas
    BY DEF Deltas
  <2>2. \A k \in Keys : Queued(<<>>, MkDelta("Sync", known[k])) \in Deltas
    BY <2>1, QueuedType, DeltaType DEF FifoInv, TypeOK
  <2> QED
    BY <2>2 DEF ResyncedItems, Resync, FifoInv, TypeOK
<1>4. \A k \in Keys : items[k] = <<>> /\ items'[k] # <<>> => k \in Range(l)
  BY <1>2, <1>3 DEF Fresh
<1>5. queue' \in Seq(Keys) /\ NoItemStranded' /\ FirstBatchAhead'
  BY <1>1, <1>2, <1>4, AppendedIds DEF Resync
<1>6. TypeOK'
  BY <1>3, <1>5 DEF Resync, FifoInv, TypeOK, popVars, LockFree
<1>7. Unpopulated'
  <2>1. CASE populated
    BY <2>1 DEF Resync, Unpopulated
  <2>2. CASE ~populated
    <3>1. /\ queue \in Seq(Keys) /\ IsInjective(queue) /\ firstBatch = {}
          /\ \A k \in Range(queue) : k \in Keys /\ items[k] # <<>> /\ known[k] # NoObj
          /\ ~hasKnown => queue = <<>>
      BY <2>2 DEF FifoInv, Unpopulated, TypeOK, Range
    <3>2. \A k \in Range(l) : k \in Keys /\ items[k] = <<>> /\ items'[k] # <<>>
      BY <1>2, <1>3 DEF Fresh
    <3>3. \A k \in Range(l) : hasKnown /\ known[k] # NoObj
      BY <1>3, <3>2 DEF ResyncedItems
    <3>4. Range(queue') = Range(queue) \cup Range(l)
      BY <1>1, <1>2, <3>1, RangeConcatenation
    <3>5. IsInjective(queue')
      BY <1>1, <1>2, <3>1, <3>2, DistinctConcat
    <3>6. \A k \in Range(queue) : items'[k] # <<>>
      BY <1>3, <3>1 DEF ResyncedItems
    <3>7. ~hasKnown => queue' = <<>>
      <4> SUFFICES ASSUME ~hasKnown PROVE queue' = <<>>
        OBVIOUS
      <4>1. Range(queue') = {}
        BY <3>1, <3>3, <3>4 DEF Range
      <4> QED BY <4>1, <1>5, EmptyRange
    <3>8. popKey' \notin Range(queue')
      BY <1>2, <3>1, <3>2, <3>4, KeysAssumption DEF Resync, popVars, LockFree
    <3> QED
      BY <3>1, <3>2, <3>3, <3>4, <3>5, <3>6, <3>7, <3>8 DEF Resync, Unpopulated
  <2> QED
    BY <2>1, <2>2
<1> QED
  BY <1>5, <1>6, <1>7 DEF FifoInv
-----------------------------------------------------------------------------
(* The consumer *)

\* Taking the first n ids leaves the others in their order.
LEMMA TakenIds ==
  ASSUME NEW q \in Seq(Keys), NEW n \in 1..Len(q)
  PROVE  /\ SubSeq(q, n+1, Len(q)) \in Seq(Keys)
         /\ Len(SubSeq(q, n+1, Len(q))) = Len(q) - n
         /\ \A i \in 1..Len(q) : i > n => SubSeq(q, n+1, Len(q))[i-n] = q[i]
<1>1. \A i \in n+1..Len(q) : q[i] \in Keys
  OBVIOUS
<1> QED
  BY <1>1, SubSeqProperties

\* The counter after n ids is a number, and counts what is left of the batch.
LEMMA CountdownValue ==
  ASSUME initialPopulationCount \in Nat, NEW n \in Nat
  PROVE  /\ Countdown(n) \in Nat
         /\ \A i \in Nat : i > n /\ i <= initialPopulationCount => i - n <= Countdown(n)
BY DEF Countdown

\* Pop keeps the invariant: the ids it skips have no deltas to strand.
LEMMA PopInv ==
  ASSUME FifoInv, Pop
  PROVE  FifoInv'
<1>1. PICK n \in 1..Len(queue) :
        /\ \A i \in 1..n-1 : items[queue[i]] = <<>>
        /\ items[queue[n]] # <<>>
        /\ popKey' = queue[n]
        /\ item' = items[queue[n]]
        /\ next' = 1
        /\ items' = [items EXCEPT ![queue[n]] = <<>>]
        /\ queue' = SubSeq(queue, n+1, Len(queue))
        /\ initialPopulationCount' = Countdown(n)
        /\ firstBatch' = firstBatch \ {queue[i] : i \in 1..n}
        /\ UNCHANGED <<populated, hasKnown, known>>
  BY DEF Pop
<1>2. /\ queue \in Seq(Keys) /\ items \in [Keys -> Deltas] /\ n \in Nat
      /\ queue[n] \in Keys /\ initialPopulationCount \in Nat
  BY <1>1 DEF FifoInv, TypeOK
<1>3. /\ queue' \in Seq(Keys)
      /\ Len(queue') = Len(queue) - n
      /\ \A i \in 1..Len(queue) : i > n => queue'[i-n] = queue[i]
  BY <1>1, <1>2, TakenIds
<1>4. TypeOK'
  <2>1. items[queue[n]] \in Deltas /\ <<>> \in Deltas
    BY <1>2 DEF Deltas
  <2>2. 1 \in 1..Len(items[queue[n]])
    BY <2>1, <1>1 DEF Deltas
  <2>3. popKey' # NoKey
    BY <1>1, <1>2, KeysAssumption
  <2>4. initialPopulationCount' \in Nat
    BY <1>1, <1>2, CountdownValue
  <2> QED
    BY <2>1, <2>2, <2>3, <2>4, <1>1, <1>2, <1>3 DEF FifoInv, TypeOK, LockFree
<1>5. NoItemStranded'
  <2> SUFFICES ASSUME NEW k \in Keys, items'[k] # <<>>
               PROVE  k \in Range(queue')
    BY DEF NoItemStranded
  <2>1. items[k] # <<>> /\ k # queue[n]
    BY <1>1, <1>2
  <2>2. PICK i \in 1..Len(queue) : queue[i] = k
    BY <2>1, <1>2 DEF FifoInv, NoItemStranded, Range
  <2>3. i > n
    BY <2>1, <2>2, <1>1
  <2>4. i - n \in 1..Len(queue') /\ queue'[i-n] = k
    BY <2>2, <2>3, <1>2, <1>3
  <2> QED
    BY <2>4, <1>3 DEF Range
<1>6. FirstBatchAhead'
  <2> SUFFICES ASSUME NEW k \in firstBatch'
               PROVE  \E i \in 1..Len(queue') : i <= initialPopulationCount' /\ queue'[i] = k
    BY DEF FirstBatchAhead
  <2>1. k \in firstBatch /\ \A i \in 1..n : queue[i] # k
    BY <1>1
  <2>2. PICK i \in 1..Len(queue) : i <= initialPopulationCount /\ queue[i] = k
    BY <2>1 DEF FifoInv, FirstBatchAhead
  <2>3. i > n /\ i \in Nat
    BY <2>1, <2>2, <1>2
  <2>4. i - n \in 1..Len(queue') /\ queue'[i-n] = k
    BY <2>2, <2>3, <1>2, <1>3
  <2>5. i - n <= initialPopulationCount'
    BY <2>2, <2>3, <1>1, <1>2, CountdownValue
  <2> QED
    BY <2>4, <2>5
<1>7. Unpopulated'
  <2>1. CASE populated
    BY <1>1, <2>1 DEF Unpopulated
  <2>2. CASE ~populated
    <3>1. /\ IsInjective(queue) /\ \A k \in Range(queue) : items[k] # <<>> /\ known[k] # NoObj
          /\ hasKnown /\ firstBatch = {}
      BY <1>1, <1>2, <2>2 DEF FifoInv, Unpopulated
    <3>2. \A j \in 1..Len(queue') :
            j + n \in 1..Len(queue) /\ j + n # n /\ queue'[j] = queue[j + n]
      <4> SUFFICES ASSUME NEW j \in 1..Len(queue')
                   PROVE  j + n \in 1..Len(queue) /\ j + n # n /\ queue'[j] = queue[j + n]
        OBVIOUS
      <4>1. n \in Nat /\ Len(queue) \in Nat /\ Len(queue') = Len(queue) - n /\ j \in 1..Len(queue')
        BY <1>2, <1>3, LenProperties
      <4>2. j + n \in 1..Len(queue) /\ j + n > n /\ (j + n) - n = j
        BY ONLY <4>1
      <4> QED BY <1>3, <4>1, <4>2
    <3>3. \A i, j \in 1..Len(queue') : i + n = j + n => i = j
      BY <1>2, <1>3
    <3>4. IsInjective(queue')
      <4>1. DOMAIN queue = 1..Len(queue) /\ DOMAIN queue' = 1..Len(queue')
        BY <1>2, <1>3, LenProperties
      <4> SUFFICES ASSUME NEW i \in 1..Len(queue'), NEW j \in 1..Len(queue'), queue'[i] = queue'[j]
                   PROVE  i = j
        BY <4>1, Zenon DEF IsInjective
      <4>2. /\ i + n \in 1..Len(queue) /\ j + n \in 1..Len(queue)
            /\ queue[i + n] = queue[j + n]
        BY <3>2, Zenon
      <4>3. i + n = j + n
        BY <3>1, <4>1, <4>2, Zenon DEF IsInjective
      <4> QED BY <3>3, <4>3, Zenon
    <3>5. \A k \in Range(queue') : k \in Range(queue) /\ k # queue[n]
      BY <1>1, <1>2, <1>3, <3>1, <3>2 DEF Range, IsInjective
    <3>6. \A k \in Range(queue) : k \in Keys
      BY <1>2 DEF Range
    <3> QED
      BY <1>1, <1>2, <3>1, <3>4, <3>5, <3>6 DEF Unpopulated
  <2> QED BY <2>1, <2>2
<1> QED
  BY <1>4, <1>5, <1>6, <1>7 DEF FifoInv

\* So does a Pop that finds no deltas at all.
LEMMA PopOnlyStaleIdsInv ==
  ASSUME FifoInv, PopOnlyStaleIds
  PROVE  FifoInv'
<1>1. queue \in Seq(Keys) /\ initialPopulationCount \in Nat /\ Len(queue) \in Nat
  BY DEF FifoInv, TypeOK
<1>2. Countdown(Len(queue)) \in Nat
  BY <1>1, CountdownValue
<1>3. TypeOK'
  BY <1>2 DEF FifoInv, TypeOK, PopOnlyStaleIds, popVars, LockFree
<1>4. NoItemStranded'
  BY <1>1 DEF FifoInv, NoItemStranded, PopOnlyStaleIds, Range
<1>5. firstBatch' = {}
  BY <1>1 DEF FifoInv, FirstBatchAhead, PopOnlyStaleIds
<1>6. Unpopulated'
  BY <1>5 DEF Unpopulated, PopOnlyStaleIds, IsInjective, Range
<1> QED
  BY <1>3, <1>4, <1>5, <1>6 DEF FifoInv, FirstBatchAhead

\* Handling a delta touches the store and Pop's locals only.
LEMMA ProcessDeltaInv ==
  ASSUME FifoInv, ProcessDelta
  PROVE  FifoInv'
<1>1. item \in Seq(Delta) /\ next \in 1..Len(item) /\ popKey \in Keys
  BY DEF FifoInv, TypeOK, ProcessDelta, LockFree, Deltas
<1>2. Effect(item[next]) \in Nat
  <2>1. item[next] \in Delta
    BY <1>1, ElementOfSeq
  <2> QED
    BY <2>1 DEF Effect, Delta, NoObj
<1>3. known' \in [Keys -> Nat]
  BY <1>1, <1>2 DEF FifoInv, TypeOK, ProcessDelta
<1>4. TypeOK'
  <2>1. CASE next < Len(item)
    BY <2>1, <1>1, <1>3 DEF FifoInv, TypeOK, ProcessDelta, LockFree, fifoVars
  <2>2. CASE ~(next < Len(item))
    BY <2>2, <1>1, <1>3 DEF FifoInv, TypeOK, ProcessDelta, LockFree, fifoVars, Deltas
  <2> QED
    BY <2>1, <2>2
<1>5. Unpopulated'
  <2> SUFFICES ASSUME ~populated PROVE Unpopulated'
    BY DEF Unpopulated, ProcessDelta, fifoVars
  <2>1. /\ IsInjective(queue) /\ \A k \in Range(queue) : items[k] # <<>> /\ known[k] # NoObj
        /\ ~hasKnown => queue = <<>>
        /\ popKey \notin Range(queue) /\ firstBatch = {}
    BY DEF FifoInv, Unpopulated
  <2>2. UNCHANGED <<queue, items, hasKnown, firstBatch>> /\ popKey' \in {popKey, NoKey}
    BY DEF ProcessDelta, fifoVars
  <2>3. Range(queue) \subseteq Keys
    BY DEF FifoInv, TypeOK, Range
  <2>4. \A k \in Keys : k # popKey => known'[k] = known[k]
    BY <1>1 DEF ProcessDelta, FifoInv, TypeOK
  <2> QED BY <2>1, <2>2, <2>3, <2>4, KeysAssumption DEF Unpopulated, Range
<1> QED
  BY <1>4, <1>5
  DEF FifoInv, ProcessDelta, NoItemStranded, FirstBatchAhead, fifoVars
-----------------------------------------------------------------------------
(* Theorems *)

\* Every step of a producer or of the consumer keeps the invariant.
LEMMA FifoInvNext ==
  ASSUME CompressorTyped, FifoInv, [FifoNext]_vars
  PROVE  FifoInv'
<1> USE DEF FifoInv
<1>1. ASSUME NEW k \in Keys, NEW o \in Versions,
             Add(k, o) \/ Update(k, o) \/ Delete(k, o)
      PROVE  FifoInv'
  <2>1. o \in Nat
    BY VersionsAssumption DEF Obj
  <2> QED
    BY <1>1, <2>1, ChangeInv
<1>2. ASSUME NEW k \in Keys, NEW o \in Versions, AddIfNotPresent(k, <<MkDelta("Sync", o)>>)
      PROVE  FifoInv'
  <2>1. <<MkDelta("Sync", o)>> \in Deltas
    BY VersionsAssumption, DeltaType DEF Obj, Deltas
  <2>2. TypeOK'
    BY <1>2, <2>1, AddIfNotPresentType DEF AddIfNotPresent, TypeOK, popVars, LockFree
  <2> QED
    BY <1>2, <2>1, <2>2, AddIfNotPresentInv DEF AddIfNotPresent
<1>3. ASSUME NEW list \in [Keys -> Versions \cup {NoObj}], Replace(list)
      PROVE  FifoInv'
  <2>1. Versions \cup {NoObj} \subseteq Nat
    BY VersionsAssumption DEF Obj, NoObj
  <2>2. list \in [Keys -> Nat]
    BY <2>1
  <2> QED
    BY <1>3, <2>2, ReplaceInv
<1>4. CASE Resync
  BY <1>4, ResyncInv
<1>5. CASE Pop
  BY <1>5, PopInv
<1>6. CASE PopOnlyStaleIds
  BY <1>6, PopOnlyStaleIdsInv
<1>7. CASE ProcessDelta
  BY <1>7, ProcessDeltaInv
<1>8. CASE ProcessRequeue
  <2>1. popKey \in Keys /\ item \in Deltas /\ <<>> \in Deltas
    BY <1>8 DEF ProcessRequeue, TypeOK, LockFree, Deltas
  <2>2. TypeOK'
    <3>1. /\ populated' = TRUE /\ popKey' = NoKey /\ item' = <<>> /\ next' = 0
          /\ UNCHANGED <<initialPopulationCount, hasKnown, known, firstBatch>>
      BY <1>8 DEF ProcessRequeue, addIfNotPresent
    <3>2. queue' \in Seq(Keys) /\ items' \in [Keys -> Deltas]
      BY <1>8, <2>1, AddIfNotPresentType DEF ProcessRequeue
    <3> QED
      BY <2>1, <3>1, <3>2 DEF TypeOK, LockFree
  <2> QED
    BY <1>8, <2>1, <2>2, AddIfNotPresentInv DEF ProcessRequeue
<1>9. CASE UNCHANGED vars
  BY <1>9 DEF vars, fifoVars, popVars, TypeOK, NoItemStranded, Unpopulated, FirstBatchAhead, LockFree
<1> QED
  BY <1>1, <1>2, <1>3, <1>4, <1>5, <1>6, <1>7, <1>8, <1>9
  DEF FifoNext, Producer, Consumer

\* A new queue has the invariant, whatever its store holds.
LEMMA FifoInitInv ==
  ASSUME NEW store \in [Keys -> Nat], FifoInit(store)
  PROVE  FifoInv
<1>1. <<>> \in Seq(Keys) /\ <<>> \in Deltas /\ NoObj \in Nat
  BY DEF Deltas, NoObj
<1>2. TypeOK
  BY <1>1 DEF FifoInit, TypeOK, LockFree
<1> QED
  BY <1>2 DEF FifoInit, FifoInv, NoItemStranded, Unpopulated, FirstBatchAhead, IsInjective, Range

\* The invariant holds of every reachable state.
LEMMA FifoInvariant ==
  ASSUME CompressorTyped
  PROVE  FifoSpec => []FifoInv
<1>1. ClientsInit => FifoInv
  <2>1. [Keys -> Versions \cup {NoObj}] \subseteq [Keys -> Nat]
    <3>1. Versions \cup {NoObj} \subseteq Nat
      BY VersionsAssumption DEF Obj, NoObj
    <3> QED BY <3>1
  <2> QED BY <2>1, FifoInitInv DEF ClientsInit
<1>2. FifoInv /\ [FifoNext]_vars => FifoInv'
  BY FifoInvNext
<1> QED
  BY <1>1, <1>2, PTL DEF FifoSpec

\* The fields of the queue and the locals of Pop keep their types.
THEOREM FifoTypeCorrect ==
  ASSUME CompressorTyped
  PROVE  FifoSpec => []TypeOK
<1>1. FifoInv => TypeOK
  BY DEF FifoInv
<1> QED
  BY <1>1, FifoInvariant, PTL

\* queueActionLocked, addIfNotPresent, Replace, Resync and Pop never leave
\* deltas in items without an id in the queue, for any compressor.
THEOREM NothingStranded ==
  ASSUME CompressorTyped
  PROVE  FifoSpec => []NoItemStranded
<1>1. FifoInv => NoItemStranded
  BY DEF FifoInv
<1> QED
  BY <1>1, FifoInvariant, PTL

\* HasSynced does not say true before the first Replace's keys are popped.
THEOREM HasSyncedIsLate ==
  ASSUME CompressorTyped
  PROVE  FifoSpec => []SyncedMeansFirstBatchPopped
<1>1. FifoInv => SyncedMeansFirstBatchPopped
  BY DEF FifoInv, TypeOK, FirstBatchAhead, SyncedMeansFirstBatchPopped, HasSynced
<1> QED
  BY <1>1, FifoInvariant, PTL
-----------------------------------------------------------------------------
(* The order of the ids *)

\* A step takes the first n ids of the queue and appends ids only if n is 0.
TakesFront(n) ==
  /\ Len(queue') >= Len(queue) - n
  /\ SubSeq(queue', 1, Len(queue) - n) = SubSeq(queue, n+1, Len(queue))
  /\ n > 0 => Len(queue') = Len(queue) - n

\* A step that appends ids takes none.
LEMMA AppendingKeepsOrder ==
  ASSUME FifoInv, NEW r \in Seq(Keys), queue' = queue \o r
  PROVE  \E n \in 0..Len(queue) : TakesFront(n)
<1>1. queue \in Seq(Keys) /\ Len(queue) \in Nat /\ Len(r) \in Nat
  BY DEF FifoInv, TypeOK
<1>2. /\ Len(queue') = Len(queue) + Len(r) /\ queue' \in Seq(Keys)
      /\ \A i \in 1..Len(queue) : queue'[i] = queue[i]
  BY <1>1, ExtendedQueue
<1>3. SubSeq(queue', 1, Len(queue)) = SubSeq(queue, 1, Len(queue))
  BY <1>1, <1>2
<1>4. TakesFront(0)
  BY <1>1, <1>2, <1>3 DEF TakesFront
<1> QED BY <1>1, <1>4

\* Every method appends ids, or takes them from the front.
LEMMA OrderNext ==
  ASSUME FifoInv, [FifoNext]_vars
  PROVE  \E n \in 0..Len(queue) : TakesFront(n)
<1> DEFINE Goal == \E n \in 0..Len(queue) : TakesFront(n)
<1>0. queue \in Seq(Keys) /\ Len(queue) \in Nat
  BY DEF FifoInv, TypeOK
<1>1. ASSUME NEW k \in Keys, queue' = Append(queue, k) PROVE Goal
  <2>1. <<k>> \in Seq(Keys) /\ queue' = queue \o <<k>>
    BY <1>0, <1>1
  <2> QED BY <2>1, AppendingKeepsOrder
<1>2. ASSUME queue' = queue PROVE Goal
  <2>1. <<>> \in Seq(Keys) /\ queue' = queue \o <<>>
    BY <1>0, <1>2
  <2> QED BY <2>1, AppendingKeepsOrder
<1>3. ASSUME NEW list, Replace(list) PROVE Goal
  <2> DEFINE new == ReplacedItems(list)
  <2>1. PICK l \in Orders(Fresh(Listed(list), new)), d \in Orders(Fresh(Gone(list), new)) :
          queue' = queue \o (l \o d)
    BY <1>3 DEF Replace
  <2>2. Listed(list) \in SUBSET Keys /\ Gone(list) \in SUBSET Keys
    BY DEF Listed, Gone
  <2> HIDE DEF new
  <2>3. l \in Seq(Keys) /\ d \in Seq(Keys)
    BY <2>2, FreshOrder
  <2>4. l \o d \in Seq(Keys)
    BY <2>3
  <2> QED BY <2>1, <2>4, AppendingKeepsOrder
<1>4. CASE Resync
  <2>1. PICK l \in Orders(Fresh(Keys, ResyncedItems)) : queue' = queue \o l
    BY <1>4 DEF Resync
  <2> QED BY <2>1, FreshOrder, AppendingKeepsOrder
<1>5. CASE Pop
  <2>1. PICK n \in 1..Len(queue) : queue' = SubSeq(queue, n+1, Len(queue))
    BY <1>5 DEF Pop
  <2>2. queue' \in Seq(Keys) /\ Len(queue') = Len(queue) - n
    BY <1>0, <2>1
  <2>3. SubSeq(queue', 1, Len(queue')) = queue'
    BY <2>2, SubSeqFull
  <2>4. TakesFront(n)
    BY <1>0, <2>1, <2>2, <2>3 DEF TakesFront
  <2> QED BY <1>0, <2>4
<1>6. CASE PopOnlyStaleIds
  <2>1. queue' = <<>> /\ Len(queue) > 0
    BY <1>0, <1>6 DEF PopOnlyStaleIds
  <2>2. SubSeq(queue, Len(queue)+1, Len(queue)) = <<>> /\ SubSeq(queue', 1, 0) = <<>>
    BY <1>0, <2>1, SubSeqEmpty
  <2>3. TakesFront(Len(queue))
    BY <1>0, <2>1, <2>2 DEF TakesFront
  <2> QED BY <1>0, <2>3
<1>7. ASSUME NEW k \in Keys, NEW d, queueActionLocked(k, d) PROVE Goal
  BY <1>1, <1>2, <1>7 DEF queueActionLocked
<1>8. ASSUME NEW k \in Keys, NEW ds, addIfNotPresent(k, ds) PROVE Goal
  BY <1>1, <1>2, <1>8 DEF addIfNotPresent
<1>9. ASSUME NEW k \in Keys, NEW o,
             Add(k, o) \/ Update(k, o) \/ Delete(k, o) \/ AddIfNotPresent(k, <<MkDelta("Sync", o)>>)
      PROVE  Goal
  BY <1>2, <1>7, <1>8, <1>9 DEF Add, Update, Delete, AddIfNotPresent
<1>10. CASE ProcessRequeue
  <2>1. popKey \in Keys
    BY <1>10 DEF ProcessRequeue, LockFree, FifoInv, TypeOK
  <2> QED BY <1>8, <1>10, <2>1 DEF ProcessRequeue
<1>11. CASE ProcessDelta \/ UNCHANGED vars
  BY <1>2, <1>11 DEF ProcessDelta, vars, fifoVars
<1> QED BY <1>3, <1>4, <1>5, <1>6, <1>9, <1>10, <1>11 DEF FifoNext, Producer, Consumer

\* Ids leave the queue in the order in which they entered it, and an item that
\* is requeued waits behind all the others.
THEOREM IdsKeepTheirOrder ==
  ASSUME CompressorTyped
  PROVE  FifoSpec => FirstInFirstOut
<1>1. FifoInv /\ [FifoNext]_vars =>
        [\E n \in 0..Len(queue) :
           /\ Len(queue') >= Len(queue) - n
           /\ SubSeq(queue', 1, Len(queue) - n) = SubSeq(queue, n+1, Len(queue))
           /\ n > 0 => Len(queue') = Len(queue) - n]_queue
  BY OrderNext DEF TakesFront
<1> QED
  BY <1>1, FifoInvariant, PTL DEF FifoSpec, FirstInFirstOut
=========================
