-------------------------- MODULE DeltaFIFOClients --------------------------
(***************************************************************************)
(* A DeltaFIFO between any producers and any consumer: every method may be *)
(* called at any time, with any arguments.                                 *)
(***************************************************************************)
EXTENDS DeltaFIFO

CONSTANTS
  Versions,     \* the object versions that producers hand in
  MaxDeltas,    \* bound: producers leave a key with this many deltas alone
  MaxQueue      \* bound: producers leave a queue of this length alone

ASSUME VersionsAssumption == Versions \subseteq Obj
ASSUME BoundsAssumption == MaxDeltas \in Nat /\ MaxQueue \in Nat

\* The bounds: a producer may call a method that adds to these keys.
Room(S) == Len(queue) < MaxQueue /\ \A k \in S : Len(items[k]) < MaxDeltas

Producer ==
  \/ \E k \in Keys, o \in Versions :
       /\ Room({k})
       /\ \/ Add(k, o)
          \/ Update(k, o)
          \/ Delete(k, o)
          \/ AddIfNotPresent(k, <<MkDelta("Sync", o)>>)
  \/ \E list \in [Keys -> Versions \cup {NoObj}] : Room(Keys) /\ Replace(list)
  \/ Room({}) /\ Resync

Consumer == Pop \/ PopOnlyStaleIds \/ ProcessDelta \/ ProcessRequeue

FifoNext == Producer \/ Consumer

\* Any store may be the knownObjects of a new queue.
ClientsInit == \E store \in [Keys -> Versions \cup {NoObj}] : FifoInit(store)

\* The goroutine that pops is always scheduled again and gets the lock, and
\* its process function returns; nothing obliges a producer to call.
FifoSpec == ClientsInit /\ [][FifoNext]_vars /\ WF_vars(Consumer)
-----------------------------------------------------------------------------
\* Deltas never wait for ever, even for a consumer that requeues its items and
\* producers that never pause.
EventuallyPopped == \A k \in Keys : items[k] # <<>> ~> items[k] = <<>>
=============================================================================
