------------------------------ MODULE WorkSet ------------------------------
(***************************************************************************)
(* What a work queue promises to its clients: a set of items that need     *)
(* work, from which workers take items one at a time.  Marking an item     *)
(* while a worker is busy with it calls for another round of work, by one  *)
(* worker at a time; after a stop nothing is marked, but what was marked   *)
(* before is still worked on.                                              *)
(***************************************************************************)
CONSTANTS Items, Workers, NoItem

VARIABLES
  marked,    \* the items that need work
  busy,      \* worker -> the item it is working on, or NoItem
  stopped    \* nothing is marked any more

setVars == <<marked, busy, stopped>>

Init ==
  /\ marked = {}
  /\ busy = [w \in Workers |-> NoItem]
  /\ stopped = FALSE

Mark(i) ==
  /\ ~stopped
  /\ marked' = marked \cup {i}
  /\ UNCHANGED <<busy, stopped>>

Start(w, i) ==
  /\ busy[w] = NoItem
  /\ i \in marked
  /\ \A v \in Workers : busy[v] # i
  /\ marked' = marked \ {i}
  /\ busy' = [busy EXCEPT ![w] = i]
  /\ UNCHANGED stopped

Finish(w) ==
  /\ busy' = [busy EXCEPT ![w] = NoItem]
  /\ UNCHANGED <<marked, stopped>>

Stop ==
  /\ stopped' = TRUE
  /\ UNCHANGED <<marked, busy>>

Next ==
  \/ \E i \in Items : Mark(i)
  \/ \E w \in Workers, i \in Items : Start(w, i)
  \/ \E w \in Workers : Finish(w)
  \/ Stop

Safe == Init /\ [][Next]_setVars

\* An item that some worker could start again and again is started.
Live == \A i \in Items : SF_setVars(\E w \in Workers : Start(w, i))
=============================================================================
