--------------------------- MODULE KeyedChannels ---------------------------
(***************************************************************************)
(* What an informer's queue and event loop promise about the store they    *)
(* fill: each key has a channel of values (NoObj for a deletion), the      *)
(* producer only ever appends to channels, and the store takes the values  *)
(* of each channel one by one, in order, none skipped, none for ever       *)
(* waiting.                                                                *)
(***************************************************************************)
EXTENDS Integers, Sequences

CONSTANTS Keys

VARIABLES
  pending,   \* key -> the values on their way to the store, oldest first
  store      \* key -> the value in the store

NoObj == 0

chanVars == <<pending, store>>

Init ==
  /\ pending = [k \in Keys |-> <<>>]
  /\ store = [k \in Keys |-> NoObj]

Extends(new, old) ==
  \/ new = old
  \/ /\ Len(new) = Len(old) + 1
     /\ SubSeq(new, 1, Len(old)) = old

\* The producer learns something about any number of keys, once each.
Observe ==
  /\ DOMAIN pending' = Keys
  /\ \A k \in Keys : Extends(pending'[k], pending[k])
  /\ UNCHANGED store

\* The consumer takes the oldest value of a key.
Apply(k) ==
  /\ pending[k] # <<>>
  /\ store' = [store EXCEPT ![k] = Head(pending[k])]
  /\ pending' = [pending EXCEPT ![k] = Tail(@)]

Next == Observe \/ \E k \in Keys : Apply(k)

Safe == Init /\ [][Next]_chanVars
Live == \A k \in Keys : WF_chanVars(Apply(k))
=============================================================================
