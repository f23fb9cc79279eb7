-------------------------- MODULE MCSharedInformer --------------------------
(***************************************************************************)
(* SharedInformer for TLC: a listener that joins before the start, does    *)
(* not resync and is slow, and one that joins at any time and resyncs.     *)
(***************************************************************************)
EXTENDS SharedInformer, TLC

CONSTANTS l1, l2, k1

Pending == (l1 :> 3) @@ (l2 :> 1)
=============================================================================
