------------------------- MODULE MCLeaderElection -------------------------
(* Two electors whose clocks differ. *)
EXTENDS LeaderElection, TLC

CONSTANTS e1, e2

Offsets == (e1 :> 0) @@ (e2 :> 3)
Calls == (e1 :> 1) @@ (e2 :> 0)
=============================================================================
