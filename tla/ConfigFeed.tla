----------------------------- MODULE ConfigFeed -----------------------------
(***************************************************************************)
(* What the xDS snapshot cache and server promise one Envoy in ADS mode:   *)
(* the management server publishes snapshots, and for each resource type   *)
(* the Envoy only ever moves to a later published snapshot, and takes that *)
(* snapshot's resources as a whole.  An abstraction of                     *)
(* go-control-plane/pkg/{cache,server}; the types may lag each other.      *)
(***************************************************************************)
EXTENDS Naturals, Sequences

CONSTANTS Names,   \* names of the resources a snapshot may hold
          Types    \* resource types (TypeUrl)

VARIABLES published,  \* the snapshots set so far, the set of names of each
          version,    \* version[t]: the version of type t the Envoy runs, 0 for none
          resources   \* resources[t]: the names of type t the Envoy holds

feedVars == <<published, version, resources>>

FeedInit ==
  /\ published = <<>>
  /\ version = [t \in Types |-> 0]
  /\ resources = [t \in Types |-> {}]

Publish(S) ==
  /\ published' = Append(published, S)
  /\ UNCHANGED <<version, resources>>

Adopt(t, v) ==
  /\ v > version[t]
  /\ version' = [version EXCEPT ![t] = v]
  /\ resources' = [resources EXCEPT ![t] = published[v]]
  /\ UNCHANGED published

FeedNext ==
  \/ \E S \in SUBSET Names : Publish(S)
  \/ \E t \in Types, v \in 1 .. Len(published) : Adopt(t, v)

FeedSpec == FeedInit /\ [][FeedNext]_feedVars
=============================================================================
