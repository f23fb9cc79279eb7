---------------------------- MODULE SnapshotCache ----------------------------
(***************************************************************************)
(* go-control-plane/pkg/cache: the snapshot cache, for one node.  A        *)
(* handler touches the entries of one node only, under cache.mu, so the    *)
(* entries of different nodes do not interact.                             *)
(*                                                                         *)
(* A snapshot is the set of names of its clusters; "the CDS response names *)
(* all EDS clusters", so the same set names its endpoints (listeners and   *)
(* routes are such a pair again).  Its version is its position in snaps,   *)
(* so versions are distinct, as SetSnapshot asks of its caller.            *)
(***************************************************************************)
EXTENDS Naturals, Sequences

CONSTANTS Names,         \* names of clusters
          MaxStreams,    \* bound on the streams opened, which hold the watches
          NoId,          \* no watch: a nil channel or cancel function
          NoResponse,    \* what an empty channel holds
          ADS,           \* cache.ads
          Snapshots,     \* the contents a snapshot may have: nonempty sets of names
          MaxSnapshots   \* bound on SetSnapshot

Streams == 1 .. MaxStreams   \* by streamID
Types == {"cds", "eds"}

\* Identities of watches and of their channels.  watchCount never repeats one;
\* here the stream and the type a watch is for, with a number that tells it from
\* a watch of the same stream and type that is still open.
Ids == Streams \X Types \X {1, 2}
Requests == [type : Types, version : Nat, names : SUBSET Names, nonce : Nat]
Responses == [version : Nat, names : SUBSET Names]

ASSUME CacheAssumption ==
  /\ NoId \notin Ids
  /\ NoResponse \notin Responses
  /\ ADS \in BOOLEAN
  /\ MaxStreams \in Nat
  /\ MaxSnapshots \in Nat
  /\ Snapshots \subseteq (SUBSET Names) \ {{}}

VARIABLES snaps,    \* the snapshots set so far: the n-th has version n
          current,  \* snapshots[node]: the version of the snapshot, 0 for none
          watches,  \* status[node].watches: the open watches, [id, req]
          value     \* value[i]: what the channel of watch i, of capacity 1, holds

cacheVars == <<snaps, current, watches, value>>

CacheTypeOK ==
  /\ snaps \in Seq(Snapshots)
  /\ current \in 0 .. Len(snaps)
  /\ watches \subseteq [id : Ids, req : Requests]
  /\ value \in [Ids -> Responses \cup {NoResponse}]

CacheInit ==
  /\ snaps = <<>>
  /\ current = 0
  /\ watches = {}
  /\ value = [i \in Ids |-> NoResponse]

superset(names, resources) == resources \subseteq names

respondPartly(r, S, v) ==
  [version |-> v, names |-> IF r.names = {} THEN S ELSE S \cap r.names]

\* The answer to request r from the snapshot S of version v: in ADS mode none
\* unless r names every resource of S; a request without names is for all.
respond(r, S, v) ==
  IF r.names # {} /\ ADS /\ ~superset(r.names, S)
  THEN NoResponse
  ELSE [version |-> v, names |-> IF r.names = {} THEN S ELSE S \cap r.names]

\* The open watches a snapshot of version v triggers, and those it leaves.
outdated(v) == {w \in watches : w.req.version # v}

discardNone(v) == watches

discard(v) == watches \ outdated(v)

\* The version of the snapshot that SetSnapshot is about to set.
GetVersionAhead == Len(snaps) + 2

GetVersion == Len(snaps) + 1

\* Answers every open watch whose version differs, under cache.mu, and discards
\* it, answered or refused.  The send blocks on a channel that is not empty.
SetSnapshot(S) ==
  LET v == GetVersion
      answer(w) == respond(w.req, S, v)
  IN  /\ Len(snaps) < MaxSnapshots
      /\ snaps' = Append(snaps, S)
      /\ current' = v
      /\ \A w \in outdated(v) : value[w.id] = NoResponse \/ answer(w) = NoResponse
      /\ value' = [i \in Ids |-> IF \E w \in outdated(v) : w.id = i
                                 THEN answer(CHOOSE w \in outdated(v) : w.id = i)
                                 ELSE value[i]]
      /\ watches' = discard(v)

\* Forgets the snapshot and the open watches, whose channels stay silent.
ClearSnapshot ==
  /\ current' = 0
  /\ watches' = {}
  /\ UNCHANGED <<snaps, value>>

\* Whether CreateWatch leaves an open watch for r, or responds at once.
LeavesOpen(r) == current = 0 \/ r.version = current

nextWatchID(s, t) == <<s, t, IF \E w \in watches : w.id = <<s, t, 1>> THEN 2 ELSE 1>>

\* CreateWatch with the new watch and channel i.
CreateWatch(i, r) ==
  /\ watches' = IF LeavesOpen(r) THEN watches \cup {[id |-> i, req |-> r]} ELSE watches
  /\ value' = [value EXCEPT ![i] = IF LeavesOpen(r) THEN NoResponse
                                   ELSE respond(r, snaps[current], current)]
  /\ UNCHANGED <<snaps, current>>

\* The cancel functions of the watches in I, a nil function among them or not.
cancelWatch(I) ==
  /\ watches' = {w \in watches : w.id \notin I}
  /\ UNCHANGED <<snaps, current>>

=============================================================================
