----------------------------- MODULE XdsServer -----------------------------
(***************************************************************************)
(* go-control-plane/pkg/server: the process loop of every stream of a      *)
(* node, over the SnapshotCache, and the Envoy at the other end, which is  *)
(* modelled from what server and cache expect of it: it answers every      *)
(* response with the nonce it got, with the new version (ACK) or the old   *)
(* one (NACK), asks for the endpoints of the clusters the last CDS         *)
(* response named whenever these change, and opens a new stream when one   *)
(* breaks.  A broken stream may be noticed by the server late, so two      *)
(* streams of the node may be live in the server at once.                  *)
(***************************************************************************)
EXTENDS SnapshotCache

CONSTANT MaxFaults  \* bound on cleared snapshots, broken streams and rejected responses

ASSUME ServerAssumption == MaxFaults \in Nat

NoStream == 0        \* the Envoy is not connected

VARIABLES pc,           \* pc[s]: "new", "select", "watch" (between cancel and CreateWatch), "end"
          req,          \* req[s]: the request being handled at "watch"
          chan,         \* chan[s][t]: values.endpoints, values.clusters
          cancel,       \* cancel[s][t]: values.endpointCancel, values.clusterCancel
          nonce,        \* nonce[s][t]: values.endpointNonce, values.clusterNonce, 0 for ""
          streamNonce,  \* streamNonce[s]
          toServer,     \* toServer[s]: requests on the stream, and in reqCh
          toClient,     \* toClient[s]: responses on the stream
          active,       \* the Envoy's stream, or NoStream
          version,      \* version[t]: the version of type t the Envoy runs, 0 for none
          resources,    \* resources[t]: the names of type t it holds
          lastNonce,    \* lastNonce[t]: the nonce of the last response on the stream, 0 for ""
          faults,       \* number of cleared snapshots, broken streams, rejected responses
          silent        \* the <<s, t>> whose watch was dropped without an answer

serverVars == <<pc, req, chan, cancel, nonce, streamNonce>>
envoyVars == <<active, version, resources, lastNonce, faults>>
netVars == <<toServer, toClient>>
vars == <<cacheVars, serverVars, envoyVars, netVars, silent>>

NoRequest == [type |-> "cds", version |-> 0, names |-> {}, nonce |-> 0]
Messages == [type : Types, version : Nat, names : SUBSET Names, nonce : Nat]

\* Types of all variables.
XdsTypeOK ==
  /\ CacheTypeOK
  /\ pc \in [Streams -> {"new", "select", "watch", "end"}]
  /\ req \in [Streams -> Requests]
  /\ chan \in [Streams -> [Types -> Ids \cup {NoId}]]
  /\ cancel \in [Streams -> [Types -> Ids \cup {NoId}]]
  /\ nonce \in [Streams -> [Types -> Nat]]
  /\ streamNonce \in [Streams -> Nat]
  /\ toServer \in [Streams -> Seq(Requests)]
  /\ toClient \in [Streams -> Seq(Messages)]
  /\ active \in Streams \cup {NoStream}
  /\ version \in [Types -> Nat]
  /\ resources \in [Types -> SUBSET Names]
  /\ lastNonce \in [Types -> Nat]
  /\ faults \in 0 .. MaxFaults
  /\ silent \subseteq Streams \X Types

Init ==
  /\ CacheInit
  /\ pc = [s \in Streams |-> "new"]
  /\ req = [s \in Streams |-> NoRequest]
  /\ chan = [s \in Streams |-> [t \in Types |-> NoId]]
  /\ cancel = [s \in Streams |-> [t \in Types |-> NoId]]
  /\ nonce = [s \in Streams |-> [t \in Types |-> 0]]
  /\ streamNonce = [s \in Streams |-> 0]
  /\ toServer = [s \in Streams |-> <<>>]
  /\ toClient = [s \in Streams |-> <<>>]
  /\ active = NoStream
  /\ version = [t \in Types |-> 0]
  /\ resources = [t \in Types |-> {}]
  /\ lastNonce = [t \in Types |-> 0]
  /\ faults = 0
  /\ silent = {}

-----------------------------------------------------------------------------
(* The management server's calls of the cache *)

\* The streams and types that hold one of the watches in W.
Holders(W) == {p \in Streams \X Types : \E w \in W : w.id = cancel[p[1]][p[2]]}

Set(S) ==
  /\ SetSnapshot(S)
  /\ silent' = silent \cup Holders({w \in watches \ watches' : value'[w.id] = NoResponse})
  /\ UNCHANGED <<serverVars, envoyVars, netVars>>

Fault == faults < MaxFaults /\ faults' = faults + 1

Clear ==
  /\ Fault
  /\ ClearSnapshot
  /\ silent' = silent \cup Holders(watches)
  /\ UNCHANGED <<serverVars, active, version, resources, lastNonce, netVars>>

-----------------------------------------------------------------------------
(* The process loop of stream s *)

Live(s) == pc[s] \in {"select", "watch"}

AcceptsLatest(s, r) == nonce[s][r.type] = 0 \/ streamNonce[s] = r.nonce

\* A request is stale unless it carries the nonce of the type's last response.
Accepts(s, r) == nonce[s][r.type] = 0 \/ nonce[s][r.type] = r.nonce

ReceiveNoCancel(s) ==
  /\ pc[s] = "select"
  /\ toServer[s] # <<>>
  /\ LET r == Head(toServer[s])
     IN  IF Accepts(s, r)
         THEN pc' = [pc EXCEPT ![s] = "watch"] /\ req' = [req EXCEPT ![s] = r]
         ELSE UNCHANGED <<pc, req>>
  /\ toServer' = [toServer EXCEPT ![s] = Tail(@)]
  /\ UNCHANGED <<cacheVars, chan, cancel, nonce, streamNonce, toClient, envoyVars, silent>>

\* A request from reqCh: dropped when it is stale, else the type's watch is cancelled.
Receive(s) ==
  /\ pc[s] = "select"
  /\ toServer[s] # <<>>
  /\ LET r == Head(toServer[s])
     IN  IF Accepts(s, r)
         THEN /\ pc' = [pc EXCEPT ![s] = "watch"]
              /\ req' = [req EXCEPT ![s] = r]
              /\ cancelWatch({cancel[s][r.type]})
         ELSE UNCHANGED <<pc, req, snaps, current, watches>>
  /\ toServer' = [toServer EXCEPT ![s] = Tail(@)]
  /\ UNCHANGED <<value, chan, cancel, nonce, streamNonce, toClient, envoyVars, silent>>

\* The rest of the request's case: CreateWatch, which returns no cancel function
\* when it does not leave the watch open.
Watch(s) ==
  LET r == req[s]
      i == nextWatchID(s, r.type)
  IN  /\ pc[s] = "watch"
      /\ CreateWatch(i, r)
      /\ chan' = [chan EXCEPT ![s][r.type] = i]
      /\ cancel' = [cancel EXCEPT ![s][r.type] = IF LeavesOpen(r) THEN i ELSE NoId]
      /\ pc' = [pc EXCEPT ![s] = "select"]
      /\ req' = [req EXCEPT ![s] = NoRequest]
      /\ silent' = IF LeavesOpen(r) \/ value'[i] # NoResponse THEN silent \ {<<s, r.type>>}
                   ELSE silent \cup {<<s, r.type>>}
      /\ UNCHANGED <<nonce, streamNonce, netVars, envoyVars>>

\* A response from the channel of type t, sent with a new nonce; a stream the
\* Envoy has left loses it.
Send(s, t) ==
  LET i == chan[s][t]
  IN  /\ pc[s] = "select"
      /\ i # NoId
      /\ value[i] # NoResponse
      /\ value' = [value EXCEPT ![i] = NoResponse]
      /\ streamNonce' = [streamNonce EXCEPT ![s] = @ + 1]
      /\ nonce' = [nonce EXCEPT ![s][t] = streamNonce[s] + 1]
      /\ toClient' = [toClient EXCEPT ![s] =
           IF active = s THEN Append(@, [type |-> t, version |-> value[i].version,
                                         names |-> value[i].names, nonce |-> streamNonce[s] + 1])
           ELSE @]
      /\ UNCHANGED <<snaps, current, watches, pc, req, chan, cancel,
                     toServer, envoyVars, silent>>

\* process returns, on the closed reqCh or a failed Send: values.Cancel().  Nobody
\* receives from reqCh any more.
End(s) ==
  /\ pc[s] = "select"
  /\ active # s
  /\ pc' = [pc EXCEPT ![s] = "end"]
  /\ cancelWatch({cancel[s][t] : t \in Types})
  /\ value' = [i \in Ids |-> IF \E t \in Types : i = chan[s][t] THEN NoResponse ELSE value[i]]
  /\ chan' = [chan EXCEPT ![s] = [t \in Types |-> NoId]]
  /\ cancel' = [cancel EXCEPT ![s] = [t \in Types |-> NoId]]
  /\ nonce' = [nonce EXCEPT ![s] = [t \in Types |-> 0]]
  /\ streamNonce' = [streamNonce EXCEPT ![s] = 0]
  /\ silent' = {p \in silent : p[1] # s}
  /\ toServer' = [toServer EXCEPT ![s] = <<>>]
  /\ UNCHANGED <<req, toClient, envoyVars>>

-----------------------------------------------------------------------------
(* The Envoy *)

Request(t, v, S, n) == [type |-> t, version |-> v, names |-> S, nonce |-> n]

\* Opens a stream, asking first for clusters, then for endpoints when it has clusters.
Connect(s) ==
  /\ active = NoStream
  /\ pc[s] = "new"
  /\ \A s2 \in 1 .. s - 1 : pc[s2] # "new"
  /\ pc' = [pc EXCEPT ![s] = "select"]
  /\ active' = s
  /\ lastNonce' = [t \in Types |-> 0]
  /\ toServer' = [toServer EXCEPT ![s] =
       <<Request("cds", version["cds"], {}, 0)>> \o
       (IF resources["cds"] = {} THEN <<>>
        ELSE <<Request("eds", version["eds"], resources["cds"], 0)>>)]
  /\ UNCHANGED <<cacheVars, req, chan, cancel, nonce, streamNonce, toClient,
                 version, resources, faults, silent>>

\* The stream breaks, unless it is the last the Envoy may open.  What is on it is
\* lost, but for a request that the reader goroutine already has and process will
\* still handle.
Break ==
  /\ active # NoStream
  /\ Fault
  /\ \E s \in Streams : pc[s] = "new"
  /\ active' = NoStream
  /\ \/ toServer' = [toServer EXCEPT ![active] = <<>>]
     \/ /\ toServer[active] # <<>>
        /\ toServer' = [toServer EXCEPT ![active] = <<Head(@)>>]
  /\ toClient' = [toClient EXCEPT ![active] = <<>>]
  /\ UNCHANGED <<cacheVars, serverVars, version, resources, lastNonce, silent>>

\* A CDS response is applied: the endpoints are requested when the clusters
\* differ, and the response is acknowledged.
ApplyClusters ==
  /\ active # NoStream
  /\ toClient[active] # <<>>
  /\ LET m == Head(toClient[active])
         ack == Request("cds", m.version, {}, m.nonce)
         eds == Request("eds", version["eds"], m.names, lastNonce["eds"])
     IN  /\ m.type = "cds"
         /\ version' = [version EXCEPT !["cds"] = m.version]
         /\ resources' = [resources EXCEPT !["cds"] = m.names]
         /\ lastNonce' = [lastNonce EXCEPT !["cds"] = m.nonce]
         /\ toServer' = [toServer EXCEPT ![active] =
              @ \o (IF m.names = resources["cds"] THEN <<ack>> ELSE <<eds, ack>>)]
  /\ toClient' = [toClient EXCEPT ![active] = Tail(@)]
  /\ UNCHANGED <<cacheVars, serverVars, active, faults, silent>>

ApplyEndpoints ==
  /\ active # NoStream
  /\ toClient[active] # <<>>
  /\ LET m == Head(toClient[active])
     IN  /\ m.type = "eds"
         /\ version' = [version EXCEPT !["eds"] = m.version]
         /\ resources' = [resources EXCEPT !["eds"] = m.names]
         /\ lastNonce' = [lastNonce EXCEPT !["eds"] = m.nonce]
         /\ toServer' = [toServer EXCEPT ![active] =
              Append(@, Request("eds", m.version, resources["cds"], m.nonce))]
  /\ toClient' = [toClient EXCEPT ![active] = Tail(@)]
  /\ UNCHANGED <<cacheVars, serverVars, active, faults, silent>>

\* A response is rejected: the old version with the new nonce.
Reject ==
  /\ active # NoStream
  /\ toClient[active] # <<>>
  /\ Fault
  /\ LET m == Head(toClient[active])
     IN  /\ lastNonce' = [lastNonce EXCEPT ![m.type] = m.nonce]
         /\ toServer' = [toServer EXCEPT ![active] =
              Append(@, Request(m.type, version[m.type],
                                IF m.type = "cds" THEN {} ELSE resources["cds"], m.nonce))]
  /\ toClient' = [toClient EXCEPT ![active] = Tail(@)]
  /\ UNCHANGED <<cacheVars, serverVars, active, version, resources, silent>>

process(s) == Receive(s) \/ Watch(s) \/ End(s) \/ \E t \in Types : Send(s, t)

Next ==
  \/ \E S \in Snapshots : Set(S)
  \/ Clear
  \/ \E s \in Streams : process(s) \/ Connect(s)
  \/ Break \/ ApplyClusters \/ ApplyEndpoints \/ Reject

\* The process loops run, and the Envoy reads what it is sent and reconnects;
\* nothing forces snapshots, clears, broken streams or rejections.
Fairness ==
  /\ \A s \in Streams : WF_vars(process(s))
  /\ WF_vars((\E s \in Streams : Connect(s)) \/ ApplyClusters \/ ApplyEndpoints)

Spec == Init /\ [][Next]_vars /\ Fairness

-----------------------------------------------------------------------------
\* The channel of an open watch is empty, so the send of respond, made with
\* cache.mu held, never blocks (simple.go: "The value channel should have
\* capacity not to block").
OpenWatchIsEmpty == \A w \in watches : value[w.id] = NoResponse

\* An open watch is the one a live stream holds the channel and the cancel
\* function of, for the type of its request: re-requests and ended streams,
\* however they interleave with SetSnapshot, leak no watch.
WatchesAreOwned ==
  \A w \in watches : \E s \in Streams :
    /\ Live(s)
    /\ chan[s][w.req.type] = w.id
    /\ cancel[s][w.req.type] = w.id

Feed == INSTANCE ConfigFeed WITH published <- snaps

\* In ADS mode the Envoy moves, type by type, to later snapshots only, and holds
\* each as a whole, across stale nonces, rejections, overlapping streams.
ImplementsFeed == Feed!FeedSpec

InSync == \A t \in Types : version[t] = current /\ resources[t] = snaps[current]

\* When the snapshots stop changing the Envoy ends up with the last one for every
\* type, unless the cache has dropped a watch a stream still waits on without an
\* answer: by ClearSnapshot, or in respond for lack of names.
Converges == <>[](current = 0 \/ silent # {} \/ InSync)

\* "SnapshotCache consistently replies with the latest snapshot" (simple.go:29):
\* the same without exception.
RepliesWithLatest == <>[](current = 0 \/ InSync)
=============================================================================
