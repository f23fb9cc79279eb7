-------------------------- MODULE XdsStreams_proofs -------------------------
(***************************************************************************)
(* What holds, in ADS mode, between the Envoy and the stream it is on, and *)
(* the lemmas that show the steps of the cache and of the other streams    *)
(* keep it. XdsFeed_proofs completes the induction.                        *)
(***************************************************************************)
EXTENDS XdsServer_proofs

\* Some response of type t is on its way to the Envoy on stream s.
InFlight(s, t) == \E k \in 1 .. Len(toClient[s]) : toClient[s][k].type = t

\* A response of version v and names S is a snapshot, as a whole.
IsSnapshot(m) == m.version \in 1 .. Len(snaps) /\ m.names = snaps[m.version]

\* The state of type t between the Envoy and its stream s: at most one response is
\* anywhere between the cache and the Envoy, it is newer than what the Envoy runs,
\* and a request the server will accept carries the version the Envoy runs.
NonceInv(s, t) ==
  /\ nonce[s][t] >= lastNonce[t]
  /\ nonce[s][t] > lastNonce[t] => InFlight(s, t)

ToClientInv(s, t) ==
  \A k \in 1 .. Len(toClient[s]) : toClient[s][k].type = t =>
    /\ IsSnapshot(toClient[s][k])
    /\ toClient[s][k].version > version[t]
    /\ toClient[s][k].nonce = nonce[s][t]
    /\ nonce[s][t] > lastNonce[t]
    /\ \A j \in 1 .. Len(toClient[s]) : toClient[s][j].type = t => j = k

ToServerInv(s, t) ==
  \A k \in 1 .. Len(toServer[s]) : toServer[s][k].type = t =>
    /\ toServer[s][k].nonce <= lastNonce[t]
    /\ toServer[s][k].nonce = lastNonce[t] => toServer[s][k].version = version[t]

HeldInv(s, t) ==
  chan[s][t] # NoId /\ value[chan[s][t]] # NoResponse =>
    ~InFlight(s, t) /\ value[chan[s][t]].version > version[t]

HandledInv(s, t) ==
  pc[s] = "watch" /\ req[s].type = t => ~InFlight(s, t) /\ req[s].version = version[t]

WatchedInv(s, t) ==
  \A w \in watches : w.id[1] = s /\ w.id[2] = t =>
    ~InFlight(s, t) /\ w.req.version = version[t]

TypeInv(s, t) ==
  /\ NonceInv(s, t) /\ ToClientInv(s, t) /\ ToServerInv(s, t)
  /\ HeldInv(s, t) /\ HandledInv(s, t) /\ WatchedInv(s, t)

SnapshotInv ==
  /\ current \in {0, Len(snaps)}
  /\ \A t \in Types : version[t] <= Len(snaps)
  /\ \A i \in Ids : value[i] # NoResponse => IsSnapshot(value[i])

EnvoyInv == \A s \in Streams, t \in Types : active = s => Live(s) /\ TypeInv(s, t)

FeedInv == SnapshotInv /\ EnvoyInv

-----------------------------------------------------------------------------
(* Facts about the operators *)

\* In ADS mode what respond returns is the snapshot as a whole or nothing.
LEMMA RespondWhole ==
  ASSUME NEW r \in Requests, NEW S \in SUBSET Names, NEW v \in Nat, ADS = TRUE
  PROVE  respond(r, S, v) # NoResponse => respond(r, S, v) = [version |-> v, names |-> S]
<1>1. CASE r.names = {}
  BY <1>1 DEF respond
<1>2. CASE r.names # {} /\ superset(r.names, S)
  <2>1. S \cap r.names = S
    BY <1>2 DEF superset
  <2> QED BY <1>2, <2>1 DEF respond
<1>3. CASE r.names # {} /\ ~superset(r.names, S)
  BY <1>3 DEF respond
<1> QED BY <1>1, <1>2, <1>3

\* An element of a concatenation is an element of one of the sequences.
LEMMA ConcatElement ==
  ASSUME NEW p \in Seq(Requests), NEW q \in Seq(Requests), NEW k \in 1 .. Len(p \o q)
  PROVE  \/ \E j \in 1 .. Len(p) : (p \o q)[k] = p[j]
         \/ \E j \in 1 .. Len(q) : (p \o q)[k] = q[j]
<1>1. Len(p) \in Nat /\ Len(q) \in Nat /\ Len(p \o q) = Len(p) + Len(q)
  OBVIOUS
<1>2. CASE k <= Len(p)
  BY <1>1, <1>2
<1>3. CASE k > Len(p)
  <2>1. k - Len(p) \in 1 .. Len(q) /\ (p \o q)[k] = q[k - Len(p)]
    BY <1>1, <1>3
  <2>2. \E j \in 1 .. Len(q) : (p \o q)[k] = q[j]
    BY <2>1
  <2> QED BY <2>2
<1> QED BY <1>1, <1>2, <1>3

\* An element of a sequence with one appended is that one or an old one.
LEMMA AppendElement ==
  ASSUME NEW p \in Seq(Requests), NEW x \in Requests, NEW k \in 1 .. Len(Append(p, x))
  PROVE  Append(p, x)[k] = x \/ \E j \in 1 .. Len(p) : Append(p, x)[k] = p[j]
OBVIOUS

-----------------------------------------------------------------------------
(* What the Envoy runs *)

\* The feed starts with nothing.
LEMMA FeedInit == Init => FeedInv
<1> SUFFICES ASSUME Init PROVE FeedInv
  OBVIOUS
<1>1. SnapshotInv
  BY DEF Init, CacheInit, SnapshotInv
<1>2. EnvoyInv
  BY CacheAssumption DEF Init, EnvoyInv, NoStream, Streams
<1> QED BY <1>1, <1>2 DEF FeedInv

\* A snapshot that has been set stays what it is.
LEMMA SnapshotStays ==
  ASSUME XdsTypeOK, NEW S \in Snapshots, SetSnapshot(S), NEW m, IsSnapshot(m)
  PROVE  m.version \in 1 .. Len(snaps') /\ m.names = snaps'[m.version]
BY DEF SetSnapshot, IsSnapshot, XdsTypeOK, CacheTypeOK

\* The response at the head of the Envoy's stream is a snapshot newer than what it runs.
LEMMA HeadIsSnapshot ==
  ASSUME XdsTypeOK, EnvoyInv, NEW s \in Streams, active = s, toClient[s] # <<>>,
         NEW m, m = Head(toClient[s])
  PROVE  /\ m \in Messages /\ m.type \in Types
         /\ IsSnapshot(m) /\ m.version > version[m.type]
<1>1. toClient[s] \in Seq(Messages)
  BY DEF XdsTypeOK
<1>2. 1 \in 1 .. Len(toClient[s]) /\ m = toClient[s][1] /\ m \in Messages
  BY <1>1
<1>3. m.type \in Types
  BY <1>2 DEF Messages
<1>4. ToClientInv(s, m.type)
  BY <1>3 DEF EnvoyInv, TypeInv
<1>5. IsSnapshot(m) /\ m.version > version[m.type]
  BY <1>2, <1>4 DEF ToClientInv
<1> QED BY <1>2, <1>3, <1>5

\* A stream listens on channels of its own.
LEMMA ChannelIsOwn ==
  ASSUME XdsTypeOK, StreamInv, NEW s \in Streams, NEW t \in Types, chan[s][t] # NoId
  PROVE  chan[s][t] \in Ids /\ chan[s][t] = <<s, t, 1>>
<1>1. chan[s][t] \in Ids \cup {NoId}
  BY DEF XdsTypeOK
<1>2. chan[s][t] = <<s, t, 1>>
  BY DEF StreamInv
<1> QED BY <1>1, <1>2

\* Every step keeps the versions within the snapshots, and responses whole.
LEMMA SnapshotNext ==
  ADS = TRUE /\ ServerInv /\ FeedInv /\ [Next]_vars => SnapshotInv'
<1> SUFFICES ASSUME ADS = TRUE, XdsTypeOK, OwnerInv, StreamInv, SnapshotInv, EnvoyInv, [Next]_vars
             PROVE  SnapshotInv'
  BY DEF ServerInv, FeedInv
<1> USE CacheAssumption
<1>1. ASSUME NEW S \in Snapshots, Set(S) PROVE SnapshotInv'
  <2> DEFINE v == Len(snaps) + 1
             late == {w \in watches : w.req.version # v}
             pick(i) == CHOOSE w \in late : w.id = i
  <2>1. /\ snaps' = Append(snaps, S) /\ current' = v /\ version' = version
        /\ Len(snaps) \in Nat /\ Len(snaps') = v /\ snaps'[v] = S
    BY <1>1 DEF Set, SetSnapshot, GetVersion, envoyVars, XdsTypeOK, CacheTypeOK
  <2>2. value' = [i \in Ids |-> IF \E w \in late : w.id = i
                                THEN respond(pick(i).req, S, v) ELSE value[i]]
    BY <1>1 DEF Set, SetSnapshot, outdated, GetVersion
  <2>3. ASSUME NEW i \in Ids, value'[i] # NoResponse
        PROVE  value'[i].version \in 1 .. Len(snaps') /\ value'[i].names = snaps'[value'[i].version]
    <3>1. CASE \E w \in late : w.id = i
      <4>1. pick(i).req \in Requests
        BY <3>1 DEF XdsTypeOK, CacheTypeOK
      <4>2. value'[i] = respond(pick(i).req, S, v)
        <5> HIDE DEF late, v, pick
        <5> QED BY <2>2, <3>1
      <4>3. S \in SUBSET Names /\ v \in Nat
        BY <2>1
      <4>4. value'[i] = [version |-> v, names |-> S]
        <5> HIDE DEF late, v, pick
        <5> QED BY <2>3, <4>1, <4>2, <4>3, RespondWhole
      <4> QED BY <2>1, <4>4
    <3>2. CASE ~ \E w \in late : w.id = i
      <4>1. value'[i] = value[i]
        <5> HIDE DEF late, v, pick
        <5> QED BY <2>2, <3>2
      <4>2. IsSnapshot(value[i])
        BY <2>3, <4>1 DEF SnapshotInv
      <4> QED BY <1>1, <4>1, <4>2, SnapshotStays DEF Set
    <3> QED BY <3>1, <3>2
  <2>4. \A t \in Types : version'[t] <= Len(snaps')
    BY <2>1 DEF SnapshotInv, XdsTypeOK
  <2> QED BY <2>1, <2>3, <2>4 DEF SnapshotInv, IsSnapshot
<1>2. ASSUME Clear PROVE SnapshotInv'
  BY <1>2 DEF Clear, ClearSnapshot, SnapshotInv, IsSnapshot
<1>3. ASSUME NEW s \in Streams, Receive(s) PROVE SnapshotInv'
  BY <1>3 DEF Receive, cancelWatch, SnapshotInv, IsSnapshot, envoyVars
<1>4. ASSUME NEW s \in Streams, Watch(s) PROVE SnapshotInv'
  <2> DEFINE r == req[s]
             i == nextWatchID(s, r.type)
  <2>1. r \in Requests /\ r.type \in Types
    BY DEF XdsTypeOK, Requests
  <2>2. UNCHANGED <<snaps, current, version>>
    BY <1>4 DEF Watch, CreateWatch, envoyVars
  <2>3. ASSUME NEW j \in Ids, value'[j] # NoResponse PROVE IsSnapshot(value'[j])
    <3>1. CASE value'[j] = value[j]
      BY <2>3, <3>1 DEF SnapshotInv
    <3>2. CASE ~LeavesOpen(r) /\ value'[j] = respond(r, snaps[current], current)
      <4>1. current \in 1 .. Len(snaps) /\ current \in Nat
        BY <3>2 DEF LeavesOpen, XdsTypeOK, CacheTypeOK
      <4>2. snaps[current] \in SUBSET Names
        BY <4>1, SnapshotType DEF XdsTypeOK
      <4>3. value'[j] = [version |-> current, names |-> snaps[current]]
        BY <2>1, <2>3, <3>2, <4>1, <4>2, RespondWhole
      <4> QED BY <4>1, <4>3 DEF IsSnapshot
    <3>3. value'[j] = value[j] \/ (~LeavesOpen(r) /\ value'[j] = respond(r, snaps[current], current))
      BY <1>4, <2>3 DEF Watch, CreateWatch, XdsTypeOK, CacheTypeOK
    <3> QED BY <3>1, <3>2, <3>3
  <2> QED BY <2>2, <2>3 DEF SnapshotInv, IsSnapshot
<1>5. ASSUME NEW s \in Streams, NEW t \in Types, Send(s, t) PROVE SnapshotInv'
  <2>1. \A j \in Ids : value'[j] \in {value[j], NoResponse}
    BY <1>5 DEF Send, XdsTypeOK, CacheTypeOK
  <2> QED BY <1>5, <2>1 DEF Send, SnapshotInv, IsSnapshot, envoyVars
<1>6. ASSUME NEW s \in Streams, End(s) PROVE SnapshotInv'
  <2>1. \A j \in Ids : value'[j] \in {value[j], NoResponse}
    BY <1>6 DEF End
  <2> QED BY <1>6, <2>1 DEF End, cancelWatch, SnapshotInv, IsSnapshot, envoyVars
<1>7. ASSUME NEW s \in Streams, Connect(s) PROVE SnapshotInv'
  BY <1>7 DEF Connect, SnapshotInv, IsSnapshot, cacheVars
<1>8. ASSUME Break \/ Reject \/ UNCHANGED vars PROVE SnapshotInv'
  BY <1>8 DEF Break, Reject, vars, SnapshotInv, IsSnapshot, cacheVars, envoyVars
<1>9. ASSUME ApplyClusters \/ ApplyEndpoints PROVE SnapshotInv'
  <2> DEFINE m == Head(toClient[active])
  <2>1. active \in Streams /\ toClient[active] # <<>>
    BY <1>9 DEF ApplyClusters, ApplyEndpoints, XdsTypeOK
  <2>2. m.type \in Types /\ IsSnapshot(m)
    BY <2>1, HeadIsSnapshot
  <2>3. version' = [version EXCEPT ![m.type] = m.version]
    BY <1>9 DEF ApplyClusters, ApplyEndpoints
  <2>4. \A t \in Types : version'[t] <= Len(snaps)
    <3> HIDE DEF m
    <3> QED BY <2>2, <2>3 DEF SnapshotInv, IsSnapshot, XdsTypeOK
  <2>5. UNCHANGED cacheVars
    BY <1>9 DEF ApplyClusters, ApplyEndpoints
  <2> QED BY <2>4, <2>5 DEF SnapshotInv, IsSnapshot, cacheVars
<1> QED BY <1>1, <1>2, <1>3, <1>4, <1>5, <1>6, <1>7, <1>8, <1>9 DEF Next, process

\* A step that leaves the stream's messages and nonces and the Envoy alone keeps
\* what is said of messages in flight.
LEMMA QuietStream ==
  ASSUME XdsTypeOK, NEW s \in Streams, NEW t \in Types, TypeInv(s, t),
         toClient'[s] = toClient[s], toServer'[s] = toServer[s], nonce'[s][t] = nonce[s][t],
         UNCHANGED <<snaps, version, lastNonce>>
  PROVE  /\ InFlight(s, t)' = InFlight(s, t)
         /\ NonceInv(s, t)' /\ ToClientInv(s, t)' /\ ToServerInv(s, t)'
<1>1. InFlight(s, t)' = InFlight(s, t)
  BY DEF InFlight
<1>2. NonceInv(s, t)'
  BY <1>1 DEF TypeInv, NonceInv
<1>3. ToClientInv(s, t)'
  BY DEF TypeInv, ToClientInv, IsSnapshot
<1>4. ToServerInv(s, t)'
  BY DEF TypeInv, ToServerInv
<1> QED BY <1>1, <1>2, <1>3, <1>4

\* The Envoy takes the response m at the head of its stream, moves to its version or
\* not, and sends requests that carry the nonce and version it then has.
LEMMA EnvoyTakes ==
  ASSUME XdsTypeOK, XdsTypeOK', NEW s \in Streams, NEW t \in Types, NEW m \in Messages,
         \A u \in Types : TypeInv(s, u),
         toClient[s] # <<>>, m = Head(toClient[s]), toClient'[s] = Tail(toClient[s]),
         lastNonce' = [lastNonce EXCEPT ![m.type] = m.nonce],
         version' = version \/ version' = [version EXCEPT ![m.type] = m.version],
         UNCHANGED <<cacheVars, serverVars>>,
         \A k \in 1 .. Len(toServer'[s]) :
           \/ \E j \in 1 .. Len(toServer[s]) : toServer'[s][k] = toServer[s][j]
           \/ /\ toServer'[s][k].nonce = lastNonce'[toServer'[s][k].type]
              /\ toServer'[s][k].version = version'[toServer'[s][k].type]
  PROVE  TypeInv(s, t)'
<1>1. /\ Len(toClient[s]) \in Nat /\ Len(toClient'[s]) = Len(toClient[s]) - 1
      /\ 1 \in 1 .. Len(toClient[s]) /\ toClient[s][1] = m
      /\ \A k \in 1 .. Len(toClient'[s]) :
           k + 1 \in 1 .. Len(toClient[s]) /\ toClient'[s][k] = toClient[s][k + 1]
  <2> DEFINE q == toClient[s]
  <2>1. q \in Seq(Messages) /\ q # <<>>
    BY DEF XdsTypeOK
  <2>2. Len(q) \in Nat /\ Len(q) >= 1 /\ Head(q) = q[1] /\ Len(Tail(q)) = Len(q) - 1
    <3> HIDE DEF q
    <3> QED BY <2>1
  <2>3. \A k \in 1 .. Len(q) - 1 : Tail(q)[k] = q[k + 1]
    <3> HIDE DEF q
    <3> QED BY <2>1, <2>2
  <2> QED BY <2>2, <2>3
<1>2. m.type \in Types /\ m.nonce \in Nat /\ m.version \in Nat
  BY DEF Messages
<1>3. CASE t = m.type
  <2>1. InFlight(s, t)
    BY <1>1, <1>3 DEF InFlight
  <2>2. /\ m.nonce = nonce[s][t] /\ nonce[s][t] > lastNonce[t]
        /\ \A j \in 1 .. Len(toClient[s]) : toClient[s][j].type = t => j = 1
    <3>1. ToClientInv(s, t)
      BY DEF TypeInv
    <3> QED BY <1>1, <1>3, <3>1 DEF ToClientInv
  <2>3. \A k \in 1 .. Len(toClient'[s]) : toClient'[s][k].type # t
    <3> SUFFICES ASSUME NEW k \in 1 .. Len(toClient'[s]), toClient'[s][k].type = t PROVE FALSE
      OBVIOUS
    <3>1. k + 1 = 1
      BY <1>1, <2>2
    <3> QED BY <3>1
  <2>4. lastNonce'[t] = nonce[s][t] /\ nonce[s][t] \in Nat /\ lastNonce[t] \in Nat
    BY <1>2, <1>3, <2>2 DEF XdsTypeOK
  <2>5. NonceInv(s, t)'
    <3>1. nonce'[s][t] = nonce[s][t]
      BY DEF serverVars
    <3> QED BY <2>4, <3>1, SMTT(30) DEF NonceInv
  <2>6. ToClientInv(s, t)'
    BY <2>3 DEF ToClientInv
  <2>7. ToServerInv(s, t)'
    <3> SUFFICES ASSUME NEW k \in 1 .. Len(toServer'[s]), toServer'[s][k].type = t
                 PROVE  /\ toServer'[s][k].nonce <= lastNonce'[t]
                        /\ toServer'[s][k].nonce = lastNonce'[t]
                             => toServer'[s][k].version = version'[t]
      BY DEF ToServerInv
    <3>1. CASE \E j \in 1 .. Len(toServer[s]) : toServer'[s][k] = toServer[s][j]
      <4>1. PICK j \in 1 .. Len(toServer[s]) : toServer'[s][k] = toServer[s][j]
        BY <3>1
      <4>2. toServer[s][j] \in Requests
        BY SMTT(30) DEF XdsTypeOK
      <4>3. toServer[s][j].nonce \in Nat
        BY <4>2 DEF Requests
      <4>4. toServer[s][j].nonce <= lastNonce[t]
        BY <4>1 DEF TypeInv, ToServerInv
      <4> QED BY <2>2, <2>4, <4>1, <4>3, <4>4
    <3>2. CASE ~ \E j \in 1 .. Len(toServer[s]) : toServer'[s][k] = toServer[s][j]
      BY <2>4, <3>2
    <3> QED BY <3>1, <3>2
  <2>8. HeldInv(s, t)'
    BY <2>1 DEF TypeInv, HeldInv, cacheVars, serverVars
  <2>9. HandledInv(s, t)'
    BY <2>1 DEF TypeInv, HandledInv, serverVars
  <2>10. WatchedInv(s, t)'
    BY <2>1 DEF TypeInv, WatchedInv, cacheVars
  <2> QED BY <2>5, <2>6, <2>7, <2>8, <2>9, <2>10 DEF TypeInv
<1>4. CASE t # m.type
  <2>1. version'[t] = version[t] /\ lastNonce'[t] = lastNonce[t]
    BY <1>2, <1>4 DEF XdsTypeOK
  <2>2. InFlight(s, t)' => InFlight(s, t)
    BY <1>1 DEF InFlight
  <2>3. InFlight(s, t) => InFlight(s, t)'
    <3> SUFFICES ASSUME NEW k \in 1 .. Len(toClient[s]), toClient[s][k].type = t
                 PROVE  \E j \in 1 .. Len(toClient'[s]) : toClient'[s][j].type = t
      BY DEF InFlight
    <3>1. k # 1
      BY <1>1, <1>4
    <3>2. k - 1 \in 1 .. Len(toClient'[s]) /\ (k - 1) + 1 = k
      BY <1>1, <3>1
    <3>3. toClient'[s][k - 1] = toClient[s][k]
      BY <1>1, <3>2
    <3> QED BY <3>2, <3>3
  <2>4. NonceInv(s, t)'
    BY <2>1, <2>3 DEF TypeInv, NonceInv, serverVars
  <2>5. ToClientInv(s, t)'
    <3> SUFFICES ASSUME NEW k \in 1 .. Len(toClient'[s]), toClient'[s][k].type = t
                 PROVE  /\ toClient'[s][k].version \in 1 .. Len(snaps')
                        /\ toClient'[s][k].names = snaps'[toClient'[s][k].version]
                        /\ toClient'[s][k].version > version'[t]
                        /\ toClient'[s][k].nonce = nonce'[s][t]
                        /\ nonce'[s][t] > lastNonce'[t]
                        /\ \A j \in 1 .. Len(toClient'[s]) : toClient'[s][j].type = t => j = k
      BY DEF ToClientInv, IsSnapshot
    <3>1. k + 1 \in 1 .. Len(toClient[s]) /\ toClient[s][k + 1] = toClient'[s][k]
      BY <1>1
    <3>2. /\ IsSnapshot(toClient[s][k + 1])
          /\ toClient[s][k + 1].version > version[t]
          /\ toClient[s][k + 1].nonce = nonce[s][t]
          /\ nonce[s][t] > lastNonce[t]
          /\ \A j \in 1 .. Len(toClient[s]) : toClient[s][j].type = t => j = k + 1
      BY <3>1 DEF TypeInv, ToClientInv
    <3>3. ASSUME NEW j \in 1 .. Len(toClient'[s]), toClient'[s][j].type = t PROVE j = k
      <4>1. j + 1 = k + 1
        BY <1>1, <3>2, <3>3
      <4> QED BY <4>1, SMTT(30)
    <3> QED BY <2>1, <3>1, <3>2, <3>3 DEF IsSnapshot, cacheVars, serverVars
  <2>6. ToServerInv(s, t)'
    <3> SUFFICES ASSUME NEW k \in 1 .. Len(toServer'[s]), toServer'[s][k].type = t
                 PROVE  /\ toServer'[s][k].nonce <= lastNonce'[t]
                        /\ toServer'[s][k].nonce = lastNonce'[t]
                             => toServer'[s][k].version = version'[t]
      BY DEF ToServerInv
    <3>1. lastNonce[t] \in Nat
      BY DEF XdsTypeOK
    <3>2. CASE \E j \in 1 .. Len(toServer[s]) : toServer'[s][k] = toServer[s][j]
      <4>1. PICK j \in 1 .. Len(toServer[s]) : toServer'[s][k] = toServer[s][j]
        BY <3>2
      <4>2. ToServerInv(s, t)
        BY DEF TypeInv
      <4>3. /\ toServer[s][j].nonce <= lastNonce[t]
            /\ toServer[s][j].nonce = lastNonce[t] => toServer[s][j].version = version[t]
        BY <4>1, <4>2 DEF ToServerInv
      <4> QED BY <2>1, <4>1, <4>3
    <3>3. CASE ~ \E j \in 1 .. Len(toServer[s]) : toServer'[s][k] = toServer[s][j]
      BY <2>1, <3>1, <3>3
    <3> QED BY <3>2, <3>3
  <2>7. HeldInv(s, t)'
    BY <2>1, <2>2 DEF TypeInv, HeldInv, cacheVars, serverVars
  <2>8. HandledInv(s, t)'
    BY <2>1, <2>2 DEF TypeInv, HandledInv, serverVars
  <2>9. WatchedInv(s, t)'
    BY <2>1, <2>2 DEF TypeInv, WatchedInv, cacheVars
  <2> QED BY <2>4, <2>5, <2>6, <2>7, <2>8, <2>9 DEF TypeInv
<1> QED BY <1>3, <1>4
=============================================================================
