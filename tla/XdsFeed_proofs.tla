--------------------------- MODULE XdsFeed_proofs ---------------------------
(***************************************************************************)
(* The proofs, for any number of streams, snapshots and faults, that in    *)
(* ADS mode the Envoy only moves forward, by whole snapshots (XdsServer    *)
(* implements ConfigFeed), and that its stream does not come to rest with  *)
(* the Envoy behind the cache.                                             *)
(***************************************************************************)
EXTENDS XdsStreams_proofs

\* Every step keeps the state between the Envoy and its stream.
LEMMA EnvoyNext ==
  ADS = TRUE /\ ServerInv /\ FeedInv /\ [Next]_vars => EnvoyInv'
<1> SUFFICES ASSUME ADS = TRUE, XdsTypeOK, OwnerInv, StreamInv, SnapshotInv, EnvoyInv, [Next]_vars,
                    NEW s \in Streams, NEW t \in Types, active' = s
             PROVE  Live(s)' /\ TypeInv(s, t)'
  BY Zenon DEF ServerInv, FeedInv, EnvoyInv
<1> USE CacheAssumption
<1>0. XdsTypeOK'
  BY XdsTypeNext, Zenon
<1>a. \A w \in watches : w.id \in Ids /\ w.id[1] \in Streams /\ w.id[2] \in Types
  BY IdParts, Zenon DEF XdsTypeOK, CacheTypeOK
<1>b. version[t] \in Nat /\ lastNonce[t] \in Nat /\ nonce[s][t] \in Nat /\ streamNonce[s] \in Nat
  BY ZenonT(40) DEF XdsTypeOK
<1>1. ASSUME NEW S \in Snapshots, Set(S) PROVE Live(s)' /\ TypeInv(s, t)'
  <2> DEFINE v == Len(snaps) + 1
             late == {w \in watches : w.req.version # v}
             pick(i) == CHOOSE w \in late : w.id = i
  <2>1. UNCHANGED <<serverVars, envoyVars, netVars>> /\ watches' = watches \ late
    BY <1>1, Zenon DEF Set, SetSnapshot, discard, outdated, GetVersion
  <2>2. Live(s) /\ TypeInv(s, t)
    BY <2>1, Zenon DEF EnvoyInv, envoyVars
  <2>3. InFlight(s, t)' = InFlight(s, t)
    BY <2>1, Zenon DEF InFlight, netVars
  <2>4. NonceInv(s, t)' /\ ToServerInv(s, t)' /\ HandledInv(s, t)' /\ WatchedInv(s, t)'
    BY <2>1, <2>2, <2>3, Zenon DEF TypeInv, NonceInv, ToServerInv, HandledInv, WatchedInv,
         serverVars, envoyVars, netVars
  <2>5. ToClientInv(s, t)'
    <3>1. \A k \in 1 .. Len(toClient[s]) : toClient[s][k].type = t =>
            /\ toClient[s][k].version \in 1 .. Len(snaps')
            /\ toClient[s][k].names = snaps'[toClient[s][k].version]
      BY <1>1, <2>2, SnapshotStays, Zenon DEF Set, TypeInv, ToClientInv
    <3> QED BY <2>1, <2>2, <3>1, Zenon DEF TypeInv, ToClientInv, IsSnapshot, serverVars, envoyVars, netVars
  <2>6. HeldInv(s, t)'
    <3> DEFINE i == chan[s][t]
    <3> SUFFICES ASSUME i # NoId, value'[i] # NoResponse
                 PROVE  ~InFlight(s, t) /\ value'[i].version > version[t]
      BY <2>1, <2>3, Zenon DEF HeldInv, serverVars, envoyVars
    <3>1. i \in Ids /\ i = <<s, t, 1>>
      BY ChannelIsOwn, Zenon
    <3>2. value' = [j \in Ids |-> IF \E w \in late : w.id = j
                                  THEN respond(pick(j).req, S, v) ELSE value[j]]
      BY <1>1, Zenon DEF Set, SetSnapshot, outdated, GetVersion
    <3>3. CASE \E w \in late : w.id = i
      <4>1. pick(i) \in late /\ pick(i).id = i
        BY <3>3, Zenon
      <4>2. pick(i).req \in Requests /\ pick(i) \in watches
        BY <4>1, Zenon DEF XdsTypeOK, CacheTypeOK
      <4>3. value'[i] = respond(pick(i).req, S, v)
        <5> HIDE DEF late, v, pick, i
        <5> QED BY <3>1, <3>2, <3>3, Zenon
      <4>4. S \in SUBSET Names /\ v \in Nat /\ v > version[t]
        BY <1>b DEF SnapshotInv, XdsTypeOK, CacheTypeOK
      <4>5. value'[i] = [version |-> v, names |-> S]
        <5> HIDE DEF late, v, pick, i
        <5> QED BY <4>2, <4>3, <4>4, RespondWhole, ZenonT(40)
      <4>6. ~InFlight(s, t)
        <5>1. pick(i).id[1] = s /\ pick(i).id[2] = t
          <6> HIDE DEF pick, i
          <6> QED BY <3>1, <4>1
        <5> HIDE DEF pick
        <5> QED BY <2>2, <4>2, <5>1, Zenon DEF TypeInv, WatchedInv
      <4> QED BY <4>4, <4>5, <4>6
    <3>4. CASE ~ \E w \in late : w.id = i
      <4>1. value'[i] = value[i]
        <5> HIDE DEF late, v, pick, i
        <5> QED BY <3>1, <3>2, <3>4, Zenon
      <4> QED BY <2>2, <4>1, Zenon DEF TypeInv, HeldInv
    <3> QED BY <3>3, <3>4, Zenon
  <2> QED BY <2>1, <2>2, <2>4, <2>5, <2>6, Zenon DEF TypeInv, Live, serverVars
<1>2. ASSUME Clear PROVE Live(s)' /\ TypeInv(s, t)'
  <2>1. /\ UNCHANGED <<serverVars, active, version, resources, lastNonce, netVars, snaps, value>>
        /\ watches' = {}
    BY <1>2, Zenon DEF Clear, ClearSnapshot
  <2>2. Live(s) /\ TypeInv(s, t)
    BY <2>1, Zenon DEF EnvoyInv
  <2>3. /\ InFlight(s, t)' = InFlight(s, t)
        /\ NonceInv(s, t)' /\ ToClientInv(s, t)' /\ ToServerInv(s, t)'
    BY <2>1, <2>2, QuietStream, Zenon DEF serverVars, netVars
  <2>4. HeldInv(s, t)' /\ HandledInv(s, t)' /\ WatchedInv(s, t)'
    BY <2>1, <2>2, <2>3, Zenon DEF TypeInv, HeldInv, HandledInv, WatchedInv, serverVars
  <2> QED BY <2>1, <2>2, <2>3, <2>4, Zenon DEF TypeInv, Live, serverVars
<1>3. ASSUME NEW a \in Streams, Receive(a), a = s PROVE Live(s)' /\ TypeInv(s, t)'
  <2> DEFINE q == toServer[s]
             r == Head(q)
  <2>1. active = s /\ a = s
    BY <1>3, Zenon DEF Receive, envoyVars
  <2>2. Live(s) /\ \A u \in Types : TypeInv(s, u)
    BY <2>1, Zenon DEF EnvoyInv
  <2>3. q \in Seq(Requests) /\ q # <<>>
    BY <1>3, <2>1, Zenon DEF Receive, XdsTypeOK
  <2>4. /\ Len(q) \in Nat /\ 1 \in 1 .. Len(q) /\ r = q[1] /\ r \in Requests
        /\ Len(Tail(q)) = Len(q) - 1
        /\ \A k \in 1 .. Len(Tail(q)) : k + 1 \in 1 .. Len(q) /\ Tail(q)[k] = q[k + 1]
    <3> HIDE DEF q
    <3>1. Len(q) \in Nat /\ Len(q) >= 1 /\ Head(q) = q[1] /\ Len(Tail(q)) = Len(q) - 1
      BY <2>3
    <3>2. \A k \in 1 .. Len(q) - 1 : Tail(q)[k] = q[k + 1]
      BY <2>3, <3>1
    <3> QED BY <2>3, <3>1, <3>2
  <2>5. r.type \in Types /\ r.nonce \in Nat
    BY <2>4, Zenon DEF Requests
  <2>6. /\ UNCHANGED <<value, chan, cancel, nonce, streamNonce, toClient, envoyVars, snaps>>
        /\ toServer'[s] = Tail(q)
        /\ watches' \subseteq watches
    BY <1>3, <2>1, Zenon DEF Receive, cancelWatch, XdsTypeOK
  <2>7. InFlight(s, t)' = InFlight(s, t)
    BY <2>6, Zenon DEF InFlight
  <2>8. NonceInv(s, t)' /\ ToClientInv(s, t)' /\ HeldInv(s, t)' /\ WatchedInv(s, t)'
    <3>1. NonceInv(s, t)'
      BY <2>2, <2>6, <2>7, Zenon DEF TypeInv, NonceInv, envoyVars
    <3>2. ToClientInv(s, t)'
      <4>1. ToClientInv(s, t)
        BY <2>2, Zenon DEF TypeInv
      <4>2. UNCHANGED <<toClient, snaps, version, nonce, lastNonce>>
        BY <2>6, Zenon DEF envoyVars
      <4> QED BY <4>1, <4>2, Zenon DEF ToClientInv, IsSnapshot
    <3>3. HeldInv(s, t)'
      BY <2>2, <2>6, <2>7, Zenon DEF TypeInv, HeldInv, envoyVars
    <3>4. WatchedInv(s, t)'
      BY <2>2, <2>6, <2>7, Zenon DEF TypeInv, WatchedInv, envoyVars
    <3> QED BY <3>1, <3>2, <3>3, <3>4, Zenon
  <2>9. ToServerInv(s, t)'
    <3>1. \A k \in 1 .. Len(Tail(q)) : Tail(q)[k].type = t =>
            /\ Tail(q)[k].nonce <= lastNonce[t]
            /\ Tail(q)[k].nonce = lastNonce[t] => Tail(q)[k].version = version[t]
      <4> TAKE k \in 1 .. Len(Tail(q))
      <4>1. k + 1 \in 1 .. Len(q) /\ Tail(q)[k] = q[k + 1]
        BY <2>4, Zenon
      <4>2. ToServerInv(s, t)
        BY <2>2, Zenon DEF TypeInv
      <4>3. q[k + 1].type = t =>
              /\ q[k + 1].nonce <= lastNonce[t]
              /\ q[k + 1].nonce = lastNonce[t] => q[k + 1].version = version[t]
        BY <4>1, <4>2, Zenon DEF ToServerInv
      <4> QED BY <4>1, <4>3, Zenon
    <3> QED BY <2>6, <3>1, Zenon DEF ToServerInv, envoyVars
  <2>10. HandledInv(s, t)' /\ Live(s)'
    <3>1. CASE Accepts(s, r)
      <4>1. pc'[s] = "watch" /\ req'[s] = r
        BY <1>3, <2>1, <3>1, Zenon DEF Receive, XdsTypeOK
      <4>2. ASSUME r.type = t PROVE ~InFlight(s, t) /\ r.version = version[t]
        <5>1. nonce[s][t] = 0 \/ nonce[s][t] = r.nonce
          BY <3>1, <4>2, Zenon DEF Accepts
        <5>2. nonce[s][t] >= lastNonce[t]
          BY <2>2, Zenon DEF TypeInv, NonceInv
        <5>3. /\ r.nonce <= lastNonce[t]
              /\ r.nonce = lastNonce[t] => r.version = version[t]
          BY <2>2, <2>4, <4>2 DEF TypeInv, ToServerInv
        <5>4. nonce[s][t] = lastNonce[t] /\ r.nonce = lastNonce[t]
          <6>1. \A n, l, k \in Nat : (n = 0 \/ n = k) /\ n >= l /\ k <= l => n = l /\ k = l
            OBVIOUS
          <6> QED BY <1>b, <2>5, <5>1, <5>2, <5>3, <6>1
        <5>5. ~InFlight(s, t)
          BY <1>b, <2>2, <5>4 DEF TypeInv, ToClientInv, InFlight
        <5> QED BY <5>3, <5>4, <5>5, Zenon
      <4> HIDE DEF r
      <4> QED BY <2>6, <2>7, <4>1, <4>2, Zenon DEF HandledInv, Live, envoyVars
    <3>2. CASE ~Accepts(s, r)
      <4>1. UNCHANGED <<pc, req>>
        BY <1>3, <2>1, <3>2, Zenon DEF Receive
      <4> QED BY <2>2, <2>6, <2>7, <4>1, Zenon DEF TypeInv, HandledInv, Live, envoyVars
    <3> QED BY <3>1, <3>2, Zenon
  <2> QED BY <2>8, <2>9, <2>10, Zenon DEF TypeInv
<1>4. ASSUME NEW a \in Streams, Watch(a) PROVE Live(s)' /\ TypeInv(s, t)'
  <2> DEFINE r == req[a]
             b == r.type
             i == <<a, b, 1>>
  <2>1. r \in Requests /\ b \in Types /\ i \in Ids /\ r.version \in Nat
    BY Zenon DEF XdsTypeOK, Requests, Ids
  <2>2. nextWatchID(a, b) = i
    BY <1>4, NextIdIsFree, Zenon DEF Watch
  <2>3. /\ UNCHANGED <<snaps, current, nonce, streamNonce, netVars, envoyVars>>
        /\ pc[a] = "watch"
        /\ chan' = [chan EXCEPT ![a][b] = i]
        /\ watches' = IF LeavesOpen(r) THEN watches \cup {[id |-> i, req |-> r]} ELSE watches
        /\ value' = [value EXCEPT ![i] = IF LeavesOpen(r) THEN NoResponse
                                         ELSE respond(r, snaps[current], current)]
        /\ pc' = [pc EXCEPT ![a] = "select"]
        /\ req' = [req EXCEPT ![a] = NoRequest]
    BY <1>4, <2>2, Zenon DEF Watch, CreateWatch
  <2>4. Live(s) /\ TypeInv(s, t)
    BY <2>3, Zenon DEF EnvoyInv, envoyVars
  <2>5. /\ InFlight(s, t)' = InFlight(s, t)
        /\ NonceInv(s, t)' /\ ToClientInv(s, t)' /\ ToServerInv(s, t)'
    BY <2>3, <2>4, QuietStream, Zenon DEF netVars, envoyVars
  <2>6. /\ pc'[s] = IF s = a THEN "select" ELSE pc[s]
        /\ s # a => req'[s] = req[s]
    BY <2>3, Zenon DEF XdsTypeOK
  <2>7. Live(s)' /\ HandledInv(s, t)'
    BY <2>3, <2>4, <2>5, <2>6 DEF TypeInv, HandledInv, Live, envoyVars
  <2>8. chan'[s][t] = IF s = a /\ t = b THEN i ELSE chan[s][t]
    <3> HIDE DEF b, i
    <3> QED BY <2>1, <2>3, Zenon DEF XdsTypeOK
  <2>9. \A j \in Ids : value'[j] = IF j = i THEN IF LeavesOpen(r) THEN NoResponse
                                                ELSE respond(r, snaps[current], current)
                                    ELSE value[j]
    <3> HIDE DEF i
    <3> QED BY <2>3, Zenon DEF XdsTypeOK, CacheTypeOK
  <2>10. s = a /\ t = b => ~InFlight(s, t) /\ r.version = version[t]
    BY <2>3, <2>4, Zenon DEF TypeInv, HandledInv
  <2>11. HeldInv(s, t)'
    <3> SUFFICES ASSUME chan'[s][t] # NoId, value'[chan'[s][t]] # NoResponse
                 PROVE  ~InFlight(s, t) /\ value'[chan'[s][t]].version > version[t]
      BY <2>3, <2>5, Zenon DEF HeldInv, envoyVars
    <3>1. CASE s = a /\ t = b
      <4>1. ~LeavesOpen(r) /\ value'[i] = respond(r, snaps[current], current) /\ chan'[s][t] = i
        <5> HIDE DEF i
        <5> QED BY <2>1, <2>8, <2>9, <3>1, Zenon
      <4>2. current \in 1 .. Len(snaps) /\ current \in Nat /\ Len(snaps) \in Nat
        <5>1. current # 0
          BY <4>1, Zenon DEF LeavesOpen
        <5>2. current \in 0 .. Len(snaps) /\ Len(snaps) \in Nat
          BY DEF XdsTypeOK, CacheTypeOK
        <5> QED BY <5>1, <5>2
      <4>3. snaps[current] \in SUBSET Names
        BY <4>2, SnapshotType, Zenon DEF XdsTypeOK
      <4>4. value'[i] = [version |-> current, names |-> snaps[current]]
        <5> HIDE DEF i, r
        <5> QED BY <2>1, <4>1, <4>2, <4>3, RespondWhole, ZenonT(40)
      <4>5. current = Len(snaps) /\ current # version[t] /\ version[t] <= Len(snaps)
        BY <2>10, <3>1, <4>1, <4>2, Zenon DEF LeavesOpen, SnapshotInv
      <4>6. current > version[t]
        BY <1>b, <4>2, <4>5
      <4>7. value'[chan'[s][t]].version = current
        BY <4>1, <4>4
      <4> QED BY <2>10, <3>1, <4>6, <4>7, Zenon
    <3>2. CASE ~(s = a /\ t = b)
      <4>1. chan'[s][t] = chan[s][t] /\ chan[s][t] = <<s, t, 1>> /\ chan[s][t] \in Ids
        BY <2>8, <3>2, ChannelIsOwn, Zenon
      <4>2. chan[s][t] # i
        <5>1. <<s, t, 1>> # <<a, b, 1>>
          <6> HIDE DEF b
          <6> QED BY <3>2, Zenon
        <5> QED BY <4>1, <5>1, Zenon
      <4>3. value'[chan[s][t]] = value[chan[s][t]]
        BY <2>9, <4>1, <4>2, Zenon
      <4> QED BY <2>4, <4>1, <4>3, Zenon DEF TypeInv, HeldInv
    <3> QED BY <3>1, <3>2, Zenon
  <2>12. WatchedInv(s, t)'
    <3> SUFFICES ASSUME NEW w \in watches', w.id[1] = s, w.id[2] = t
                 PROVE  ~InFlight(s, t) /\ w.req.version = version[t]
      BY <2>3, <2>5, Zenon DEF WatchedInv, envoyVars
    <3>1. CASE w \in watches
      BY <2>4, <3>1, Zenon DEF TypeInv, WatchedInv
    <3>2. CASE w = [id |-> i, req |-> r]
      <4>1. w.id[1] = a /\ w.id[2] = b /\ w.req = r
        BY <3>2, Zenon
      <4> QED BY <2>10, <4>1, Zenon
    <3> QED BY <2>3, <3>1, <3>2, Zenon
  <2> QED BY <2>5, <2>7, <2>11, <2>12, Zenon DEF TypeInv
<1>5. ASSUME NEW a \in Streams, NEW b \in Types, Send(a, b) PROVE Live(s)' /\ TypeInv(s, t)'
  <2> DEFINE i == chan[a][b]
             m == [type |-> b, version |-> value[i].version,
                   names |-> value[i].names, nonce |-> streamNonce[a] + 1]
             q == toClient[s]
  <2>1. /\ UNCHANGED <<snaps, current, watches, pc, req, chan, cancel, toServer, envoyVars>>
        /\ pc[a] = "select" /\ i # NoId /\ value[i] # NoResponse
        /\ value' = [value EXCEPT ![i] = NoResponse]
        /\ nonce' = [nonce EXCEPT ![a][b] = streamNonce[a] + 1]
        /\ toClient' = [toClient EXCEPT ![a] = IF active = a THEN Append(@, m) ELSE @]
    BY <1>5, Zenon DEF Send
  <2>2. active = s /\ Live(s) /\ TypeInv(s, t) /\ i \in Ids
    BY <2>1 DEF EnvoyInv, envoyVars, XdsTypeOK
  <2>3. Live(s)'
    BY <2>1, <2>2, Zenon DEF Live
  <2>4. value'[i] = NoResponse /\ \A j \in Ids : value'[j] \in {value[j], NoResponse}
    BY <2>1, <2>2, Zenon DEF XdsTypeOK, CacheTypeOK
  <2>5. CASE s # a
    <3>1. toClient'[s] = toClient[s] /\ nonce'[s][t] = nonce[s][t]
      BY <2>1, <2>5, Zenon DEF XdsTypeOK
    <3>2. /\ InFlight(s, t)' = InFlight(s, t)
          /\ NonceInv(s, t)' /\ ToClientInv(s, t)' /\ ToServerInv(s, t)'
      BY <2>1, <2>2, <3>1, QuietStream, Zenon DEF envoyVars
    <3>3. HandledInv(s, t)' /\ WatchedInv(s, t)'
      BY <2>1, <2>2, <3>2, Zenon DEF TypeInv, HandledInv, WatchedInv, envoyVars
    <3>4. HeldInv(s, t)'
      <4>1. chan[s][t] # NoId => chan[s][t] \in Ids
        BY DEF XdsTypeOK
      <4> QED BY <2>1, <2>2, <2>4, <3>2, <4>1, Zenon DEF TypeInv, HeldInv, envoyVars
    <3> QED BY <2>3, <3>2, <3>3, <3>4, Zenon DEF TypeInv
  <2>6. CASE s = a
    <3>1. toClient'[s] = Append(q, m) /\ q \in Seq(Messages)
      BY <2>1, <2>2, <2>6, Zenon DEF XdsTypeOK
    <3>2. /\ Len(q) \in Nat /\ Len(toClient'[s]) = Len(q) + 1
          /\ toClient'[s][Len(q) + 1] = m
          /\ \A k \in 1 .. Len(q) : toClient'[s][k] = q[k]
      <4> HIDE DEF q, m
      <4> QED BY <3>1
    <3>3. m.type = b /\ m.version = value[i].version /\ m.names = value[i].names
          /\ m.nonce = streamNonce[s] + 1
      BY <2>6, Zenon
    <3> HIDE DEF m
    <3>4. CASE t = b
      <4>1. ~InFlight(s, t) /\ value[i].version > version[t]
        BY <2>1, <2>2, <2>6, <3>4, Zenon DEF TypeInv, HeldInv
      <4>2. nonce'[s][t] = streamNonce[s] + 1
        BY <2>1, <2>6, <3>4, Zenon DEF XdsTypeOK
      <4>3. nonce'[s][t] > lastNonce[t]
        <5>1. nonce[s][t] <= streamNonce[s] /\ lastNonce[t] <= nonce[s][t]
          BY <1>b, <2>2, Zenon DEF StreamInv, TypeInv, NonceInv
        <5>2. \A x, y, z \in Nat : x <= y /\ y <= z => x < z + 1
          OBVIOUS
        <5>3. lastNonce[t] < streamNonce[s] + 1
          BY <1>b, <5>1, <5>2, Zenon
        <5> QED BY <4>2, <5>3, Zenon
      <4>4. \A k \in 1 .. Len(toClient'[s]) : toClient'[s][k].type = t => k = Len(q) + 1
        BY <3>2, <4>1 DEF InFlight
      <4>5. IsSnapshot(value[i])
        BY <2>1, <2>2, Zenon DEF SnapshotInv
      <4>6. NonceInv(s, t)'
        <5>1. InFlight(s, t)'
          BY <3>2, <3>3, <3>4 DEF InFlight
        <5> QED BY <1>b, <2>1, <4>2, <4>3, <5>1 DEF NonceInv, envoyVars
      <4>7. ToClientInv(s, t)'
        <5> SUFFICES ASSUME NEW k \in 1 .. Len(toClient'[s]), toClient'[s][k].type = t
                     PROVE  /\ toClient'[s][k].version \in 1 .. Len(snaps)
                            /\ toClient'[s][k].names = snaps[toClient'[s][k].version]
                            /\ toClient'[s][k].version > version[t]
                            /\ toClient'[s][k].nonce = nonce'[s][t]
                            /\ nonce'[s][t] > lastNonce[t]
                            /\ \A j \in 1 .. Len(toClient'[s]) : toClient'[s][j].type = t => j = k
          BY <2>1, Zenon DEF ToClientInv, IsSnapshot, envoyVars
        <5>1. k = Len(q) + 1 /\ toClient'[s][k] = m
          BY <3>2, <4>4, Zenon
        <5> QED BY <3>3, <4>1, <4>2, <4>3, <4>4, <4>5, <5>1, Zenon DEF IsSnapshot
      <4>8. ToServerInv(s, t)'
        BY <2>1, <2>2, Zenon DEF TypeInv, ToServerInv, envoyVars
      <4>9. HeldInv(s, t)' /\ HandledInv(s, t)'
        BY <2>1, <2>4, <2>6, <3>4, Zenon DEF HeldInv, HandledInv
      <4>10. WatchedInv(s, t)'
        <5>1. \A w \in watches : ~(w.id[1] = s /\ w.id[2] = t)
          BY <2>1, <2>6, <3>4, ZenonT(40) DEF OwnerInv
        <5> QED BY <2>1, <5>1, Zenon DEF WatchedInv
      <4> QED BY <2>3, <4>6, <4>7, <4>8, <4>9, <4>10, Zenon DEF TypeInv
    <3>5. CASE t # b
      <4>1. nonce'[s][t] = nonce[s][t]
        BY <2>1, <2>6, <3>5, Zenon DEF XdsTypeOK
      <4>2. \A k \in 1 .. Len(toClient'[s]) : toClient'[s][k].type = t =>
              k \in 1 .. Len(q) /\ toClient'[s][k] = q[k]
        <5> TAKE k \in 1 .. Len(toClient'[s])
        <5>1. k = Len(q) + 1 \/ k \in 1 .. Len(q)
          BY <3>2
        <5>2. k = Len(q) + 1 => toClient'[s][k].type # t
          BY <3>2, <3>3, <3>5, Zenon
        <5> QED BY <3>2, <5>1, <5>2, Zenon
      <4>3. InFlight(s, t)' = InFlight(s, t)
        <5>1. InFlight(s, t)' => InFlight(s, t)
          BY <4>2, Zenon DEF InFlight
        <5>2. InFlight(s, t) => InFlight(s, t)'
          BY <3>2 DEF InFlight
        <5>3. InFlight(s, t) \in BOOLEAN /\ InFlight(s, t)' \in BOOLEAN
          BY Zenon DEF InFlight
        <5> QED BY <5>1, <5>2, <5>3, Zenon
      <4>4. NonceInv(s, t)'
        BY <2>1, <2>2, <4>1, <4>3, Zenon DEF TypeInv, NonceInv, envoyVars
      <4>5. ToClientInv(s, t)'
        <5>1. ToClientInv(s, t)
          BY <2>2, Zenon DEF TypeInv
        <5>2. UNCHANGED <<snaps, version, lastNonce>>
          BY <2>1, Zenon DEF envoyVars
        <5> SUFFICES ASSUME NEW k \in 1 .. Len(toClient'[s]), toClient'[s][k].type = t
                     PROVE  /\ IsSnapshot(toClient'[s][k])
                            /\ toClient'[s][k].version > version[t]
                            /\ toClient'[s][k].nonce = nonce[s][t]
                            /\ nonce[s][t] > lastNonce[t]
                            /\ \A j \in 1 .. Len(toClient'[s]) : toClient'[s][j].type = t => j = k
          BY <4>1, <5>2, Zenon DEF ToClientInv, IsSnapshot
        <5>3. k \in 1 .. Len(q) /\ toClient'[s][k] = q[k]
          BY <4>2, Zenon
        <5>4. /\ IsSnapshot(q[k]) /\ q[k].version > version[t]
              /\ q[k].nonce = nonce[s][t] /\ nonce[s][t] > lastNonce[t]
              /\ \A j \in 1 .. Len(q) : q[j].type = t => j = k
          BY <5>1, <5>3, Zenon DEF ToClientInv
        <5>5. \A j \in 1 .. Len(toClient'[s]) : toClient'[s][j].type = t => j = k
          BY <4>2, <5>4, Zenon
        <5> QED BY <5>3, <5>4, <5>5, Zenon
      <4>6. ToServerInv(s, t)' /\ HandledInv(s, t)' /\ WatchedInv(s, t)'
        BY <2>1, <2>2, <4>3, Zenon DEF TypeInv, ToServerInv, HandledInv, WatchedInv, envoyVars
      <4>7. HeldInv(s, t)'
        <5>1. chan[s][t] # NoId => chan[s][t] \in Ids
          BY DEF XdsTypeOK
        <5> QED BY <2>1, <2>2, <2>4, <4>3, <5>1, Zenon DEF TypeInv, HeldInv, envoyVars
      <4> QED BY <2>3, <4>4, <4>5, <4>6, <4>7, Zenon DEF TypeInv
    <3> QED BY <3>4, <3>5, Zenon
  <2> QED BY <2>5, <2>6, Zenon
<1>6. ASSUME NEW a \in Streams, End(a) PROVE Live(s)' /\ TypeInv(s, t)'
  <2>1. /\ UNCHANGED <<req, toClient, envoyVars, snaps>>
        /\ watches' \subseteq watches
        /\ \A j \in Ids : value'[j] \in {value[j], NoResponse}
        /\ active = s /\ a # s
    BY <1>6, Zenon DEF End, cancelWatch, envoyVars
  <2>2. pc'[s] = pc[s] /\ chan'[s] = chan[s] /\ nonce'[s] = nonce[s] /\ toServer'[s] = toServer[s]
    BY <1>6, <2>1, Zenon DEF End, XdsTypeOK
  <2>3. Live(s) /\ TypeInv(s, t)
    BY <2>1, Zenon DEF EnvoyInv
  <2>4. /\ InFlight(s, t)' = InFlight(s, t)
        /\ NonceInv(s, t)' /\ ToClientInv(s, t)' /\ ToServerInv(s, t)'
    BY <2>1, <2>2, <2>3, QuietStream, Zenon DEF envoyVars
  <2>5. HandledInv(s, t)' /\ WatchedInv(s, t)'
    BY <2>1, <2>2, <2>3, <2>4, Zenon DEF TypeInv, HandledInv, WatchedInv, envoyVars
  <2>6. HeldInv(s, t)'
    <3>1. chan[s][t] # NoId => chan[s][t] \in Ids
      BY DEF XdsTypeOK
    <3> QED BY <2>1, <2>2, <2>3, <2>4, <3>1, Zenon DEF TypeInv, HeldInv, envoyVars
  <2> QED BY <2>2, <2>3, <2>4, <2>5, <2>6, Zenon DEF TypeInv, Live
<1>7. ASSUME NEW a \in Streams, Connect(a) PROVE Live(s)' /\ TypeInv(s, t)'
  <2> DEFINE c == Request("cds", version["cds"], {}, 0)
             e == Request("eds", version["eds"], resources["cds"], 0)
  <2>1. /\ a = s /\ active # s /\ pc[s] = "new"
        /\ UNCHANGED <<cacheVars, req, chan, nonce, toClient, version>>
        /\ lastNonce'[t] = 0 /\ pc'[s] = "select"
    BY <1>7 DEF Connect, NoStream, Streams, XdsTypeOK
  <2>2. toClient'[s] = <<>> /\ nonce'[s][t] = 0 /\ chan'[s][t] = NoId
    BY <2>1, Zenon DEF StreamInv
  <2>3. \A k \in 1 .. Len(toServer'[s]) : toServer'[s][k] \in {c, e}
    <3> DEFINE q == IF resources["cds"] = {} THEN <<>> ELSE <<e>>
    <3>1. toServer'[s] = <<c>> \o q
      BY <1>7, <2>1, Zenon DEF Connect, XdsTypeOK
    <3> HIDE DEF c, e
    <3>2. <<c>> \in Seq({c, e})
      OBVIOUS
    <3>3. q \in Seq({c, e})
      <4>1. <<>> \in Seq({c, e})
        OBVIOUS
      <4>2. <<e>> \in Seq({c, e})
        OBVIOUS
      <4> QED BY <4>1, <4>2, Zenon
    <3> HIDE DEF q
    <3>4. toServer'[s] \in Seq({c, e})
      BY <3>1, <3>2, <3>3
    <3> QED BY <3>4
  <2>4. \A w \in watches : w.id[1] # s
    BY <2>1, Zenon DEF OwnerInv, Live
  <2>5. NonceInv(s, t)' /\ HeldInv(s, t)' /\ HandledInv(s, t)' /\ WatchedInv(s, t)' /\ Live(s)'
    <3>1. NonceInv(s, t)'
      BY <2>1, <2>2 DEF NonceInv
    <3>2. HeldInv(s, t)' /\ HandledInv(s, t)' /\ Live(s)'
      BY <2>1, <2>2, Zenon DEF HeldInv, HandledInv, Live
    <3>3. WatchedInv(s, t)'
      BY <2>1, <2>4, Zenon DEF WatchedInv, cacheVars
    <3> QED BY <3>1, <3>2, <3>3, Zenon
  <2>6. ToClientInv(s, t)'
    <3>1. 1 .. Len(toClient'[s]) = {}
      BY <2>2
    <3> QED BY <3>1, Zenon DEF ToClientInv
  <2>7. ToServerInv(s, t)'
    <3>1. /\ c.nonce = 0 /\ c.version = version[c.type]
          /\ e.nonce = 0 /\ e.version = version[e.type]
      BY Zenon DEF Request
    <3> HIDE DEF c, e
    <3> QED BY <2>1, <2>3, <3>1 DEF ToServerInv
  <2> QED BY <2>5, <2>6, <2>7, Zenon DEF TypeInv
<1>8. ASSUME Break PROVE Live(s)' /\ TypeInv(s, t)'
  BY <1>8 DEF Break, NoStream, Streams
<1>9. ASSUME ApplyClusters \/ ApplyEndpoints \/ Reject PROVE Live(s)' /\ TypeInv(s, t)'
  <2> DEFINE m == Head(toClient[s])
  <2>1. active = s /\ toClient[s] # <<>> /\ UNCHANGED <<cacheVars, serverVars>>
    BY <1>9, Zenon DEF ApplyClusters, ApplyEndpoints, Reject
  <2>2. m \in Messages /\ Live(s) /\ \A u \in Types : TypeInv(s, u)
    BY <2>1 DEF XdsTypeOK, EnvoyInv
  <2>3. m.type \in Types /\ m.nonce \in Nat /\ m.version \in Nat
    BY <2>2, Zenon DEF Messages
  <2>4. /\ toClient'[s] = Tail(toClient[s])
        /\ lastNonce' = [lastNonce EXCEPT ![m.type] = m.nonce]
        /\ version' = version \/ version' = [version EXCEPT ![m.type] = m.version]
    BY <1>9, <2>1, Zenon DEF ApplyClusters, ApplyEndpoints, Reject, XdsTypeOK
  <2>5. toServer[s] \in Seq(Requests)
    BY Zenon DEF XdsTypeOK
  <2>6. \A k \in 1 .. Len(toServer'[s]) :
          \/ \E j \in 1 .. Len(toServer[s]) : toServer'[s][k] = toServer[s][j]
          \/ /\ toServer'[s][k].nonce = lastNonce'[toServer'[s][k].type]
             /\ toServer'[s][k].version = version'[toServer'[s][k].type]
    <3>1. CASE ApplyClusters
      <4> DEFINE ack == Request("cds", m.version, {}, m.nonce)
                 eds == Request("eds", version["eds"], m.names, lastNonce["eds"])
      <4>1. m.type = "cds" /\ version' = [version EXCEPT !["cds"] = m.version]
        BY <3>1, <2>1, Zenon DEF ApplyClusters
      <4>2. PICK out \in {<<ack>>, <<eds, ack>>} :
              toServer' = [toServer EXCEPT ![s] = @ \o out]
        BY <3>1, <2>1, Zenon DEF ApplyClusters
      <4>3. ack \in Requests /\ eds \in Requests
        BY <2>2, Zenon DEF Request, Requests, Messages, Types, XdsTypeOK
      <4>4. /\ ack.nonce = lastNonce'[ack.type] /\ ack.version = version'[ack.type]
            /\ eds.nonce = lastNonce'[eds.type] /\ eds.version = version'[eds.type]
        BY <2>4, <4>1, Zenon DEF Request, Types, XdsTypeOK
      <4> HIDE DEF ack, eds
      <4>5. out \in Seq(Requests) /\ \A k \in 1 .. Len(out) : out[k] \in {ack, eds}
        <5>1. CASE out = <<ack>>
          BY <4>3, <5>1
        <5>2. CASE out = <<eds, ack>>
          BY <4>3, <5>2
        <5> QED BY <4>2, <5>1, <5>2, Zenon
      <4>6. toServer'[s] = toServer[s] \o out
        BY <4>2, Zenon DEF XdsTypeOK
      <4>7. \A k \in 1 .. Len(toServer'[s]) :
              \/ \E j \in 1 .. Len(toServer[s]) : toServer'[s][k] = toServer[s][j]
              \/ \E j \in 1 .. Len(out) : toServer'[s][k] = out[j]
        <5> DEFINE p == toServer[s]
        <5>1. p \in Seq(Requests) /\ out \in Seq(Requests)
          BY <2>5, <4>5, Zenon
        <5> HIDE DEF p
        <5>2. \A k \in 1 .. Len(p \o out) :
                \/ \E j \in 1 .. Len(p) : (p \o out)[k] = p[j]
                \/ \E j \in 1 .. Len(out) : (p \o out)[k] = out[j]
          <6> TAKE k \in 1 .. Len(p \o out)
          <6> QED BY <5>1, ConcatElement, Zenon
        <5>3. toServer'[s] = p \o out /\ toServer[s] = p
          BY <4>6, Zenon DEF p
        <5> QED BY <5>2, <5>3, ZenonT(40)
      <4> QED BY <4>4, <4>5, <4>7, Zenon
    <3>2. CASE ApplyEndpoints
      <4> DEFINE ack == Request("eds", m.version, resources["cds"], m.nonce)
      <4>1. /\ m.type = "eds" /\ version' = [version EXCEPT !["eds"] = m.version]
            /\ toServer' = [toServer EXCEPT ![s] = Append(@, ack)]
        BY <3>2, <2>1, Zenon DEF ApplyEndpoints
      <4>2. ack \in Requests
        BY <2>2, Zenon DEF Request, Requests, Messages, Types, XdsTypeOK
      <4>3. ack.nonce = lastNonce'[ack.type] /\ ack.version = version'[ack.type]
        BY <2>4, <4>1, Zenon DEF Request, Types, XdsTypeOK
      <4> HIDE DEF ack
      <4>4. toServer'[s] = Append(toServer[s], ack)
        BY <4>1, Zenon DEF XdsTypeOK
      <4> QED BY <2>5, <4>2, <4>3, <4>4, AppendElement
    <3>3. CASE Reject
      <4> DEFINE nack == Request(m.type, version[m.type],
                                 IF m.type = "cds" THEN {} ELSE resources["cds"], m.nonce)
      <4>1. version' = version /\ toServer' = [toServer EXCEPT ![s] = Append(@, nack)]
        BY <3>3, <2>1, Zenon DEF Reject
      <4>2. nack \in Requests
        BY <2>2, <2>3, Zenon DEF Request, Requests, Messages, Types, XdsTypeOK
      <4>3. nack.nonce = lastNonce'[nack.type] /\ nack.version = version'[nack.type]
        BY <2>3, <2>4, <4>1, Zenon DEF Request, XdsTypeOK
      <4> HIDE DEF nack
      <4>4. toServer'[s] = Append(toServer[s], nack)
        BY <4>1, Zenon DEF XdsTypeOK
      <4> QED BY <2>5, <4>2, <4>3, <4>4, AppendElement
    <3> QED BY <1>9, <3>1, <3>2, <3>3, Zenon
  <2>7. TypeInv(s, t)'
    <3> HIDE DEF m
    <3>1. m = Head(toClient[s])
      BY Zenon DEF m
    <3> QED BY <1>0, <2>1, <2>2, <2>4, <2>6, <3>1, EnvoyTakes, Zenon
  <2> QED BY <2>1, <2>2, <2>7, Zenon DEF Live, serverVars
<1>10. ASSUME UNCHANGED vars PROVE Live(s)' /\ TypeInv(s, t)'
  <2>1. active = s
    BY <1>10, Zenon DEF vars, envoyVars
  <2>2. Live(s) /\ TypeInv(s, t)
    BY <2>1, Zenon DEF EnvoyInv
  <2>3. UNCHANGED <<cacheVars, serverVars, envoyVars, netVars>>
    BY <1>10, Zenon DEF vars
  <2>4. /\ InFlight(s, t)' = InFlight(s, t)
        /\ NonceInv(s, t)' /\ ToClientInv(s, t)' /\ ToServerInv(s, t)'
    BY <2>2, <2>3, QuietStream, Zenon DEF cacheVars, serverVars, envoyVars, netVars
  <2>5. HeldInv(s, t)' /\ HandledInv(s, t)' /\ WatchedInv(s, t)'
    BY <2>2, <2>3, <2>4, Zenon DEF TypeInv, HeldInv, HandledInv, WatchedInv, cacheVars, serverVars, envoyVars
  <2> QED BY <2>2, <2>3, <2>4, <2>5, Zenon DEF TypeInv, Live, serverVars
<1>11. ASSUME NEW a \in Streams, Receive(a), a # s PROVE Live(s)' /\ TypeInv(s, t)'
  <2>1. /\ UNCHANGED <<value, chan, nonce, toClient, envoyVars, snaps>>
        /\ watches' \subseteq watches
        /\ active = s
    BY <1>11, Zenon DEF Receive, cancelWatch, envoyVars
  <2>2. pc'[s] = pc[s] /\ req'[s] = req[s] /\ toServer'[s] = toServer[s]
    BY <1>11, Zenon DEF Receive, XdsTypeOK
  <2>3. Live(s) /\ TypeInv(s, t)
    BY <2>1, Zenon DEF EnvoyInv
  <2>4. /\ InFlight(s, t)' = InFlight(s, t)
        /\ NonceInv(s, t)' /\ ToClientInv(s, t)' /\ ToServerInv(s, t)'
    BY <2>1, <2>2, <2>3, QuietStream, Zenon DEF envoyVars
  <2>5. HeldInv(s, t)' /\ HandledInv(s, t)' /\ WatchedInv(s, t)'
    BY <2>1, <2>2, <2>3, <2>4, Zenon DEF TypeInv, HeldInv, HandledInv, WatchedInv, envoyVars
  <2> QED BY <2>2, <2>3, <2>4, <2>5, Zenon DEF TypeInv, Live
<1> QED BY <1>1, <1>2, <1>3, <1>4, <1>5, <1>6, <1>7, <1>8, <1>9, <1>10, <1>11, Zenon DEF Next, process

\* In ADS mode the Envoy, whatever it rejects and however often it reconnects, only
\* ever moves to a later snapshot of the cache and takes it as a whole.
THEOREM XdsImplementsFeed ==
  ASSUME ADS = TRUE
  PROVE  Spec => ImplementsFeed
<1>1. Init => Feed!FeedInit
  BY Zenon DEF Init, CacheInit, Feed!FeedInit
<1>2. FeedInv /\ ServerInv /\ [Next]_vars => FeedInv'
  BY SnapshotNext, EnvoyNext, Zenon DEF FeedInv
<1>3. FeedInv /\ ServerInv /\ [Next]_vars => [Feed!FeedNext]_(Feed!feedVars)
  <2> SUFFICES ASSUME XdsTypeOK, EnvoyInv, [Next]_vars
               PROVE  [Feed!FeedNext]_(Feed!feedVars)
    BY Zenon DEF ServerInv, FeedInv
  <2>1. ASSUME NEW S \in Snapshots, Set(S) PROVE Feed!FeedNext
    <3>1. S \in SUBSET Names /\ Feed!Publish(S)
      BY <2>1, CacheAssumption, Zenon DEF Set, SetSnapshot, envoyVars, Feed!Publish
    <3> QED BY <3>1, Zenon DEF Feed!FeedNext
  <2>2. ASSUME ApplyClusters \/ ApplyEndpoints PROVE Feed!FeedNext
    <3> DEFINE m == Head(toClient[active])
    <3>1. active \in Streams /\ toClient[active] # <<>>
      BY <2>2, Zenon DEF ApplyClusters, ApplyEndpoints, XdsTypeOK
    <3>2. m.type \in Types /\ IsSnapshot(m) /\ m.version > version[m.type]
      BY <3>1, HeadIsSnapshot, Zenon
    <3>3. /\ version' = [version EXCEPT ![m.type] = m.version]
          /\ resources' = [resources EXCEPT ![m.type] = m.names]
          /\ UNCHANGED snaps
      BY <2>2, Zenon DEF ApplyClusters, ApplyEndpoints, cacheVars
    <3>4. Feed!Adopt(m.type, m.version) /\ m.version \in 1 .. Len(snaps)
      BY <3>2, <3>3, Zenon DEF Feed!Adopt, IsSnapshot
    <3> QED BY <3>2, <3>4, Zenon DEF Feed!FeedNext
  <2>3. ASSUME \/ Clear \/ Break \/ Reject \/ UNCHANGED vars
               \/ \E s \in Streams : process(s) \/ Connect(s)
        PROVE  UNCHANGED Feed!feedVars
    BY <2>3, Zenon DEF Clear, ClearSnapshot, Break, Reject, vars, process, Receive, Watch, CreateWatch,
         Send, End, cancelWatch, Connect, cacheVars, envoyVars, Feed!feedVars
  <2> QED BY <2>1, <2>2, <2>3, Zenon DEF Next
<1>4. Init => FeedInv
  BY FeedInit, Zenon
<1> QED BY <1>1, <1>2, <1>3, <1>4, ServerInvariant, PTL DEF Spec, ImplementsFeed, Feed!FeedSpec

-----------------------------------------------------------------------------
(* The stream at rest *)

\* Nothing is left to do on the Envoy's stream: no message is on it, process waits in
\* its select, and no channel it selects on holds a response.
AtRest ==
  /\ active # NoStream /\ pc[active] = "select"
  /\ toServer[active] = <<>> /\ toClient[active] = <<>>
  /\ \A t \in Types : chan[active][t] # NoId => value[chan[active][t]] = NoResponse

\* A request of type t, with the nonce of the last response the Envoy had, is on its
\* way to the server.
Asked(s, t) ==
  \E k \in 1 .. Len(toServer[s]) :
    toServer[s][k].type = t /\ toServer[s][k].nonce = lastNonce[t]

\* The Envoy wants resources of type t: clusters always, endpoints of the clusters it has.
Wants(t) == t = "cds" \/ resources["cds"] # {}

\* Somebody will go on with type t, from the Envoy's request over its handling, the open
\* watch and the channel to the response; or the cache has dropped the watch.
Pending(s, t) ==
  \/ Asked(s, t)
  \/ pc[s] = "watch" /\ req[s].type = t
  \/ \E w \in watches : w.id[1] = s /\ w.id[2] = t
  \/ chan[s][t] # NoId /\ value[chan[s][t]] # NoResponse
  \/ InFlight(s, t)
  \/ <<s, t>> \in silent

\* A stream cancels its own watches only.
CancelInv == \A s \in Streams, t \in Types : cancel[s][t] # NoId => cancel[s][t] = <<s, t, 1>>

\* An open watch is for the version of the snapshot, when there is one.
WatchesAreCurrent == \A w \in watches : current = 0 \/ w.req.version = current

\* The Envoy holds the snapshot whose version it runs.
HoldsSnapshot == \A t \in Types : version[t] # 0 => resources[t] = snaps[version[t]]

PendingInv == \A s \in Streams, t \in Types : active = s /\ Wants(t) => Pending(s, t)

RestInv == CancelInv /\ WatchesAreCurrent /\ HoldsSnapshot /\ PendingInv

\* Every step of a stream keeps the cancel functions its own.
LEMMA CancelNext ==
  ServerInv /\ CancelInv /\ [Next]_vars => CancelInv'
<1> SUFFICES ASSUME XdsTypeOK, OwnerInv, CancelInv, [Next]_vars,
                    NEW s \in Streams, NEW t \in Types, cancel'[s][t] # NoId
             PROVE  cancel'[s][t] = <<s, t, 1>>
  BY Zenon DEF ServerInv, CancelInv
<1>1. CASE UNCHANGED cancel
  BY <1>1, Zenon DEF CancelInv
<1>2. ASSUME NEW a \in Streams, Watch(a) PROVE cancel'[s][t] = <<s, t, 1>>
  <2> DEFINE b == req[a].type
  <2>1. b \in Types /\ nextWatchID(a, b) = <<a, b, 1>>
    BY <1>2, NextIdIsFree, Zenon DEF Watch, XdsTypeOK, Requests
  <2>2. cancel' = [cancel EXCEPT ![a][b] = IF LeavesOpen(req[a]) THEN <<a, b, 1>> ELSE NoId]
    BY <1>2, <2>1, Zenon DEF Watch
  <2> HIDE DEF b
  <2> QED BY <2>1, <2>2, Zenon DEF CancelInv, XdsTypeOK
<1>3. ASSUME NEW a \in Streams, End(a) PROVE cancel'[s][t] = <<s, t, 1>>
  BY <1>3, Zenon DEF End, CancelInv, XdsTypeOK
<1>4. \/ UNCHANGED cancel
      \/ \E a \in Streams : Watch(a) \/ End(a)
  BY Zenon DEF Next, process, Set, Clear, Receive, Send, Connect, Break, ApplyClusters, ApplyEndpoints,
       Reject, vars, serverVars
<1> QED BY <1>1, <1>2, <1>3, <1>4, Zenon

\* SetSnapshot discards the watches of other versions, and CreateWatch opens no others.
LEMMA WatchesCurrentNext ==
  ServerInv /\ WatchesAreCurrent /\ [Next]_vars => WatchesAreCurrent'
<1> SUFFICES ASSUME XdsTypeOK, WatchesAreCurrent, [Next]_vars
             PROVE  WatchesAreCurrent'
  BY Zenon DEF ServerInv
<1>1. CASE watches' \subseteq watches /\ UNCHANGED current
  BY <1>1, Zenon DEF WatchesAreCurrent
<1>2. ASSUME NEW S \in Snapshots, Set(S) PROVE WatchesAreCurrent'
  BY <1>2, Zenon DEF Set, SetSnapshot, discard, outdated, WatchesAreCurrent
<1>3. ASSUME Clear PROVE WatchesAreCurrent'
  BY <1>3, Zenon DEF Clear, ClearSnapshot, WatchesAreCurrent
<1>4. ASSUME NEW a \in Streams, Watch(a) PROVE WatchesAreCurrent'
  <2> DEFINE x == [id |-> nextWatchID(a, req[a].type), req |-> req[a]]
  <2>1. /\ watches' = IF LeavesOpen(req[a]) THEN watches \cup {x} ELSE watches
        /\ UNCHANGED current
    BY <1>4, Zenon DEF Watch, CreateWatch
  <2>2. x.req = req[a]
    OBVIOUS
  <2> HIDE DEF x
  <2> QED BY <2>1, <2>2, Zenon DEF WatchesAreCurrent, LeavesOpen
<1>5. \/ watches' \subseteq watches /\ UNCHANGED current
      \/ \E S \in Snapshots : Set(S)
      \/ Clear
      \/ \E a \in Streams : Watch(a)
  BY ZenonT(40) DEF Next, process, Receive, Send, End, cancelWatch, Connect, Break, ApplyClusters,
       ApplyEndpoints, Reject, vars, cacheVars
<1> QED BY <1>1, <1>2, <1>3, <1>4, <1>5, Zenon

\* The Envoy takes the version and the resources of a response together.
LEMMA HoldsSnapshotNext ==
  ServerInv /\ FeedInv /\ HoldsSnapshot /\ [Next]_vars => HoldsSnapshot'
<1> SUFFICES ASSUME XdsTypeOK, SnapshotInv, EnvoyInv, HoldsSnapshot, [Next]_vars,
                    NEW t \in Types, version'[t] # 0
             PROVE  resources'[t] = snaps'[version'[t]]
  BY Zenon DEF ServerInv, FeedInv, HoldsSnapshot
<1>1. CASE UNCHANGED <<version, resources, snaps>>
  BY <1>1, Zenon DEF HoldsSnapshot
<1>2. ASSUME NEW S \in Snapshots, Set(S) PROVE resources'[t] = snaps'[version'[t]]
  <2>1. snaps' = Append(snaps, S) /\ UNCHANGED <<version, resources>>
    BY <1>2, Zenon DEF Set, SetSnapshot, envoyVars
  <2>2. version[t] \in 1 .. Len(snaps) /\ snaps \in Seq(Snapshots)
    BY <2>1 DEF SnapshotInv, XdsTypeOK, CacheTypeOK
  <2>3. Append(snaps, S)[version[t]] = snaps[version[t]]
    BY <2>2
  <2> QED BY <2>1, <2>2, <2>3, Zenon DEF HoldsSnapshot
<1>3. ASSUME ApplyClusters \/ ApplyEndpoints PROVE resources'[t] = snaps'[version'[t]]
  <2> DEFINE m == Head(toClient[active])
  <2>1. active \in Streams /\ toClient[active] # <<>>
    BY <1>3, Zenon DEF ApplyClusters, ApplyEndpoints, XdsTypeOK
  <2>2. m.type \in Types /\ IsSnapshot(m)
    BY <2>1, HeadIsSnapshot, Zenon
  <2>3. /\ version' = [version EXCEPT ![m.type] = m.version]
        /\ resources' = [resources EXCEPT ![m.type] = m.names]
        /\ UNCHANGED snaps
    BY <1>3, Zenon DEF ApplyClusters, ApplyEndpoints, cacheVars
  <2> HIDE DEF m
  <2> QED BY <2>2, <2>3, Zenon DEF HoldsSnapshot, IsSnapshot, XdsTypeOK
<1>4. \/ UNCHANGED <<version, resources, snaps>>
      \/ \E S \in Snapshots : Set(S)
      \/ ApplyClusters \/ ApplyEndpoints
  BY ZenonT(40) DEF Next, process, Clear, ClearSnapshot, Receive, Watch, CreateWatch, Send, End, cancelWatch,
       Connect, Break, Reject, vars, cacheVars, envoyVars
<1> QED BY <1>1, <1>2, <1>3, <1>4, Zenon

\* A step that takes nothing away from the stream and type keeps them pending.
LEMMA PendingKept ==
  ASSUME NEW s \in Streams, NEW t \in Types, Pending(s, t),
         toServer'[s] = toServer[s], toClient'[s] = toClient[s], UNCHANGED lastNonce,
         pc'[s] = pc[s], req'[s] = req[s], chan'[s][t] = chan[s][t],
         chan[s][t] # NoId => value'[chan[s][t]] = value[chan[s][t]],
         \A w \in watches : w.id[1] = s /\ w.id[2] = t => w \in watches',
         <<s, t>> \in silent => <<s, t>> \in silent'
  PROVE  Pending(s, t)'
<1>1. CASE Asked(s, t)
  BY <1>1, Zenon DEF Pending, Asked
<1>2. CASE InFlight(s, t)
  BY <1>2, Zenon DEF Pending, InFlight
<1>3. CASE \E w \in watches : w.id[1] = s /\ w.id[2] = t
  BY <1>3, Zenon DEF Pending
<1>4. CASE \/ pc[s] = "watch" /\ req[s].type = t
           \/ chan[s][t] # NoId /\ value[chan[s][t]] # NoResponse
           \/ <<s, t>> \in silent
  BY <1>4, Zenon DEF Pending
<1> QED BY <1>1, <1>2, <1>3, <1>4, Zenon DEF Pending

\* A watch that SetSnapshot or ClearSnapshot discards is answered, or remembered as silent.
LEMMA CachePending ==
  ASSUME XdsTypeOK, OwnerInv, StreamInv, NEW s \in Streams, NEW t \in Types, Pending(s, t),
         Clear \/ \E S \in Snapshots : Set(S)
  PROVE  Pending(s, t)'
<1>a. \A w \in watches : w.id \in Ids /\ w.id[1] \in Streams /\ w.id[2] \in Types
  BY IdParts, Zenon DEF XdsTypeOK, CacheTypeOK
<1>b. /\ toServer'[s] = toServer[s] /\ toClient'[s] = toClient[s] /\ UNCHANGED lastNonce
      /\ pc'[s] = pc[s] /\ req'[s] = req[s] /\ chan'[s][t] = chan[s][t]
      /\ \A p \in silent : p \in silent'
  BY Zenon DEF Set, Clear, serverVars, envoyVars, netVars
<1>1. CASE \E w \in watches : w.id[1] = s /\ w.id[2] = t /\ w \notin watches'
  <2>1. PICK w \in watches : w.id[1] = s /\ w.id[2] = t /\ w \notin watches'
    BY <1>1, Zenon
  <2>2. w.id = cancel[s][t] /\ w.id = chan[s][t] /\ w.id # NoId
    BY <1>a, <2>1, CacheAssumption, Zenon DEF OwnerInv
  <2>3. CASE Clear
    <3>1. <<s, t>> \in Holders(watches)
      <4>1. <<s, t>> \in Streams \X Types /\ <<s, t>>[1] = s /\ <<s, t>>[2] = t
        OBVIOUS
      <4> QED BY <2>2, <4>1, Zenon DEF Holders
    <3> QED BY <2>3, <3>1, Zenon DEF Clear, Pending
  <2>4. CASE \E S \in Snapshots : Set(S)
    <3>1. CASE value'[w.id] = NoResponse
      <4> DEFINE W == {x \in watches \ watches' : value'[x.id] = NoResponse}
      <4>1. w \in W /\ silent' = silent \cup Holders(W)
        BY <2>1, <2>4, <3>1, Zenon DEF Set
      <4> HIDE DEF W
      <4>2. <<s, t>> \in Holders(W)
        <5>1. <<s, t>> \in Streams \X Types /\ <<s, t>>[1] = s /\ <<s, t>>[2] = t
          OBVIOUS
        <5> QED BY <2>2, <4>1, <5>1, Zenon DEF Holders
      <4> QED BY <4>1, <4>2, Zenon DEF Pending
    <3>2. CASE value'[w.id] # NoResponse
      BY <1>b, <2>2, <3>2, Zenon DEF Pending
    <3> QED BY <3>1, <3>2, Zenon
  <2> QED BY <2>3, <2>4, Zenon
<1>2. CASE \A w \in watches : w.id[1] = s /\ w.id[2] = t => w \in watches'
  <2>1. CASE chan[s][t] # NoId /\ value[chan[s][t]] # NoResponse
    <3> DEFINE i == chan[s][t]
    <3>1. i \in Ids /\ \A w \in watches : w.id # i
      BY <2>1 DEF OwnerInv, XdsTypeOK
    <3> HIDE DEF i
    <3>2. value'[i] = value[i]
      BY <3>1, Zenon DEF Clear, ClearSnapshot, Set, SetSnapshot, outdated
    <3> QED BY <1>b, <2>1, <3>2, Zenon DEF Pending, i
  <2>2. CASE ~(chan[s][t] # NoId /\ value[chan[s][t]] # NoResponse)
    <3>1. CASE Asked(s, t)
      BY <1>b, <3>1, Zenon DEF Pending, Asked
    <3>2. CASE InFlight(s, t)
      BY <1>b, <3>2, Zenon DEF Pending, InFlight
    <3>3. CASE \E w \in watches : w.id[1] = s /\ w.id[2] = t
      BY <1>2, <3>3, Zenon DEF Pending
    <3>4. CASE (pc[s] = "watch" /\ req[s].type = t) \/ <<s, t>> \in silent
      BY <1>b, <3>4, Zenon DEF Pending
    <3> QED BY <2>2, <3>1, <3>2, <3>3, <3>4, Zenon DEF Pending
  <2> QED BY <2>1, <2>2, Zenon
<1> QED BY <1>1, <1>2, Zenon

\* What another stream of the node does leaves the Envoy's stream pending.
LEMMA OthersPending ==
  ASSUME XdsTypeOK, OwnerInv, StreamInv, CancelInv, NEW s \in Streams, NEW t \in Types,
         Pending(s, t), active = s, NEW a \in Streams, a # s, process(a)
  PROVE  Pending(s, t)'
<1>a. \A w \in watches : w.id \in Ids /\ w.id[1] \in Streams /\ w.id[2] \in Types
  BY IdParts, Zenon DEF XdsTypeOK, CacheTypeOK
<1>b. /\ chan[s][t] # NoId => chan[s][t] = <<s, t, 1>> /\ chan[s][t] \in Ids
      /\ \A u \in Types : cancel[a][u] # NoId => cancel[a][u] = <<a, u, 1>>
      /\ \A u \in Types : chan[a][u] # NoId => chan[a][u] = <<a, u, 1>>
  BY ChannelIsOwn, Zenon DEF CancelInv
<1>c. \A w \in watches, u \in Types : w.id[1] = s => w.id # cancel[a][u]
  BY <1>a, <1>b, CacheAssumption
<1>d. chan[s][t] # NoId => \A u \in Types : chan[s][t] # chan[a][u] /\ chan[s][t] # <<a, u, 1>>
  BY <1>b, CacheAssumption
<1>1. CASE Receive(a)
  <2>1. /\ toServer'[s] = toServer[s] /\ toClient'[s] = toClient[s] /\ UNCHANGED lastNonce
        /\ pc'[s] = pc[s] /\ req'[s] = req[s] /\ chan'[s][t] = chan[s][t] /\ value' = value
        /\ silent' = silent
    BY <1>1, Zenon DEF Receive, envoyVars, XdsTypeOK
  <2>2. Head(toServer[a]).type \in Types
    <3>1. toServer[a] \in Seq(Requests) /\ toServer[a] # <<>>
      BY <1>1, Zenon DEF Receive, XdsTypeOK
    <3>2. Head(toServer[a]) \in Requests
      BY <3>1
    <3> QED BY <3>2, Zenon DEF Requests
  <2>3. \A w \in watches : w.id[1] = s => w \in watches'
    BY <1>1, <1>c, <2>2, Zenon DEF Receive, cancelWatch
  <2> QED BY <2>1, <2>3, PendingKept, Zenon
<1>2. CASE Watch(a)
  <2> DEFINE b == req[a].type
  <2>1. b \in Types /\ nextWatchID(a, b) = <<a, b, 1>>
    BY <1>2, NextIdIsFree, Zenon DEF Watch, XdsTypeOK, Requests
  <2>2. /\ toServer'[s] = toServer[s] /\ toClient'[s] = toClient[s] /\ UNCHANGED lastNonce
        /\ pc'[s] = pc[s] /\ req'[s] = req[s] /\ chan'[s][t] = chan[s][t]
        /\ \A w \in watches : w \in watches'
    BY <1>2, Zenon DEF Watch, CreateWatch, envoyVars, netVars, XdsTypeOK
  <2>3. chan[s][t] # NoId => value'[chan[s][t]] = value[chan[s][t]]
    <3>1. chan[s][t] # NoId => chan[s][t] # nextWatchID(a, b)
      BY <1>d, <2>1, Zenon
    <3> QED BY <1>2, <1>b, <3>1, Zenon DEF Watch, CreateWatch, XdsTypeOK, CacheTypeOK
  <2>4. <<s, t>> \in silent => <<s, t>> \in silent'
    <3>1. <<s, t>> # <<a, b>>
      OBVIOUS
    <3> QED BY <1>2, <3>1, Zenon DEF Watch
  <2> QED BY <2>2, <2>3, <2>4, PendingKept, Zenon
<1>3. CASE End(a)
  <2>1. /\ toServer'[s] = toServer[s] /\ toClient'[s] = toClient[s] /\ UNCHANGED lastNonce
        /\ pc'[s] = pc[s] /\ req'[s] = req[s] /\ chan'[s][t] = chan[s][t]
    BY <1>3, Zenon DEF End, envoyVars, XdsTypeOK
  <2>2. \A w \in watches : w.id[1] = s => w \in watches'
    BY <1>3, <1>c, Zenon DEF End, cancelWatch
  <2>3. chan[s][t] # NoId => value'[chan[s][t]] = value[chan[s][t]]
    BY <1>3, <1>b, <1>d, Zenon DEF End
  <2>4. <<s, t>> \in silent => <<s, t>> \in silent'
    <3>1. <<s, t>>[1] = s
      OBVIOUS
    <3> QED BY <1>3, <3>1, Zenon DEF End
  <2> QED BY <2>1, <2>2, <2>3, <2>4, PendingKept, Zenon
<1>4. ASSUME NEW b \in Types, Send(a, b) PROVE Pending(s, t)'
  <2>1. /\ toServer'[s] = toServer[s] /\ toClient'[s] = toClient[s] /\ UNCHANGED lastNonce
        /\ pc'[s] = pc[s] /\ req'[s] = req[s] /\ chan'[s][t] = chan[s][t]
        /\ watches' = watches /\ silent' = silent
    BY <1>4, Zenon DEF Send, envoyVars, XdsTypeOK
  <2>2. chan[s][t] # NoId => value'[chan[s][t]] = value[chan[s][t]]
    BY <1>4, <1>b, <1>d, Zenon DEF Send, XdsTypeOK, CacheTypeOK
  <2> QED BY <2>1, <2>2, PendingKept, Zenon
<1> QED BY <1>1, <1>2, <1>3, <1>4, Zenon DEF process

\* What the Envoy's own stream does with one type leaves the other pending, and takes
\* the type itself one step on: a request with the last nonce is accepted, unless a
\* response is in flight; CreateWatch leaves the watch open, responds, or is silent; and
\* Send puts the response on the stream.
LEMMA OwnPending ==
  ASSUME XdsTypeOK, OwnerInv, StreamInv, CancelInv, EnvoyInv, NEW s \in Streams, NEW t \in Types,
         Pending(s, t), active = s, process(s)
  PROVE  Pending(s, t)'
<1>a. \A w \in watches : w.id \in Ids /\ w.id[1] \in Streams /\ w.id[2] \in Types
  BY IdParts, Zenon DEF XdsTypeOK, CacheTypeOK
<1>b. \A u \in Types :
        /\ cancel[s][u] # NoId => cancel[s][u] = <<s, u, 1>>
        /\ chan[s][u] # NoId => chan[s][u] = <<s, u, 1>> /\ chan[s][u] \in Ids
  BY ChannelIsOwn, Zenon DEF CancelInv
<1>1. CASE Receive(s)
  <2> DEFINE q == toServer[s]
             r == Head(q)
  <2>1. /\ toServer'[s] = Tail(q) /\ UNCHANGED <<lastNonce, toClient, chan, value, silent>>
        /\ q \in Seq(Requests) /\ q # <<>> /\ pc[s] = "select"
    BY <1>1, Zenon DEF Receive, envoyVars, XdsTypeOK
  <2>2. /\ r = q[1] /\ r \in Requests /\ Len(q) \in Nat \ {0} /\ Len(Tail(q)) = Len(q) - 1
        /\ \A k \in 2 .. Len(q) : k - 1 \in 1 .. Len(Tail(q)) /\ Tail(q)[k - 1] = q[k]
    <3> HIDE DEF q
    <3> QED BY <2>1
  <2>3. r.type \in Types /\ r.nonce \in Nat
    BY <2>2, Zenon DEF Requests
  <2> HIDE DEF r
  <2>4. CASE Accepts(s, r) /\ r.type = t
    <3>1. pc'[s] = "watch" /\ req'[s] = r
      BY <1>1, <2>4, Zenon DEF Receive, XdsTypeOK, r
    <3> QED BY <2>4, <3>1, Zenon DEF Pending
  <2>5. CASE ~(Accepts(s, r) /\ r.type = t)
    <3>1. \A w \in watches : w.id[1] = s /\ w.id[2] = t => w \in watches'
      <4>1. Accepts(s, r) => watches' = {w \in watches : w.id \notin {cancel[s][r.type]}}
        BY <1>1, Zenon DEF Receive, cancelWatch, r
      <4>2. ~Accepts(s, r) => watches' = watches
        BY <1>1, Zenon DEF Receive, r
      <4>3. Accepts(s, r) => \A w \in watches : w.id[2] = t => w.id # cancel[s][r.type]
        BY <1>a, <1>b, <2>3, <2>5, CacheAssumption
      <4> QED BY <4>1, <4>2, <4>3, Zenon
    <3>2. CASE Asked(s, t)
      <4>1. PICK k \in 1 .. Len(q) : q[k].type = t /\ q[k].nonce = lastNonce[t]
        BY <3>2, Zenon DEF Asked
      <4>2. CASE k = 1
        <5>1. r.type = t /\ r.nonce = lastNonce[t] /\ nonce[s][t] # r.nonce
          BY <2>2, <2>5, <4>1, <4>2, Zenon DEF Accepts
        <5>2. NonceInv(s, t) /\ nonce[s][t] \in Nat
          BY Zenon DEF EnvoyInv, TypeInv, XdsTypeOK
        <5>3. InFlight(s, t)
          BY <2>3, <5>1, <5>2 DEF NonceInv
        <5> QED BY <2>1, <5>3, Zenon DEF Pending, InFlight
      <4>3. CASE k # 1
        <5>1. k - 1 \in 1 .. Len(Tail(q)) /\ Tail(q)[k - 1] = q[k]
          BY <2>2, <4>3
        <5>2. Asked(s, t)'
          BY <2>1, <4>1, <5>1, Zenon DEF Asked
        <5> QED BY <5>2, Zenon DEF Pending
      <4> QED BY <4>2, <4>3, Zenon
    <3>3. CASE InFlight(s, t)
      BY <2>1, <3>3, Zenon DEF Pending, InFlight
    <3>4. CASE \E w \in watches : w.id[1] = s /\ w.id[2] = t
      BY <3>1, <3>4, Zenon DEF Pending
    <3>5. CASE \/ chan[s][t] # NoId /\ value[chan[s][t]] # NoResponse
               \/ <<s, t>> \in silent
      BY <2>1, <3>5, Zenon DEF Pending
    <3> QED BY <2>1, <3>2, <3>3, <3>4, <3>5, Zenon DEF Pending
  <2> QED BY <2>4, <2>5, Zenon
<1>2. CASE Watch(s)
  <2> DEFINE r == req[s]
             b == r.type
             i == <<s, b, 1>>
  <2>1. b \in Types /\ i \in Ids /\ i # NoId /\ nextWatchID(s, b) = i
    <3>1. b \in Types /\ nextWatchID(s, b) = i
      BY <1>2, NextIdIsFree, Zenon DEF Watch, XdsTypeOK, Requests
    <3>2. i \in Ids
      <4> HIDE DEF b
      <4> QED BY <3>1, Zenon DEF Ids
    <3> QED BY <3>1, <3>2, CacheAssumption, Zenon
  <2>2. /\ pc[s] = "watch" /\ UNCHANGED <<lastNonce, toServer, toClient>>
        /\ chan' = [chan EXCEPT ![s][b] = i]
        /\ watches' = IF LeavesOpen(r) THEN watches \cup {[id |-> i, req |-> r]} ELSE watches
        /\ value' = [value EXCEPT ![i] = IF LeavesOpen(r) THEN NoResponse
                                         ELSE respond(r, snaps[current], current)]
        /\ silent' = IF LeavesOpen(r) \/ value'[i] # NoResponse THEN silent \ {<<s, b>>}
                     ELSE silent \cup {<<s, b>>}
    BY <1>2, <2>1, Zenon DEF Watch, CreateWatch, envoyVars, netVars
  <2>3. CASE t = b
    <3>1. chan'[s][t] = i
      <4> HIDE DEF b, i
      <4> QED BY <2>1, <2>2, <2>3, Zenon DEF XdsTypeOK
    <3>2. CASE LeavesOpen(r)
      <4> DEFINE w == [id |-> i, req |-> r]
      <4>1. w \in watches' /\ w.id[1] = s /\ w.id[2] = t
        BY <2>2, <2>3, <3>2, Zenon
      <4> QED BY <4>1, Zenon DEF Pending
    <3>3. CASE value'[i] # NoResponse
      BY <2>1, <3>1, <3>3, Zenon DEF Pending
    <3>4. CASE ~LeavesOpen(r) /\ value'[i] = NoResponse
      BY <2>2, <2>3, <3>4, Zenon DEF Pending
    <3> QED BY <3>2, <3>3, <3>4, Zenon
  <2>4. CASE t # b
    <3>1. chan'[s][t] = chan[s][t]
      <4> HIDE DEF b, i
      <4> QED BY <2>1, <2>2, <2>4, Zenon DEF XdsTypeOK
    <3>2. chan[s][t] # NoId => value'[chan[s][t]] = value[chan[s][t]]
      <4>1. chan[s][t] # NoId => chan[s][t] # i /\ chan[s][t] \in Ids
        BY <1>b, <2>4
      <4> HIDE DEF i
      <4> QED BY <2>2, <4>1, Zenon DEF XdsTypeOK, CacheTypeOK
    <3>3. <<s, t>> \in silent => <<s, t>> \in silent'
      <4>1. <<s, t>> # <<s, b>>
        BY <2>4, Zenon
      <4> QED BY <2>2, <4>1, Zenon
    <3>4. CASE Asked(s, t)
      BY <2>2, <3>4, Zenon DEF Pending, Asked
    <3>5. CASE InFlight(s, t)
      BY <2>2, <3>5, Zenon DEF Pending, InFlight
    <3>6. CASE \E w \in watches : w.id[1] = s /\ w.id[2] = t
      BY <2>2, <3>6, Zenon DEF Pending
    <3>7. CASE \/ chan[s][t] # NoId /\ value[chan[s][t]] # NoResponse
               \/ <<s, t>> \in silent
      BY <3>1, <3>2, <3>3, <3>7, Zenon DEF Pending
    <3> QED BY <2>4, <3>4, <3>5, <3>6, <3>7, Zenon DEF Pending
  <2> QED BY <2>3, <2>4, Zenon
<1>3. ASSUME NEW b \in Types, Send(s, b) PROVE Pending(s, t)'
  <2> DEFINE i == chan[s][b]
             q == toClient[s]
             m == [type |-> b, version |-> value[i].version,
                   names |-> value[i].names, nonce |-> streamNonce[s] + 1]
  <2>1. /\ toClient'[s] = Append(q, m) /\ q \in Seq(Messages) /\ m.type = b
        /\ UNCHANGED <<toServer, lastNonce, pc, req, chan, watches, silent>>
        /\ value' = [value EXCEPT ![i] = NoResponse] /\ i # NoId
    BY <1>3, Zenon DEF Send, envoyVars, XdsTypeOK
  <2> HIDE DEF m, q
  <2>2. /\ Len(q) \in Nat /\ Len(Append(q, m)) = Len(q) + 1 /\ Append(q, m)[Len(q) + 1] = m
        /\ \A k \in 1 .. Len(q) : k \in 1 .. Len(q) + 1 /\ Append(q, m)[k] = q[k]
    BY <2>1
  <2>3. CASE t = b
    <3>1. InFlight(s, t)'
      BY <2>1, <2>2, <2>3 DEF InFlight
    <3> QED BY <3>1, Zenon DEF Pending
  <2>4. CASE t # b
    <3>1. chan[s][t] # NoId => value'[chan[s][t]] = value[chan[s][t]]
      <4>1. chan[s][t] # NoId => chan[s][t] # i /\ chan[s][t] \in Ids
        BY <1>b, <2>1, <2>4
      <4> QED BY <2>1, <4>1, Zenon DEF XdsTypeOK, CacheTypeOK
    <3>2. CASE InFlight(s, t)
      <4>1. PICK k \in 1 .. Len(q) : q[k].type = t
        BY <3>2, Zenon DEF InFlight, q
      <4>2. InFlight(s, t)'
        BY <2>1, <2>2, <4>1, Zenon DEF InFlight
      <4> QED BY <4>2, Zenon DEF Pending
    <3>3. CASE Asked(s, t)
      BY <2>1, <3>3, Zenon DEF Pending, Asked
    <3>4. CASE \/ pc[s] = "watch" /\ req[s].type = t
               \/ \E w \in watches : w.id[1] = s /\ w.id[2] = t
               \/ chan[s][t] # NoId /\ value[chan[s][t]] # NoResponse
               \/ <<s, t>> \in silent
      BY <2>1, <3>1, <3>4, Zenon DEF Pending
    <3> QED BY <3>2, <3>3, <3>4, Zenon DEF Pending
  <2> QED BY <2>3, <2>4, Zenon
<1>4. ~End(s)
  BY Zenon DEF End
<1> QED BY <1>1, <1>2, <1>3, <1>4, Zenon DEF process

\* The Envoy answers a response with a request that carries its nonce, asks for endpoints
\* when it gets its first clusters, and begins a stream with a request for each type.
LEMMA EnvoyPending ==
  ASSUME XdsTypeOK, EnvoyInv, NEW s \in Streams, NEW t \in Types, active' = s, Wants(t)',
         active = s /\ Wants(t) => Pending(s, t),
         Connect(s) \/ ApplyClusters \/ ApplyEndpoints \/ Reject
  PROVE  Pending(s, t)'
<1>1. CASE Connect(s)
  <2> DEFINE c == Request("cds", version["cds"], {}, 0)
             e == Request("eds", version["eds"], resources["cds"], 0)
  <2>1. /\ lastNonce'[t] = 0 /\ UNCHANGED resources
        /\ toServer'[s] = <<c>> \o (IF resources["cds"] = {} THEN <<>> ELSE <<e>>)
    BY <1>1, Zenon DEF Connect, XdsTypeOK
  <2>2. c.type = "cds" /\ c.nonce = 0 /\ e.type = "eds" /\ e.nonce = 0
    BY Zenon DEF Request
  <2> HIDE DEF c, e
  <2>3. CASE resources["cds"] = {}
    <3>1. toServer'[s] = <<c>> /\ t = "cds"
      <4>1. <<c>> \in Seq({c}) /\ <<c>> \o <<>> = <<c>>
        OBVIOUS
      <4> QED BY <2>1, <2>3, <4>1, Zenon DEF Wants
    <3>2. Asked(s, t)'
      BY <2>1, <2>2, <3>1 DEF Asked
    <3> QED BY <3>2, Zenon DEF Pending
  <2>4. CASE resources["cds"] # {}
    <3> DEFINE q == <<c>> \o <<e>>
    <3>1. Len(q) = 2 /\ q[1] = c /\ q[2] = e
      <4>1. <<c>> \in Seq({c, e}) /\ <<e>> \in Seq({c, e})
        OBVIOUS
      <4> QED BY <4>1
    <3>2. toServer'[s] = q
      BY <2>1, <2>4, Zenon
    <3> HIDE DEF q
    <3>3. \E k \in 1 .. 2 : q[k].type = t /\ q[k].nonce = 0
      BY <2>2, <3>1 DEF Types
    <3>4. Asked(s, t)'
      BY <2>1, <3>1, <3>2, <3>3, Zenon DEF Asked
    <3> QED BY <3>4, Zenon DEF Pending
  <2> QED BY <2>3, <2>4, Zenon
<1>2. CASE ApplyClusters \/ ApplyEndpoints \/ Reject
  <2> DEFINE m == Head(toClient[s])
             p == toServer[s]
  <2>1. active = s /\ toClient[s] # <<>> /\ UNCHANGED <<cacheVars, serverVars, silent>>
    BY <1>2, Zenon DEF ApplyClusters, ApplyEndpoints, Reject
  <2>2. m \in Messages /\ p \in Seq(Requests) /\ toClient[s] \in Seq(Messages)
    BY <2>1 DEF XdsTypeOK
  <2>3. m.type \in Types /\ m.nonce \in Nat /\ m.version \in Nat
    BY <2>2, Zenon DEF Messages
  <2>4. /\ toClient'[s] = Tail(toClient[s])
        /\ lastNonce' = [lastNonce EXCEPT ![m.type] = m.nonce]
    BY <1>2, <2>1, Zenon DEF ApplyClusters, ApplyEndpoints, Reject, XdsTypeOK
  <2>5. \E out \in Seq(Requests) :
          /\ toServer'[s] = p \o out
          /\ \E k \in 1 .. Len(out) : out[k].type = m.type /\ out[k].nonce = m.nonce
          /\ m.type = "cds" /\ resources'["cds"] # resources["cds"] =>
               \E k \in 1 .. Len(out) : out[k].type = "eds" /\ out[k].nonce = lastNonce["eds"]
    <3>1. CASE ApplyClusters
      <4> DEFINE ack == Request("cds", m.version, {}, m.nonce)
                 eds == Request("eds", version["eds"], m.names, lastNonce["eds"])
      <4>1. /\ m.type = "cds" /\ resources'["cds"] = m.names
            /\ toServer'[s] = p \o (IF m.names = resources["cds"] THEN <<ack>> ELSE <<eds, ack>>)
        BY <3>1, <2>1, Zenon DEF ApplyClusters, XdsTypeOK, Types
      <4>2. ack \in Requests /\ eds \in Requests
        BY <2>2, Zenon DEF Request, Requests, Messages, Types, XdsTypeOK
      <4>3. /\ ack.type = "cds" /\ ack.nonce = m.nonce
            /\ eds.type = "eds" /\ eds.nonce = lastNonce["eds"]
        BY Zenon DEF Request
      <4> HIDE DEF ack, eds, m, p
      <4>4. CASE m.names = resources["cds"]
        <5>1. <<ack>> \in Seq(Requests) /\ Len(<<ack>>) = 1 /\ <<ack>>[1] = ack
          BY <4>2
        <5>2. 1 \in 1 .. Len(<<ack>>)
          BY <5>1
        <5> QED BY <4>1, <4>3, <4>4, <5>1, <5>2, Zenon
      <4>5. CASE m.names # resources["cds"]
        <5> DEFINE out == <<eds, ack>>
        <5>1. out \in Seq(Requests) /\ Len(out) = 2 /\ out[1] = eds /\ out[2] = ack
          BY <4>2
        <5>2. 1 \in 1 .. Len(out) /\ 2 \in 1 .. Len(out) /\ toServer'[s] = p \o out
          BY <4>1, <4>5, <5>1
        <5> HIDE DEF out
        <5> QED BY <4>1, <4>3, <5>1, <5>2, Zenon
      <4> QED BY <4>4, <4>5, Zenon
    <3>2. CASE ApplyEndpoints \/ Reject
      <4>1. PICK x \in Requests : /\ toServer'[s] = Append(p, x)
                                  /\ x.type = m.type /\ x.nonce = m.nonce
        <5>1. CASE ApplyEndpoints
          <6> DEFINE ack == Request("eds", m.version, resources["cds"], m.nonce)
          <6>1. m.type = "eds" /\ toServer'[s] = Append(p, ack)
            BY <5>1, <2>1, Zenon DEF ApplyEndpoints, XdsTypeOK
          <6>2. ack \in Requests /\ ack.type = "eds" /\ ack.nonce = m.nonce
            BY <2>2, Zenon DEF Request, Requests, Messages, Types, XdsTypeOK
          <6> HIDE DEF ack
          <6> QED BY <6>1, <6>2, Zenon
        <5>2. CASE Reject
          <6> DEFINE nack == Request(m.type, version[m.type],
                                     IF m.type = "cds" THEN {} ELSE resources["cds"], m.nonce)
          <6>1. toServer'[s] = Append(p, nack)
            BY <5>2, <2>1, Zenon DEF Reject, XdsTypeOK
          <6>2. nack \in Requests /\ nack.type = m.type /\ nack.nonce = m.nonce
            BY <2>2, <2>3, Zenon DEF Request, Requests, Messages, Types, XdsTypeOK
          <6> HIDE DEF nack
          <6> QED BY <6>1, <6>2, Zenon
        <5> QED BY <3>2, <5>1, <5>2, Zenon
      <4>2. ~(m.type = "cds" /\ resources'["cds"] # resources["cds"])
        BY <3>2, <2>1, Zenon DEF ApplyEndpoints, Reject, XdsTypeOK, Types
      <4> HIDE DEF m, p
      <4>3. <<x>> \in Seq(Requests) /\ Len(<<x>>) = 1 /\ <<x>>[1] = x /\ Append(p, x) = p \o <<x>>
        BY <2>2
      <4>4. 1 \in 1 .. Len(<<x>>)
        BY <4>3
      <4> QED BY <4>1, <4>2, <4>3, <4>4, Zenon
    <3> QED BY <1>2, <3>1, <3>2, Zenon
  <2>6. PICK out \in Seq(Requests) :
          /\ toServer'[s] = p \o out
          /\ \E k \in 1 .. Len(out) : out[k].type = m.type /\ out[k].nonce = m.nonce
          /\ m.type = "cds" /\ resources'["cds"] # resources["cds"] =>
               \E k \in 1 .. Len(out) : out[k].type = "eds" /\ out[k].nonce = lastNonce["eds"]
    BY <2>5, Zenon
  <2> HIDE DEF m, p
  <2>7. /\ Len(p) \in Nat /\ Len(out) \in Nat /\ Len(p \o out) = Len(p) + Len(out)
        /\ \A k \in 1 .. Len(p) : k \in 1 .. Len(p \o out) /\ (p \o out)[k] = p[k]
        /\ \A k \in 1 .. Len(out) : Len(p) + k \in 1 .. Len(p \o out) /\ (p \o out)[Len(p) + k] = out[k]
    BY <2>2
  <2>8. ASSUME NEW k \in 1 .. Len(out), out[k].type = t, out[k].nonce = lastNonce'[t]
        PROVE  Asked(s, t)'
    <3>1. /\ Len(p) + k \in 1 .. Len(toServer'[s])
          /\ toServer'[s][Len(p) + k] = out[k]
      BY <2>6, <2>7, Zenon
    <3> QED BY <2>8, <3>1, Zenon DEF Asked
  <2>9. CASE t = m.type
    <3>1. lastNonce'[t] = m.nonce
      BY <2>3, <2>4, <2>9, Zenon DEF XdsTypeOK
    <3> QED BY <2>6, <2>8, <2>9, <3>1, Zenon DEF Pending
  <2>10. CASE t # m.type
    <3>1. lastNonce'[t] = lastNonce[t]
      BY <2>3, <2>4, <2>10, Zenon DEF XdsTypeOK
    <3>2. CASE ~Wants(t)
      <4>1. t = "eds" /\ m.type = "cds" /\ resources'["cds"] # resources["cds"]
        BY <2>3, <2>10, <3>2, Zenon DEF Wants, Types
      <4> QED BY <2>6, <2>8, <3>1, <4>1, Zenon DEF Pending
    <3>3. CASE Asked(s, t)
      <4>1. PICK k \in 1 .. Len(p) : p[k].type = t /\ p[k].nonce = lastNonce[t]
        BY <3>3, Zenon DEF Asked, p
      <4>2. Asked(s, t)'
        BY <2>6, <2>7, <3>1, <4>1, Zenon DEF Asked
      <4> QED BY <4>2, Zenon DEF Pending
    <3>4. CASE InFlight(s, t)
      <4> DEFINE q == toClient[s]
      <4>1. PICK k \in 1 .. Len(q) : q[k].type = t
        BY <3>4, Zenon DEF InFlight
      <4>2. /\ Len(q) \in Nat /\ Head(q) = q[1] /\ Len(Tail(q)) = Len(q) - 1
            /\ \A j \in 2 .. Len(q) : j - 1 \in 1 .. Len(Tail(q)) /\ Tail(q)[j - 1] = q[j]
        <5>1. q \in Seq(Messages) /\ q # <<>>
          BY <2>1, <2>2, Zenon
        <5> HIDE DEF q
        <5> QED BY <5>1
      <4>3. k # 1
        BY <2>10, <4>1, <4>2, Zenon DEF m
      <4>4. k - 1 \in 1 .. Len(Tail(q)) /\ Tail(q)[k - 1] = q[k]
        BY <4>2, <4>3
      <4>5. InFlight(s, t)'
        BY <2>4, <4>1, <4>4, Zenon DEF InFlight
      <4> QED BY <4>5, Zenon DEF Pending
    <3>5. CASE \/ pc[s] = "watch" /\ req[s].type = t
               \/ \E w \in watches : w.id[1] = s /\ w.id[2] = t
               \/ chan[s][t] # NoId /\ value[chan[s][t]] # NoResponse
               \/ <<s, t>> \in silent
      BY <2>1, <3>5, Zenon DEF Pending, cacheVars, serverVars
    <3> QED BY <2>1, <3>2, <3>3, <3>4, <3>5, Zenon DEF Pending
  <2> QED BY <2>9, <2>10, Zenon
<1> QED BY <1>1, <1>2, Zenon

\* Every step keeps whatever the Envoy wants pending.
LEMMA PendingNext ==
  ServerInv /\ FeedInv /\ CancelInv /\ PendingInv /\ [Next]_vars => PendingInv'
<1> SUFFICES ASSUME XdsTypeOK, OwnerInv, StreamInv, EnvoyInv, CancelInv, PendingInv, [Next]_vars,
                    NEW s \in Streams, NEW t \in Types, active' = s, Wants(t)'
             PROVE  Pending(s, t)'
  BY Zenon DEF ServerInv, FeedInv, PendingInv
<1>1. active = s /\ Wants(t) => Pending(s, t)
  BY Zenon DEF PendingInv
<1>2. CASE Clear \/ \E S \in Snapshots : Set(S)
  <2>1. active = s /\ Wants(t)
    BY <1>2, Zenon DEF Clear, Set, envoyVars, Wants
  <2> QED BY <1>1, <1>2, <2>1, CachePending, Zenon
<1>3. ASSUME NEW a \in Streams, process(a) PROVE Pending(s, t)'
  <2>1. active = s /\ Wants(t)
    BY <1>3, Zenon DEF process, Receive, Watch, End, Send, envoyVars, Wants
  <2>2. CASE a = s
    BY <1>1, <1>3, <2>1, <2>2, OwnPending, Zenon
  <2>3. CASE a # s
    BY <1>1, <1>3, <2>1, <2>3, OthersPending, Zenon
  <2> QED BY <2>2, <2>3, Zenon
<1>4. ASSUME NEW a \in Streams, Connect(a) PROVE Pending(s, t)'
  <2>1. a = s
    BY <1>4, Zenon DEF Connect
  <2> QED BY <1>1, <1>4, <2>1, EnvoyPending, Zenon
<1>5. CASE ApplyClusters \/ ApplyEndpoints \/ Reject
  BY <1>1, <1>5, EnvoyPending, Zenon
<1>6. ~Break
  BY DEF Break, NoStream, Streams
<1>7. CASE UNCHANGED vars
  <2>1. UNCHANGED <<cacheVars, serverVars, envoyVars, netVars, silent>>
    BY <1>7, Zenon DEF vars
  <2>2. /\ active = s /\ Wants(t) /\ toServer'[s] = toServer[s] /\ toClient'[s] = toClient[s]
        /\ UNCHANGED lastNonce
    BY <2>1, Zenon DEF envoyVars, netVars, Wants
  <2>3. /\ pc'[s] = pc[s] /\ req'[s] = req[s] /\ chan'[s][t] = chan[s][t] /\ value' = value
        /\ watches' = watches /\ silent' = silent
    BY <2>1, Zenon DEF cacheVars, serverVars
  <2> QED BY <1>1, <2>2, <2>3, PendingKept, Zenon
<1> QED BY <1>2, <1>3, <1>4, <1>5, <1>6, <1>7, Zenon DEF Next

\* The stream comes to rest only when the Envoy has the snapshot of the cache, as a whole
\* and for every type, unless the cache has dropped a watch without an answer: requests
\* the server takes for stale, rejected responses, snapshots set between the cancel and
\* the CreateWatch of a request, and streams that overlap leave no Envoy behind.
THEOREM RestsInSync ==
  ASSUME ADS = TRUE
  PROVE  Spec => [](AtRest => current = 0 \/ silent # {} \/ InSync)
<1>1. Init => FeedInv /\ RestInv
  <2> SUFFICES ASSUME Init PROVE RestInv
    BY FeedInit, Zenon
  <2>1. CancelInv /\ WatchesAreCurrent /\ HoldsSnapshot
    BY Zenon DEF Init, CacheInit, CancelInv, WatchesAreCurrent, HoldsSnapshot
  <2>2. PendingInv
    BY DEF Init, PendingInv, NoStream, Streams
  <2> QED BY <2>1, <2>2, Zenon DEF RestInv
<1>2. ServerInv /\ FeedInv /\ RestInv /\ [Next]_vars => FeedInv' /\ RestInv'
  <2>1. ServerInv /\ FeedInv /\ [Next]_vars => FeedInv'
    BY SnapshotNext, EnvoyNext, Zenon DEF FeedInv
  <2> QED BY <2>1, CancelNext, WatchesCurrentNext, HoldsSnapshotNext, PendingNext, Zenon DEF RestInv
<1>3. ServerInv /\ FeedInv /\ RestInv => (AtRest => current = 0 \/ silent # {} \/ InSync)
  <2> SUFFICES ASSUME XdsTypeOK, SnapshotInv, EnvoyInv, RestInv, AtRest, current # 0, silent = {}
               PROVE  InSync
    BY Zenon DEF ServerInv, FeedInv
  <2> DEFINE s == active
  <2>1. s \in Streams
    BY Zenon DEF AtRest, XdsTypeOK
  <2>2. ASSUME NEW t \in Types, Wants(t) PROVE version[t] = current /\ resources[t] = snaps[current]
    <3>1. Pending(s, t)
      BY <2>1, <2>2, Zenon DEF RestInv, PendingInv
    <3>2. 1 .. Len(toServer[s]) = {} /\ 1 .. Len(toClient[s]) = {}
      BY DEF AtRest
    <3>3. PICK w \in watches : w.id[1] = s /\ w.id[2] = t
      BY <2>2, <3>1, <3>2, Zenon DEF Pending, Asked, InFlight, AtRest
    <3>4. w.req.version = version[t]
      BY <2>1, <3>3, Zenon DEF EnvoyInv, TypeInv, WatchedInv
    <3>5. version[t] = current
      BY <3>3, <3>4, Zenon DEF RestInv, WatchesAreCurrent
    <3> QED BY <3>5, Zenon DEF RestInv, HoldsSnapshot
  <2>3. version["cds"] = current /\ resources["cds"] = snaps[current]
    BY <2>2, Zenon DEF Wants, Types
  <2>4. snaps[current] \in Snapshots
    BY DEF XdsTypeOK, CacheTypeOK
  <2>5. resources["cds"] # {}
    BY <2>3, <2>4, CacheAssumption, Zenon
  <2> QED BY <2>2, <2>5, Zenon DEF Wants, InSync
<1> QED BY <1>1, <1>2, <1>3, ServerInvariant, PTL DEF Spec
=============================================================================
