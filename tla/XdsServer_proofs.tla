-------------------------- MODULE XdsServer_proofs --------------------------
(***************************************************************************)
(* Proofs about the xDS snapshot cache and server, for any number of       *)
(* streams, snapshots and faults: no watch is leaked or answered twice.    *)
(***************************************************************************)
EXTENDS XdsServer, TLAPS

\* An open watch belongs to the stream and type its identity names, and not to
\* one whose request is between cancel and CreateWatch.
OwnerInv ==
  /\ \A w \in watches :
       /\ Live(w.id[1])
       /\ w.req.type = w.id[2]
       /\ chan[w.id[1]][w.id[2]] = w.id
       /\ cancel[w.id[1]][w.id[2]] = w.id
       /\ value[w.id] = NoResponse
       /\ pc[w.id[1]] = "watch" => req[w.id[1]].type # w.id[2]
  /\ \A w1, w2 \in watches : w1.id = w2.id => w1 = w2

\* What a stream holds: its own channels, nothing before it starts.
StreamInv ==
  \A s \in Streams, t \in Types :
    /\ chan[s][t] # NoId => chan[s][t] = <<s, t, 1>>
    /\ pc[s] = "new" => chan[s][t] = NoId /\ nonce[s][t] = 0
    /\ nonce[s][t] <= streamNonce[s]
    /\ active # s => toClient[s] = <<>>

ServerInv == XdsTypeOK /\ OwnerInv /\ StreamInv

-----------------------------------------------------------------------------
(* Facts about the operators *)

\* What respond returns is a response or none.
LEMMA RespondType ==
  ASSUME NEW r \in Requests, NEW S \in SUBSET Names, NEW v \in Nat
  PROVE  respond(r, S, v) \in Responses \cup {NoResponse}
BY DEF respond, Requests, Responses

\* The snapshots of a typed cache are sets of names.
LEMMA SnapshotType ==
  ASSUME CacheTypeOK, NEW n \in 1 .. Len(snaps)
  PROVE  snaps[n] \in SUBSET Names
BY CacheAssumption DEF CacheTypeOK

-----------------------------------------------------------------------------
(* Types *)

\* The initial state has the types of XdsTypeOK.
LEMMA XdsTypeInit == Init => XdsTypeOK
<1> SUFFICES ASSUME Init PROVE XdsTypeOK
  OBVIOUS
<1> USE CacheAssumption, ServerAssumption DEF Init
<1>1. CacheTypeOK
  BY DEF CacheInit, CacheTypeOK
<1>2. NoRequest \in Requests
  BY DEF NoRequest, Requests, Types
<1>3. /\ pc \in [Streams -> {"new", "select", "watch", "end"}]
      /\ chan \in [Streams -> [Types -> Ids \cup {NoId}]]
      /\ cancel \in [Streams -> [Types -> Ids \cup {NoId}]]
      /\ nonce \in [Streams -> [Types -> Nat]]
      /\ streamNonce \in [Streams -> Nat]
  OBVIOUS
<1>4. req \in [Streams -> Requests]
  BY <1>2
<1>5. toServer \in [Streams -> Seq(Requests)] /\ toClient \in [Streams -> Seq(Messages)]
  OBVIOUS
<1>6. /\ active \in Streams \cup {NoStream}
      /\ version \in [Types -> Nat]
      /\ resources \in [Types -> SUBSET Names]
      /\ lastNonce \in [Types -> Nat]
      /\ faults \in 0 .. MaxFaults
      /\ silent \subseteq Streams \X Types
  OBVIOUS
<1> QED BY <1>1, <1>3, <1>4, <1>5, <1>6 DEF XdsTypeOK

\* The cache's calls keep its types.
LEMMA SetSnapshotType ==
  ASSUME CacheTypeOK, NEW S \in Snapshots, SetSnapshot(S)
  PROVE  CacheTypeOK'
<1> DEFINE v == Len(snaps) + 1
           late == {w \in watches : w.req.version # v}
           pick(i) == CHOOSE w \in late : w.id = i
<1>1. S \in SUBSET Names /\ v \in Nat
  BY CacheAssumption DEF CacheTypeOK
<1>2. snaps' \in Seq(Snapshots) /\ current' \in 0 .. Len(snaps')
  BY DEF SetSnapshot, CacheTypeOK, GetVersion
<1>3. watches' \subseteq [id : Ids, req : Requests]
  BY DEF SetSnapshot, CacheTypeOK, discard
<1>4. value' = [i \in Ids |-> IF \E w \in late : w.id = i
                              THEN respond(pick(i).req, S, v) ELSE value[i]]
  BY DEF SetSnapshot, outdated, GetVersion
<1>5. ASSUME NEW i \in Ids
      PROVE  (IF \E w \in late : w.id = i
              THEN respond(pick(i).req, S, v) ELSE value[i]) \in Responses \cup {NoResponse}
  <2>1. CASE \E w \in late : w.id = i
    <3>1. pick(i) \in late
      BY <2>1
    <3>2. pick(i).req \in Requests
      BY <3>1 DEF CacheTypeOK
    <3> QED BY <2>1, <3>2, <1>1, RespondType
  <2>2. CASE ~ \E w \in late : w.id = i
    BY <2>2 DEF CacheTypeOK
  <2> QED BY <2>1, <2>2
<1>6. value' \in [Ids -> Responses \cup {NoResponse}]
  <2> HIDE DEF late, v, pick
  <2> QED BY <1>4, <1>5
<1> QED BY <1>2, <1>3, <1>6 DEF CacheTypeOK

\* So does CreateWatch, whether it leaves the watch open or answers it.
LEMMA CreateWatchType ==
  ASSUME CacheTypeOK, NEW i \in Ids, NEW r \in Requests, CreateWatch(i, r)
  PROVE  CacheTypeOK'
<1>1. watches' \subseteq [id : Ids, req : Requests]
  BY DEF CreateWatch, CacheTypeOK
<1>2. ~LeavesOpen(r) => respond(r, snaps[current], current) \in Responses \cup {NoResponse}
  <2> SUFFICES ASSUME ~LeavesOpen(r)
               PROVE  respond(r, snaps[current], current) \in Responses \cup {NoResponse}
    OBVIOUS
  <2>1. current \in 1 .. Len(snaps) /\ current \in Nat
    BY DEF LeavesOpen, CacheTypeOK
  <2> QED BY <2>1, SnapshotType, RespondType
<1>3. value' \in [Ids -> Responses \cup {NoResponse}]
  BY <1>2 DEF CreateWatch, CacheTypeOK
<1> QED BY <1>1, <1>3 DEF CreateWatch, CacheTypeOK

\* A new watch of stream s and type t has an identity.
LEMMA NextIdType ==
  ASSUME NEW s \in Streams, NEW t \in Types
  PROVE  nextWatchID(s, t) \in Ids
BY DEF nextWatchID, Ids

\* Every step keeps the types.
LEMMA XdsTypeNext == XdsTypeOK /\ [Next]_vars => XdsTypeOK'
<1> SUFFICES ASSUME XdsTypeOK, [Next]_vars PROVE XdsTypeOK'
  OBVIOUS
<1> USE CacheAssumption, ServerAssumption
<1>1. ASSUME NEW S \in Snapshots, Set(S) PROVE XdsTypeOK'
  <2>1. CacheTypeOK'
    BY <1>1, SetSnapshotType DEF Set, XdsTypeOK
  <2>2. silent' \subseteq Streams \X Types
    BY <1>1 DEF Set, Holders, XdsTypeOK
  <2> QED BY <1>1, <2>1, <2>2 DEF Set, XdsTypeOK, serverVars, envoyVars, netVars
<1>2. ASSUME Clear PROVE XdsTypeOK'
  <2>1. CacheTypeOK'
    BY <1>2 DEF Clear, ClearSnapshot, XdsTypeOK, CacheTypeOK
  <2>2. silent' \subseteq Streams \X Types
    BY <1>2 DEF Clear, Holders, XdsTypeOK
  <2>3. faults' \in 0 .. MaxFaults
    BY <1>2 DEF Clear, Fault, XdsTypeOK
  <2> QED BY <1>2, <2>1, <2>2, <2>3 DEF Clear, XdsTypeOK, serverVars, netVars
<1>3. ASSUME NEW s \in Streams, Receive(s) PROVE XdsTypeOK'
  <2>1. Head(toServer[s]) \in Requests /\ Tail(toServer[s]) \in Seq(Requests)
    BY <1>3 DEF Receive, XdsTypeOK
  <2>2. CacheTypeOK'
    BY <1>3 DEF Receive, cancelWatch, XdsTypeOK, CacheTypeOK
  <2>3. pc' \in [Streams -> {"new", "select", "watch", "end"}] /\ req' \in [Streams -> Requests]
    BY <1>3, <2>1 DEF Receive, XdsTypeOK
  <2>4. toServer' \in [Streams -> Seq(Requests)]
    BY <1>3, <2>1 DEF Receive, XdsTypeOK
  <2> QED BY <1>3, <2>2, <2>3, <2>4 DEF Receive, XdsTypeOK, envoyVars
<1>4. ASSUME NEW s \in Streams, Watch(s) PROVE XdsTypeOK'
  <2> DEFINE t == req[s].type
             i == nextWatchID(s, t)
  <2>1. req[s] \in Requests /\ t \in Types /\ NoRequest \in Requests
    BY DEF XdsTypeOK, Requests, NoRequest, Types
  <2>2. i \in Ids
    BY <2>1, NextIdType
  <2>3. CacheTypeOK'
    BY <1>4, <2>1, <2>2, CreateWatchType DEF Watch, XdsTypeOK
  <2>4. chan' \in [Streams -> [Types -> Ids \cup {NoId}]]
    <3> HIDE DEF i
    <3> QED BY <1>4, <2>1, <2>2 DEF Watch, XdsTypeOK, i
  <2>5. cancel' \in [Streams -> [Types -> Ids \cup {NoId}]]
    BY <1>4, <2>1, <2>2 DEF Watch, XdsTypeOK
  <2>6. pc' \in [Streams -> {"new", "select", "watch", "end"}] /\ req' \in [Streams -> Requests]
    BY <1>4, <2>1 DEF Watch, XdsTypeOK
  <2>7. silent' \subseteq Streams \X Types
    BY <1>4, <2>1 DEF Watch, XdsTypeOK
  <2> QED BY <1>4, <2>3, <2>4, <2>5, <2>6, <2>7 DEF Watch, XdsTypeOK, netVars, envoyVars
<1>5. ASSUME NEW s \in Streams, NEW t \in Types, Send(s, t) PROVE XdsTypeOK'
  <2> DEFINE i == chan[s][t]
             m == [type |-> t, version |-> value[i].version,
                   names |-> value[i].names, nonce |-> streamNonce[s] + 1]
  <2>1. i \in Ids /\ value[i] \in Responses
    BY <1>5 DEF Send, XdsTypeOK, CacheTypeOK
  <2>2. CacheTypeOK'
    BY <1>5, <2>1 DEF Send, XdsTypeOK, CacheTypeOK
  <2>3. m \in Messages
    BY <2>1 DEF Messages, Responses, XdsTypeOK
  <2>4. toClient' = [toClient EXCEPT ![s] = IF active = s THEN Append(@, m) ELSE @]
    BY <1>5 DEF Send
  <2>5. toClient' \in [Streams -> Seq(Messages)]
    <3> HIDE DEF m
    <3> QED BY <2>3, <2>4 DEF XdsTypeOK
  <2>6. streamNonce' \in [Streams -> Nat] /\ nonce' \in [Streams -> [Types -> Nat]]
    BY <1>5 DEF Send, XdsTypeOK
  <2> QED BY <1>5, <2>2, <2>5, <2>6 DEF Send, XdsTypeOK, envoyVars
<1>6. ASSUME NEW s \in Streams, End(s) PROVE XdsTypeOK'
  <2>1. CacheTypeOK'
    BY <1>6 DEF End, cancelWatch, XdsTypeOK, CacheTypeOK
  <2>2. /\ pc' \in [Streams -> {"new", "select", "watch", "end"}]
        /\ chan' \in [Streams -> [Types -> Ids \cup {NoId}]]
        /\ cancel' \in [Streams -> [Types -> Ids \cup {NoId}]]
        /\ nonce' \in [Streams -> [Types -> Nat]]
        /\ streamNonce' \in [Streams -> Nat]
        /\ silent' \subseteq Streams \X Types
    BY <1>6 DEF End, XdsTypeOK
  <2>3. toServer' \in [Streams -> Seq(Requests)]
    BY <1>6 DEF End, XdsTypeOK
  <2> QED BY <1>6, <2>1, <2>2, <2>3 DEF End, XdsTypeOK, envoyVars
<1>7. ASSUME NEW s \in Streams, Connect(s) PROVE XdsTypeOK'
  <2> DEFINE c == Request("cds", version["cds"], {}, 0)
             e == Request("eds", version["eds"], resources["cds"], 0)
             out == <<c>> \o (IF resources["cds"] = {} THEN <<>> ELSE <<e>>)
  <2>1. c \in Requests /\ e \in Requests
    BY DEF Request, Requests, Types, XdsTypeOK
  <2>2. out \in Seq(Requests)
    <3> HIDE DEF c, e
    <3> QED BY <2>1
  <2>3. toServer' \in [Streams -> Seq(Requests)]
    <3>1. toServer' = [toServer EXCEPT ![s] = out]
      BY <1>7 DEF Connect
    <3> HIDE DEF out
    <3> QED BY <3>1, <2>2 DEF XdsTypeOK
  <2> QED BY <1>7, <2>3 DEF Connect, XdsTypeOK, CacheTypeOK, cacheVars
<1>8. ASSUME Break PROVE XdsTypeOK'
  <2>1. active \in Streams
    BY <1>8 DEF Break, XdsTypeOK
  <2>2. faults' \in 0 .. MaxFaults
    BY <1>8 DEF Break, Fault, XdsTypeOK
  <2>3. toServer' \in [Streams -> Seq(Requests)] /\ toClient' \in [Streams -> Seq(Messages)]
    <3>1. toClient' \in [Streams -> Seq(Messages)]
      BY <1>8, <2>1 DEF Break, XdsTypeOK
    <3>2. CASE toServer' = [toServer EXCEPT ![active] = <<>>]
      BY <2>1, <3>1, <3>2 DEF XdsTypeOK
    <3>3. CASE /\ toServer[active] # <<>>
               /\ toServer' = [toServer EXCEPT ![active] = <<Head(@)>>]
      <4>1. <<Head(toServer[active])>> \in Seq(Requests)
        <5>1. Head(toServer[active]) \in Requests
          BY <2>1, <3>3 DEF XdsTypeOK
        <5> QED BY <5>1
      <4> QED BY <2>1, <3>1, <3>3, <4>1 DEF XdsTypeOK
    <3> QED BY <1>8, <3>2, <3>3 DEF Break
  <2> QED BY <1>8, <2>2, <2>3 DEF Break, XdsTypeOK, CacheTypeOK, cacheVars, serverVars
<1>9. ASSUME ApplyClusters PROVE XdsTypeOK'
  <2> DEFINE m == Head(toClient[active])
             ack == Request("cds", m.version, {}, m.nonce)
             eds == Request("eds", version["eds"], m.names, lastNonce["eds"])
  <2>1. active \in Streams /\ m \in Messages /\ Tail(toClient[active]) \in Seq(Messages)
    BY <1>9, SMTT(30) DEF ApplyClusters, XdsTypeOK
  <2>2. ack \in Requests /\ eds \in Requests
    BY <2>1 DEF Request, Requests, Messages, Types, XdsTypeOK
  <2>3. PICK out \in {<<ack>>, <<eds, ack>>} :
          toServer' = [toServer EXCEPT ![active] = @ \o out]
    BY <1>9 DEF ApplyClusters
  <2>4. out \in Seq(Requests)
    <3> HIDE DEF ack, eds
    <3>1. <<ack>> \in Seq(Requests)
      BY <2>2
    <3>2. <<eds, ack>> \in Seq(Requests)
      BY <2>2
    <3> QED BY <2>3, <3>1, <3>2
  <2>5. toServer' \in [Streams -> Seq(Requests)]
    <3>1. toServer[active] \o out \in Seq(Requests)
      BY <2>1, <2>4 DEF XdsTypeOK
    <3> QED BY <2>1, <2>3, <3>1 DEF XdsTypeOK
  <2>6. /\ version' \in [Types -> Nat]
        /\ resources' \in [Types -> SUBSET Names]
        /\ lastNonce' \in [Types -> Nat]
    BY <1>9, <2>1 DEF ApplyClusters, Messages, Types, XdsTypeOK
  <2>7. toClient' \in [Streams -> Seq(Messages)]
    BY <1>9, <2>1 DEF ApplyClusters, XdsTypeOK
  <2> QED BY <1>9, <2>5, <2>6, <2>7 DEF ApplyClusters, XdsTypeOK, CacheTypeOK, cacheVars, serverVars
<1>10. ASSUME ApplyEndpoints PROVE XdsTypeOK'
  <2> DEFINE m == Head(toClient[active])
             ack == Request("eds", m.version, resources["cds"], m.nonce)
  <2>1. active \in Streams /\ m \in Messages /\ Tail(toClient[active]) \in Seq(Messages)
    BY <1>10 DEF ApplyEndpoints, XdsTypeOK
  <2>2. ack \in Requests
    BY <2>1 DEF Request, Requests, Messages, Types, XdsTypeOK
  <2>3. toServer' = [toServer EXCEPT ![active] = Append(@, ack)]
    BY <1>10 DEF ApplyEndpoints
  <2>4. toServer' \in [Streams -> Seq(Requests)]
    <3> HIDE DEF ack
    <3> QED BY <2>1, <2>2, <2>3 DEF XdsTypeOK
  <2>5. /\ version' \in [Types -> Nat]
        /\ resources' \in [Types -> SUBSET Names]
        /\ lastNonce' \in [Types -> Nat]
    BY <1>10, <2>1 DEF ApplyEndpoints, Messages, Types, XdsTypeOK
  <2>6. toClient' \in [Streams -> Seq(Messages)]
    BY <1>10, <2>1 DEF ApplyEndpoints, XdsTypeOK
  <2> QED BY <1>10, <2>4, <2>5, <2>6 DEF ApplyEndpoints, XdsTypeOK, CacheTypeOK, cacheVars, serverVars
<1>11. ASSUME Reject PROVE XdsTypeOK'
  <2> DEFINE m == Head(toClient[active])
             nack == Request(m.type, version[m.type],
                             IF m.type = "cds" THEN {} ELSE resources["cds"], m.nonce)
  <2>1. active \in Streams /\ m \in Messages /\ Tail(toClient[active]) \in Seq(Messages)
    BY <1>11 DEF Reject, XdsTypeOK
  <2>2. nack \in Requests
    BY <2>1 DEF Request, Requests, Messages, Types, XdsTypeOK
  <2>3. toServer' = [toServer EXCEPT ![active] = Append(@, nack)]
    BY <1>11 DEF Reject
  <2>4. toServer' \in [Streams -> Seq(Requests)]
    <3> HIDE DEF nack
    <3> QED BY <2>1, <2>2, <2>3 DEF XdsTypeOK
  <2>5. lastNonce' \in [Types -> Nat] /\ faults' \in 0 .. MaxFaults
    BY <1>11, <2>1, SMTT(30) DEF Reject, Fault, Messages, XdsTypeOK
  <2>6. toClient' \in [Streams -> Seq(Messages)]
    BY <1>11, <2>1 DEF Reject, XdsTypeOK
  <2> QED BY <1>11, <2>4, <2>5, <2>6 DEF Reject, XdsTypeOK, CacheTypeOK, cacheVars, serverVars
<1>12. ASSUME UNCHANGED vars PROVE XdsTypeOK'
  BY <1>12 DEF vars, cacheVars, serverVars, envoyVars, netVars, XdsTypeOK, CacheTypeOK
<1> QED
  BY <1>1, <1>2, <1>3, <1>4, <1>5, <1>6, <1>7, <1>8, <1>9, <1>10, <1>11, <1>12 DEF Next, process

-----------------------------------------------------------------------------
(* Watches and their owners *)

\* Nothing is watched or held initially.
LEMMA OwnerInit == Init => OwnerInv /\ StreamInv
BY DEF Init, CacheInit, OwnerInv, StreamInv, NoStream

\* The identity of a watch names a stream and a type.
LEMMA IdParts ==
  ASSUME NEW i \in Ids
  PROVE  i[1] \in Streams /\ i[2] \in Types /\ i = <<i[1], i[2], i[3]>>
BY DEF Ids

\* The stream whose request is being handled has no open watch of its type, so
\* the identity of the new watch is free.
LEMMA NextIdIsFree ==
  ASSUME XdsTypeOK, OwnerInv, NEW s \in Streams, pc[s] = "watch"
  PROVE  /\ nextWatchID(s, req[s].type) = <<s, req[s].type, 1>>
         /\ \A w \in watches : ~(w.id[1] = s /\ w.id[2] = req[s].type)
<1>1. \A w \in watches : ~(w.id[1] = s /\ w.id[2] = req[s].type)
  BY DEF OwnerInv
<1>2. \A w \in watches : w.id # <<s, req[s].type, 1>>
  BY <1>1
<1> QED BY <1>1, <1>2 DEF nextWatchID

\* Every step keeps the watches with their owners.
LEMMA OwnerNext == ServerInv /\ [Next]_vars => OwnerInv'
<1> SUFFICES ASSUME XdsTypeOK, OwnerInv, StreamInv, [Next]_vars PROVE OwnerInv'
  BY DEF ServerInv
<1> USE CacheAssumption
<1>0. \A w \in watches : w.id \in Ids /\ w.id[1] \in Streams /\ w.id[2] \in Types
  BY IdParts DEF XdsTypeOK, CacheTypeOK
<1>1. ASSUME NEW S \in Snapshots, Set(S) PROVE OwnerInv'
  <2> DEFINE late == {w \in watches : w.req.version # Len(snaps) + 1}
  <2>1. watches' = watches \ late
    BY <1>1 DEF Set, SetSnapshot, discard, outdated, GetVersion
  <2>2. \A i \in Ids : (~ \E w \in late : w.id = i) => value'[i] = value[i]
    BY <1>1 DEF Set, SetSnapshot, outdated, GetVersion
  <2>3. \A w \in watches' : value'[w.id] = NoResponse
    BY <1>0, <2>1, <2>2 DEF OwnerInv
  <2> QED BY <1>1, <2>1, <2>3 DEF Set, OwnerInv, Live, serverVars
<1>2. ASSUME Clear PROVE OwnerInv'
  BY <1>2 DEF Clear, ClearSnapshot, OwnerInv
<1>3. ASSUME NEW s \in Streams, Receive(s) PROVE OwnerInv'
  <2> DEFINE r == Head(toServer[s])
  <2>1. r.type \in Types
    <3>1. r \in Requests
      BY <1>3 DEF Receive, XdsTypeOK
    <3> QED BY <3>1 DEF Requests
  <2>2. CASE Accepts(s, r)
    <3>1. /\ pc' = [pc EXCEPT ![s] = "watch"]
          /\ req' = [req EXCEPT ![s] = r]
          /\ watches' = {w \in watches : w.id # cancel[s][r.type]}
          /\ UNCHANGED <<value, chan, cancel>>
      BY <1>3, <2>2 DEF Receive, cancelWatch
    <3>2. \A w \in watches' : w \in watches /\ ~(w.id[1] = s /\ w.id[2] = r.type)
      BY <3>1 DEF OwnerInv
    <3>3. \A w \in watches' : Live(w.id[1])'
      BY <1>0, <3>1, <3>2 DEF OwnerInv, Live, XdsTypeOK
    <3>4. \A w \in watches' : pc'[w.id[1]] = "watch" => req'[w.id[1]].type # w.id[2]
      BY <1>0, <3>1, <3>2 DEF OwnerInv, XdsTypeOK
    <3> HIDE DEF r
    <3> QED BY <3>1, <3>2, <3>3, <3>4 DEF OwnerInv
  <2>3. CASE ~Accepts(s, r)
    BY <1>3, <2>3 DEF Receive, OwnerInv, Live
  <2> QED BY <2>2, <2>3
<1>4. ASSUME NEW s \in Streams, Watch(s) PROVE OwnerInv'
  <2> DEFINE t == req[s].type
             i == <<s, t, 1>>
             x == [id |-> i, req |-> req[s]]
  <2>1. t \in Types /\ i \in Ids
    BY DEF XdsTypeOK, Requests, Ids
  <2>2. /\ nextWatchID(s, t) = i
        /\ \A w \in watches : ~(w.id[1] = s /\ w.id[2] = t)
    BY <1>4, NextIdIsFree DEF Watch
  <2>3. \A w \in watches : w.id # i
    BY <2>2
  <2>4. /\ chan' = [chan EXCEPT ![s][t] = i]
        /\ cancel' = [cancel EXCEPT ![s][t] = IF LeavesOpen(req[s]) THEN i ELSE NoId]
        /\ pc' = [pc EXCEPT ![s] = "select"]
        /\ req' = [req EXCEPT ![s] = NoRequest]
        /\ watches' = IF LeavesOpen(req[s]) THEN watches \cup {x} ELSE watches
        /\ LeavesOpen(req[s]) => value'[i] = NoResponse
        /\ \A j \in Ids : j # i => value'[j] = value[j]
    BY <1>4, <2>1, <2>2 DEF Watch, CreateWatch, XdsTypeOK, CacheTypeOK
  <2>5. ASSUME NEW w \in watches
        PROVE  /\ Live(w.id[1])'
               /\ w.req.type = w.id[2]
               /\ chan'[w.id[1]][w.id[2]] = w.id
               /\ cancel'[w.id[1]][w.id[2]] = w.id
               /\ value'[w.id] = NoResponse
               /\ pc'[w.id[1]] = "watch" => req'[w.id[1]].type # w.id[2]
    <3> DEFINE a == w.id[1]
               b == w.id[2]
    <3>1. a \in Streams /\ b \in Types /\ ~(a = s /\ b = t) /\ w.id \in Ids
      BY <1>0, <2>2
    <3>2. chan'[a][b] = chan[a][b] /\ cancel'[a][b] = cancel[a][b]
      <4> HIDE DEF a, b, t, i
      <4> QED BY <2>1, <2>4, <3>1 DEF XdsTypeOK
    <3>3. value'[w.id] = NoResponse
      BY <2>3, <2>4, <3>1 DEF OwnerInv
    <3>4. pc'[a] = (IF a = s THEN "select" ELSE pc[a]) /\ (a # s => req'[a] = req[a])
      BY <2>4, <3>1 DEF XdsTypeOK
    <3>5. Live(a)'
      BY <3>4 DEF OwnerInv, Live
    <3> QED BY <3>2, <3>3, <3>4, <3>5 DEF OwnerInv
  <2>6. CASE LeavesOpen(req[s])
    <3>1. chan'[s][t] = i /\ cancel'[s][t] = i /\ pc'[s] = "select" /\ value'[i] = NoResponse
      BY <2>1, <2>4, <2>6 DEF XdsTypeOK
    <3>2. x.id = i /\ x.req = req[s] /\ i[1] = s /\ i[2] = t
      OBVIOUS
    <3>3. Live(s)'
      BY <3>1 DEF Live
    <3>4. watches' = watches \cup {x}
      BY <2>4, <2>6
    <3>5. \A w1, w2 \in watches' : w1.id = w2.id => w1 = w2
      BY <2>3, <3>2, <3>4 DEF OwnerInv
    <3>6. x.req.type = x.id[2]
      BY <3>2
    <3> HIDE DEF x, i, t
    <3> QED BY <2>5, <3>1, <3>2, <3>3, <3>4, <3>5, <3>6 DEF OwnerInv
  <2>7. CASE ~LeavesOpen(req[s])
    <3>1. watches' = watches
      BY <2>4, <2>7
    <3> QED BY <2>5, <3>1 DEF OwnerInv
  <2> QED BY <2>6, <2>7
<1>5. ASSUME NEW s \in Streams, NEW t \in Types, Send(s, t) PROVE OwnerInv'
  <2>1. \A j \in Ids : value'[j] \in {value[j], NoResponse}
    BY <1>5 DEF Send, XdsTypeOK, CacheTypeOK
  <2> QED BY <1>5, <1>0, <2>1 DEF Send, OwnerInv, Live
<1>6. ASSUME NEW s \in Streams, End(s) PROVE OwnerInv'
  <2>1. watches' = {w \in watches : w.id \notin {cancel[s][t] : t \in Types}}
    BY <1>6 DEF End, cancelWatch
  <2>2. \A w \in watches' : w \in watches /\ w.id[1] # s
    BY <1>0, <2>1 DEF OwnerInv
  <2>3. \A j \in Ids : value'[j] \in {value[j], NoResponse}
    BY <1>6 DEF End
  <2>4. \A a \in Streams : a # s => /\ pc'[a] = pc[a] /\ chan'[a] = chan[a]
                                    /\ cancel'[a] = cancel[a] /\ req'[a] = req[a]
    BY <1>6 DEF End, XdsTypeOK
  <2> QED BY <1>0, <2>2, <2>3, <2>4 DEF OwnerInv, Live
<1>7. ASSUME NEW s \in Streams, Connect(s) PROVE OwnerInv'
  <2>1. \A a \in Streams : Live(a) => pc'[a] = pc[a]
    BY <1>7 DEF Connect, Live, XdsTypeOK
  <2> QED BY <1>7, <1>0, <2>1 DEF Connect, OwnerInv, Live, cacheVars
<1>8. ASSUME Break \/ ApplyClusters \/ ApplyEndpoints \/ Reject \/ UNCHANGED vars
      PROVE  OwnerInv'
  <2>1. UNCHANGED <<cacheVars, serverVars>>
    BY <1>8 DEF Break, ApplyClusters, ApplyEndpoints, Reject, vars
  <2> QED BY <2>1 DEF OwnerInv, Live, cacheVars, serverVars
<1> QED BY <1>1, <1>2, <1>3, <1>4, <1>5, <1>6, <1>7, <1>8 DEF Next, process

\* Every step keeps what a stream holds.
LEMMA StreamNext == ServerInv /\ [Next]_vars => StreamInv'
<1> SUFFICES ASSUME XdsTypeOK, OwnerInv, StreamInv, [Next]_vars,
                    NEW s \in Streams, NEW t \in Types
             PROVE  /\ chan'[s][t] # NoId => chan'[s][t] = <<s, t, 1>>
                    /\ pc'[s] = "new" => chan'[s][t] = NoId /\ nonce'[s][t] = 0
                    /\ nonce'[s][t] <= streamNonce'[s]
                    /\ active' # s => toClient'[s] = <<>>
  BY DEF ServerInv, StreamInv
<1> DEFINE Goal == /\ chan'[s][t] # NoId => chan'[s][t] = <<s, t, 1>>
                   /\ pc'[s] = "new" => chan'[s][t] = NoId /\ nonce'[s][t] = 0
                   /\ nonce'[s][t] <= streamNonce'[s]
                   /\ active' # s => toClient'[s] = <<>>
<1>1. ASSUME NEW S \in Snapshots, Set(S) PROVE Goal
  BY <1>1 DEF Set, StreamInv, serverVars, envoyVars, netVars
<1>2. ASSUME Clear PROVE Goal
  BY <1>2 DEF Clear, StreamInv, serverVars, netVars
<1>3. ASSUME NEW a \in Streams, Receive(a) PROVE Goal
  <2>1. pc'[s] = "new" => pc[s] = "new"
    BY <1>3 DEF Receive, XdsTypeOK
  <2> QED BY <1>3, <2>1 DEF Receive, StreamInv, envoyVars
<1>4. ASSUME NEW a \in Streams, Watch(a) PROVE Goal
  <2> DEFINE b == req[a].type
  <2>1. b \in Types
    BY DEF XdsTypeOK, Requests
  <2>2. chan' = [chan EXCEPT ![a][b] = <<a, b, 1>>]
    BY <1>4, NextIdIsFree DEF Watch
  <2>3. chan'[s][t] = IF s = a /\ t = b THEN <<a, b, 1>> ELSE chan[s][t]
    <3> HIDE DEF b
    <3> QED BY <2>1, <2>2 DEF XdsTypeOK
  <2>4. pc'[s] = IF s = a THEN "select" ELSE pc[s]
    BY <1>4 DEF Watch, XdsTypeOK
  <2> HIDE DEF b
  <2> QED BY <1>4, <2>3, <2>4 DEF Watch, StreamInv, netVars, envoyVars
<1>5. ASSUME NEW a \in Streams, NEW b \in Types, Send(a, b) PROVE Goal
  <2>1. /\ streamNonce'[s] = IF s = a THEN streamNonce[s] + 1 ELSE streamNonce[s]
        /\ nonce'[s][t] = IF s = a /\ t = b THEN streamNonce[s] + 1 ELSE nonce[s][t]
    BY <1>5 DEF Send, XdsTypeOK
  <2>2. pc'[s] = pc[s] /\ chan'[s][t] = chan[s][t] /\ (s = a => pc[s] = "select")
    BY <1>5 DEF Send
  <2>3. nonce'[s][t] <= streamNonce'[s]
    <3>1. nonce[s][t] \in Nat /\ streamNonce[s] \in Nat /\ nonce[s][t] <= streamNonce[s]
      BY DEF StreamInv, XdsTypeOK
    <3> QED BY <2>1, <3>1
  <2>4. active # s => toClient'[s] = toClient[s]
    BY <1>5 DEF Send, XdsTypeOK
  <2> QED BY <1>5, <2>1, <2>2, <2>3, <2>4 DEF Send, StreamInv, envoyVars
<1>6. ASSUME NEW a \in Streams, End(a) PROVE Goal
  <2>1. CASE s = a
    <3>1. chan'[s][t] = NoId /\ nonce'[s][t] = 0 /\ streamNonce'[s] = 0
      BY <1>6, <2>1 DEF End, XdsTypeOK
    <3> QED BY <1>6, <3>1 DEF End, StreamInv, envoyVars
  <2>2. CASE s # a
    <3>1. /\ chan'[s] = chan[s] /\ nonce'[s] = nonce[s]
          /\ streamNonce'[s] = streamNonce[s] /\ pc'[s] = pc[s]
      BY <1>6, <2>2 DEF End, XdsTypeOK
    <3> QED BY <1>6, <3>1 DEF End, StreamInv, envoyVars
  <2> QED BY <2>1, <2>2
<1>7. ASSUME NEW a \in Streams, Connect(a) PROVE Goal
  <2>1. /\ pc'[s] = "new" => pc[s] = "new"
        /\ active' = a
        /\ active # s
    BY <1>7 DEF Connect, XdsTypeOK, NoStream, Streams
  <2> QED BY <1>7, <2>1 DEF Connect, StreamInv
<1>8. ASSUME Break PROVE Goal
  <2>1. toClient'[s] = <<>>
    BY <1>8 DEF Break, StreamInv, XdsTypeOK
  <2> QED BY <1>8, <2>1 DEF Break, StreamInv, serverVars
<1>9. ASSUME ApplyClusters \/ ApplyEndpoints \/ Reject PROVE Goal
  <2>1. /\ active' = active
        /\ UNCHANGED serverVars
        /\ active # s => toClient'[s] = toClient[s]
    <3>1. CASE ApplyClusters
      BY <3>1 DEF ApplyClusters, XdsTypeOK
    <3>2. CASE ApplyEndpoints
      BY <3>2 DEF ApplyEndpoints, XdsTypeOK
    <3>3. CASE Reject
      BY <3>3 DEF Reject, XdsTypeOK
    <3> QED BY <1>9, <3>1, <3>2, <3>3
  <2> QED BY <2>1 DEF StreamInv, serverVars
<1>10. ASSUME UNCHANGED vars PROVE Goal
  BY <1>10 DEF StreamInv, vars, serverVars, netVars, envoyVars
<1> QED BY <1>1, <1>2, <1>3, <1>4, <1>5, <1>6, <1>7, <1>8, <1>9, <1>10 DEF Next, process

\* The cache and the server keep ServerInv, in ADS mode or not.
LEMMA ServerInvariant == Spec => []ServerInv
<1>1. Init => ServerInv
  BY XdsTypeInit, OwnerInit DEF ServerInv
<1>2. ServerInv /\ [Next]_vars => ServerInv'
  BY XdsTypeNext, OwnerNext, StreamNext DEF ServerInv
<1> QED BY <1>1, <1>2, PTL DEF Spec

\* The types of all variables, for any number of streams, names and snapshots.
THEOREM XdsTypeCorrect == Spec => []XdsTypeOK
<1>1. ServerInv => XdsTypeOK
  BY DEF ServerInv
<1> QED BY <1>1, ServerInvariant, PTL

\* The send in respond, made with cache.mu held, never blocks: no watch is
\* answered twice, however requests, snapshots and ends of streams interleave.
THEOREM RespondNeverBlocks == Spec => []OpenWatchIsEmpty
<1>1. ServerInv => OpenWatchIsEmpty
  BY DEF ServerInv, OwnerInv, OpenWatchIsEmpty
<1> QED BY <1>1, ServerInvariant, PTL

\* No watch outlives the request or the stream it was opened for.
THEOREM NoWatchLeaks == Spec => []WatchesAreOwned
<1>1. ServerInv => WatchesAreOwned
  <2> SUFFICES ASSUME XdsTypeOK, OwnerInv, NEW w \in watches
               PROVE  \E s \in Streams : /\ Live(s)
                                        /\ chan[s][w.req.type] = w.id
                                        /\ cancel[s][w.req.type] = w.id
    BY DEF ServerInv, WatchesAreOwned
  <2>1. w.id[1] \in Streams
    BY IdParts DEF XdsTypeOK, CacheTypeOK
  <2>2. /\ Live(w.id[1])
        /\ chan[w.id[1]][w.req.type] = w.id
        /\ cancel[w.id[1]][w.req.type] = w.id
    BY DEF OwnerInv
  <2> QED BY <2>1, <2>2
<1> QED BY <1>1, ServerInvariant, PTL
=============================================================================
