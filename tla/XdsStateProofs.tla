--------------------------- MODULE XdsStateProofs ---------------------------
(***************************************************************************)
(* Theorems about XdsState, for any names, contents, syncs and             *)
(* discoveries: its types, that what is published stays tracked, and that  *)
(* it implements SnapshotStore.                                            *)
(***************************************************************************)
EXTENDS XdsState, TLAPS

USE XdsAssumption

(* BuildOrder lists five different kinds.                                  *)
LEMMA BuildOrderFacts ==
  /\ DOMAIN BuildOrder = 1 .. 5
  /\ Len(BuildOrder) = 5
  /\ \A i \in 1 .. 5 : BuildOrder[i] \in Kinds
  /\ \A i, j \in 1 .. 5 : BuildOrder[i] = BuildOrder[j] => i = j
  /\ \A k \in Kinds : \E i \in 1 .. 5 : k = BuildOrder[i]
<1>1. DOMAIN BuildOrder = 1 .. 5 /\ Len(BuildOrder) = 5
  BY DEF BuildOrder
<1>2. \A i, j \in 1 .. 5 : BuildOrder[i] = BuildOrder[j] => i = j
  BY DEF BuildOrder
<1>3. QED
  BY <1>1, <1>2 DEF Kinds

-----------------------------------------------------------------------------
(* Types.                                                                  *)

LEMMA EmptyMapType == EmptyMap \in Map
BY DEF EmptyMap, Map

(* A transaction leaves maps, and replaces the table of its kind by the    *)
(* staged one if toDelete held all that was published.                     *)
LEMMA TransactEffect ==
  ASSUME TypeOK, NEW k \in Kinds, Transact(k)
  PROVE  /\ toDelete' \in [Kinds -> Map]
         /\ cache' \in [Kinds -> Map]
         /\ staged' = staged
         /\ \A j \in Kinds \ {k} : cache'[j] = cache[j] /\ toDelete'[j] = toDelete[j]
         /\ cache[k] = toDelete[k] => cache' = [cache EXCEPT ![k] = staged[k]]
<1>1. staged[k] \in Map /\ toDelete[k] \in Map /\ cache[k] \in Map
  BY DEF TypeOK
<1>2. Leftover(k) \in Map
  BY <1>1 DEF Leftover, Map
<1>3. UpdateResources(k, Leftover(k)) \in Map
  BY <1>1 DEF UpdateResources, Map
<1>4. ASSUME cache[k] = toDelete[k]
      PROVE  UpdateResources(k, Leftover(k)) = staged[k]
  <2>1. ASSUME NEW n \in Names
        PROVE  UpdateResources(k, Leftover(k))[n] = staged[k][n]
    BY <1>4, <2>1 DEF UpdateResources, Leftover
  <2> QED
    BY <1>1, <1>3, <2>1 DEF Map
<1> QED
  BY <1>2, <1>3, <1>4 DEF Transact, TypeOK

(* Reading a resource stages a value for its name, if it stages anything.  *)
LEMMA ReadEffect ==
  ASSUME TypeOK, ReadResource
  PROVE  /\ staged' \in [Kinds -> Map]
         /\ toRead' \in Seq(Resource)
         /\ sync = "read" /\ sync' \in {"read", "failed"}
<1> DEFINE r == Head(toRead)
<1>1. r \in Resource /\ Tail(toRead) \in Seq(Resource)
  BY DEF ReadResource, TypeOK
<1>2. CASE r.val = Malformed
  <2>1. toRead' = <<>> /\ staged' = staged /\ sync = "read" /\ sync' = "failed"
    BY <1>2 DEF ReadResource
  <2>2. <<>> \in Seq(Resource)
    OBVIOUS
  <2> QED
    BY <2>1, <2>2 DEF TypeOK
<1>3. CASE r.val # Malformed
  <2>1. /\ staged' = [staged EXCEPT ![r.kind][r.name] = Content(r)]
        /\ toRead' = Tail(toRead)
        /\ UNCHANGED sync /\ sync = "read"
    BY <1>3 DEF ReadResource
  <2>2. r.kind \in Kinds /\ r.name \in Names /\ r.val \in Vals
    BY <1>1, <1>3 DEF Resource
  <2>3. Content(r) \in Vals \cup {None}
    BY <2>2 DEF Content, TypeOK
  <2>4. [staged[r.kind] EXCEPT ![r.name] = Content(r)] \in Map
    BY <2>2, <2>3 DEF TypeOK, Map
  <2>5. staged' \in [Kinds -> Map]
    BY <2>1, <2>2, <2>4 DEF TypeOK
  <2> QED
    BY <1>1, <2>1, <2>5
<1> QED
  BY <1>2, <1>3

(* Setting endpoints keeps the entries of endpointsMap non-empty.          *)
LEMMA SetEffect ==
  ASSUME TypeOK, SetEndpoints
  PROVE  /\ endpointsMap' \in [Names -> (Vals \ {NoEndpoints}) \cup {None}]
         /\ toSet' \in Seq(Assignment)
<1> DEFINE a == Head(toSet)
<1>1. a \in Assignment /\ Tail(toSet) \in Seq(Assignment)
  BY DEF SetEndpoints, TypeOK
<1>2. a.cluster \in Names /\ a.endpoints \in Vals
  BY <1>1 DEF Assignment
<1>3. CASE a.endpoints = NoEndpoints
  <2>1. /\ endpointsMap' = [endpointsMap EXCEPT ![a.cluster] = None]
        /\ toSet' = <<>>
    BY <1>3 DEF SetEndpoints
  <2>2. <<>> \in Seq(Assignment)
    OBVIOUS
  <2> QED
    BY <1>2, <2>1, <2>2 DEF TypeOK
<1>4. CASE a.endpoints # NoEndpoints
  BY <1>1, <1>2, <1>4 DEF SetEndpoints, TypeOK
<1> QED
  BY <1>3, <1>4

LEMMA InitTypes == Init => TypeOK /\ ControlOK
<1> SUFFICES ASSUME Init PROVE TypeOK /\ ControlOK
  OBVIOUS
<1>1. /\ staged \in [Kinds -> Map]
      /\ toDelete \in [Kinds -> Map]
      /\ cache \in [Kinds -> Map]
  BY EmptyMapType DEF Init
<1>2. endpointsMap \in [Names -> (Vals \ {NoEndpoints}) \cup {None}]
  BY DEF Init, EmptyMap
<1>3. toRead \in Seq(Resource) /\ toSet \in Seq(Assignment)
  BY DEF Init
<1>4. step \in 0 .. Len(BuildOrder) + 1
  BY BuildOrderFacts DEF Init
<1>5. TypeOK
  BY <1>1, <1>2, <1>3, <1>4 DEF Init, TypeOK
<1> QED
  BY <1>5 DEF Init, ControlOK

LEMMA NextTypes == TypeOK /\ ControlOK /\ [Next]_vars => TypeOK' /\ ControlOK'
<1> SUFFICES ASSUME TypeOK, ControlOK, [Next]_vars PROVE TypeOK' /\ ControlOK'
  OBVIOUS
<1> USE BuildOrderFacts
<1>1. ASSUME NEW input \in Inputs, StartSync(input)
      PROVE  TypeOK' /\ ControlOK'
  BY <1>1 DEF StartSync, mapVars, discoveryVars, TypeOK, ControlOK
<1>2. CASE ReadResource
  BY <1>2, ReadEffect DEF ReadResource, discoveryVars, TypeOK, ControlOK
<1>3. CASE ReadRaces
  BY <1>3 DEF ReadRaces, mapVars, syncVars, discoveryVars, TypeOK, ControlOK
<1>4. CASE BuildLock
  BY <1>4 DEF BuildLock, mapVars, discoveryVars, TypeOK, ControlOK
<1>5. CASE TransactNext
  <2>1. step \in 1 .. 5 /\ BuildOrder[step] \in Kinds /\ Transact(BuildOrder[step])
    BY <1>5 DEF TransactNext, ControlOK
  <2> QED
    BY <1>5, <2>1, TransactEffect DEF TransactNext, discoveryVars, TypeOK, ControlOK
<1>6. CASE TransactFails
  <2>1. step \in 1 .. 5 /\ BuildOrder[step] \in Kinds /\ Transact(BuildOrder[step])
    BY <1>6 DEF TransactFails, ControlOK
  <2> QED
    BY <1>6, <2>1, TransactEffect DEF TransactFails, discoveryVars, TypeOK, ControlOK
<1>7. CASE Rotate
  <2>1. staged' \in [Kinds -> Map] /\ toDelete' \in [Kinds -> Map]
    BY <1>7, EmptyMapType DEF Rotate, TypeOK
  <2> QED
    BY <1>7, <2>1 DEF Rotate, discoveryVars, TypeOK, ControlOK
<1>8. CASE SendUpdate
  BY <1>8 DEF SendUpdate, mapVars, discoveryVars, TypeOK, ControlOK
<1>9. CASE BuildUnlock
  BY <1>9 DEF BuildUnlock, mapVars, discoveryVars, TypeOK, ControlOK
<1>10. CASE StopListening
  BY <1>10 DEF StopListening, mapVars, syncVars, discoveryVars, TypeOK, ControlOK
<1>11. ASSUME NEW assignments \in Discoveries,
              CallSetClusterEndpoints(assignments)
       PROVE  TypeOK' /\ ControlOK'
  BY <1>11 DEF CallSetClusterEndpoints, mapVars, syncVars, TypeOK, ControlOK
<1>12. CASE DiscoveryLock
  BY <1>12 DEF DiscoveryLock, mapVars, syncVars, TypeOK, ControlOK
<1>13. CASE SetEndpoints
  BY <1>13, SetEffect DEF SetEndpoints, mapVars, syncVars, TypeOK, ControlOK
<1>14. CASE DiscoveryUnlock
  BY <1>14 DEF DiscoveryUnlock, mapVars, syncVars, TypeOK, ControlOK
<1>15. CASE UNCHANGED vars
  BY <1>15 DEF vars, TypeOK, ControlOK
<1> QED
  BY <1>1, <1>2, <1>3, <1>4, <1>5, <1>6, <1>7, <1>8, <1>9, <1>10, <1>11,
     <1>12, <1>13, <1>14, <1>15
  DEF Next, SyncNext, DiscoveryNext, Halted

(* Every state has the types of TypeOK: the staged, published and deleted  *)
(* resources are maps, and no entry of endpointsMap is empty, however      *)
(* reads, Builds and SetClusterEndpoints interleave.                       *)
THEOREM TypeCorrect == Spec => []TypeOK
<1>1. Spec => [](TypeOK /\ ControlOK)
  BY InitTypes, NextTypes, PTL DEF Spec
<1> QED
  BY <1>1, PTL

-----------------------------------------------------------------------------
(* What is published stays tracked.                                        *)

(* Before it transacts a kind, Build finds it published as it left it.     *)
LEMMA NextKindIsTracked ==
  ASSUME Inv, sync = "transact"
  PROVE  /\ step \in 1 .. 5
         /\ BuildOrder[step] \in Kinds
         /\ cache[BuildOrder[step]] = toDelete[BuildOrder[step]]
<1>1. step \in 1 .. 5
  BY BuildOrderFacts DEF Inv, ControlOK
<1> QED
  BY <1>1, BuildOrderFacts DEF Inv, ReplacedSoFar, Building

(* Once the five kinds are transacted, all that is staged is published.    *)
LEMMA RotatedIsPublished ==
  ASSUME Inv, sync = "rotate"
  PROVE  cache = staged
<1>1. step = 6
  BY BuildOrderFacts DEF Inv, ControlOK
<1>2. ASSUME NEW k \in Kinds
      PROVE  cache[k] = staged[k]
  <2>1. PICK i \in 1 .. 5 : k = BuildOrder[i]
    BY <1>2, BuildOrderFacts
  <2> QED
    BY <1>1, <2>1, BuildOrderFacts DEF Inv, ReplacedSoFar, Building
<1>3. cache \in [Kinds -> Map] /\ staged \in [Kinds -> Map]
  BY DEF Inv, TypeOK
<1> QED
  BY <1>2, <1>3

LEMMA InitInv == Init => Inv
<1> SUFFICES ASSUME Init PROVE Inv
  OBVIOUS
<1> QED
  BY InitTypes DEF Init, Inv, ReplacedSoFar, PublishedIsTracked, Building

LEMMA NextInv == Inv /\ [Next]_vars => Inv'
<1> SUFFICES ASSUME Inv, [Next]_vars PROVE Inv'
  OBVIOUS
<1>1. TypeOK' /\ ControlOK'
  BY NextTypes DEF Inv
<1> SUFFICES ReplacedSoFar' /\ PublishedIsTracked'
  BY <1>1 DEF Inv
<1>2. ASSUME NEW input \in Inputs, StartSync(input)
      PROVE  ReplacedSoFar' /\ PublishedIsTracked'
  BY <1>2 DEF StartSync, mapVars, Inv, Building, ReplacedSoFar, PublishedIsTracked
<1>3. CASE ReadResource
  <2>1. sync = "read" /\ sync' \in {"read", "failed"} /\ UNCHANGED <<toDelete, cache>>
    BY <1>3, ReadEffect DEF ReadResource, Inv
  <2> QED
    BY <2>1 DEF Inv, Building, ReplacedSoFar, PublishedIsTracked
<1>4. CASE BuildLock
  <2>1. /\ sync = "read" /\ sync' = "transact" /\ step' = 1
        /\ UNCHANGED <<staged, toDelete, cache>>
    BY <1>4 DEF BuildLock, mapVars
  <2> QED
    BY <2>1, BuildOrderFacts DEF Inv, Building, ReplacedSoFar, PublishedIsTracked
<1>5. CASE TransactNext
  <2> DEFINE k == BuildOrder[step]
  <2>1. step \in 1 .. 5 /\ k \in Kinds /\ cache[k] = toDelete[k]
    BY <1>5, NextKindIsTracked DEF TransactNext
  <2>2. /\ staged' = staged
        /\ cache' = [cache EXCEPT ![k] = staged[k]]
        /\ \A j \in Kinds \ {k} : toDelete'[j] = toDelete[j]
    BY <1>5, <2>1, TransactEffect DEF TransactNext, Inv
  <2>3. sync = "transact" /\ sync' \in {"transact", "rotate"} /\ step' = step + 1
    BY <1>5 DEF TransactNext
  <2>4. ASSUME NEW i \in 1 .. 5
        PROVE  cache'[BuildOrder[i]] =
                 IF i < step' THEN staged'[BuildOrder[i]] ELSE toDelete'[BuildOrder[i]]
    <3>1. cache \in [Kinds -> Map] /\ BuildOrder[i] \in Kinds
      BY <2>4, BuildOrderFacts DEF Inv, TypeOK
    <3>2. cache[BuildOrder[i]] =
            IF i < step THEN staged[BuildOrder[i]] ELSE toDelete[BuildOrder[i]]
      BY <2>3, <2>4, BuildOrderFacts DEF Inv, ReplacedSoFar, Building
    <3>3. CASE i = step
      BY <3>3, <2>1, <2>2, <2>3, <3>1
    <3>4. CASE i # step
      <4>1. BuildOrder[i] # k
        BY <2>1, <2>4, <3>4, BuildOrderFacts
      <4> QED
        BY <2>1, <2>2, <2>3, <2>4, <3>1, <3>2, <3>4, <4>1
    <3> QED
      BY <3>3, <3>4
  <2> QED
    BY <2>3, <2>4, BuildOrderFacts DEF Building, ReplacedSoFar, PublishedIsTracked
<1>6. CASE TransactFails
  BY <1>6 DEF TransactFails, Building, ReplacedSoFar, PublishedIsTracked
<1>7. CASE Rotate
  BY <1>7, RotatedIsPublished DEF Rotate, Building, ReplacedSoFar, PublishedIsTracked
<1>8. CASE /\ UNCHANGED <<staged, toDelete, cache, step>>
           /\ UNCHANGED sync \/ sync \in {"send", "unlock"}
           /\ sync' \in {"unlock", "idle"} \/ UNCHANGED sync
  BY <1>8 DEF Inv, Building, ReplacedSoFar, PublishedIsTracked
<1>9. \/ \E input \in Inputs : StartSync(input)
      \/ ReadResource \/ BuildLock \/ TransactNext \/ TransactFails \/ Rotate
      \/ /\ UNCHANGED <<staged, toDelete, cache, step>>
         /\ UNCHANGED sync \/ sync \in {"send", "unlock"}
         /\ sync' \in {"unlock", "idle"} \/ UNCHANGED sync
  BY DEF Next, SyncNext, DiscoveryNext, ReadRaces, SendUpdate, BuildUnlock,
         StopListening, CallSetClusterEndpoints, DiscoveryLock, SetEndpoints,
         DiscoveryUnlock, Halted, vars, mapVars, syncVars
<1> QED
  BY <1>2, <1>3, <1>4, <1>5, <1>6, <1>7, <1>8, <1>9

LEMMA InvHolds == Spec => []Inv
BY InitInv, NextInv, PTL DEF Spec

(* Outside a Build the toDelete maps hold exactly what the caches publish, *)
(* so no published resource is ever lost track of (xds.go:162-227).        *)
THEOREM Tracked == Spec => []PublishedIsTracked
<1>1. Inv => PublishedIsTracked
  BY DEF Inv
<1> QED
  BY <1>1, InvHolds, PTL

-----------------------------------------------------------------------------
(* Routes resolve, if what each sync reads is self-contained.              *)

LEMMA RoutingKindsFacts ==
  /\ "cluster" \in Kinds /\ BuildOrder[1] = "cluster"
  /\ \A i \in 1 .. 5 : BuildOrder[i] = "cluster" => i = 1
  /\ \A k \in RoutingKinds :
       k \in Kinds /\ k # "cluster" /\ k # "clusterLoadAssignment"
<1>1. BuildOrder[1] = "cluster"
  BY DEF BuildOrder
<1> QED
  BY <1>1, BuildOrderFacts DEF RoutingKinds

(* A cluster stays provided when it, or another resource, is staged.       *)
LEMMA ReadKeepsResolving ==
  ASSUME TypeOK, StagedResolves, ReadResource
  PROVE  StagedResolves'
<1> DEFINE r == Head(toRead)
           rest == Tail(toRead)
<1>1. sync = "read" /\ toRead # <<>> /\ toRead \in Seq(Resource)
  BY DEF ReadResource, TypeOK
<1>2. CASE r.val = Malformed
  BY <1>2 DEF ReadResource, StagedResolves
<1>3. CASE r.val # Malformed
  <2>1. /\ staged' = [staged EXCEPT ![r.kind][r.name] = Content(r)]
        /\ toRead' = rest /\ sync' = "read"
    BY <1>1, <1>3 DEF ReadResource
  <2>2. /\ r \in Resource /\ r = toRead[1] /\ 1 \in DOMAIN toRead
        /\ rest \in Seq(Resource)
        /\ \A j \in DOMAIN rest : j + 1 \in DOMAIN toRead /\ rest[j] = toRead[j + 1]
        /\ \A j \in DOMAIN toRead : j = 1 \/ (j - 1 \in DOMAIN rest /\ toRead[j] = rest[j - 1])
    BY <1>1
  <2>3. r.kind \in Kinds /\ r.name \in Names /\ r.val \in Vals
    BY <2>2, <1>3 DEF Resource
  <2>4. Content(r) # None /\ (r.kind # "clusterLoadAssignment" => Content(r) = r.val)
    BY <2>3 DEF Content
  <2>5. ASSUME NEW k \in Kinds, NEW n \in Names
        PROVE  staged'[k][n] = IF k = r.kind /\ n = r.name THEN Content(r)
                               ELSE staged[k][n]
    <3>1. staged \in [Kinds -> [Names -> Vals \cup {None}]]
      BY DEF TypeOK, Map
    <3> QED
      BY <2>1, <2>3, <3>1
  <2>6. ASSUME NEW c \in Names, Provided(c)
        PROVE  Provided(c)'
    <3>1. CASE staged["cluster"][c] # None
      BY <3>1, <2>4, <2>5, RoutingKindsFacts DEF Provided
    <3>2. ASSUME NEW j \in DOMAIN toRead,
                 toRead[j].kind = "cluster", toRead[j].name = c
          PROVE  Provided(c)'
      <4>1. CASE j = 1
        BY <3>2, <4>1, <2>2, <2>4, <2>5, RoutingKindsFacts DEF Provided
      <4>2. CASE j # 1
        BY <3>2, <4>2, <2>1, <2>2 DEF Provided
      <4> QED
        BY <4>1, <4>2
    <3> QED
      BY <2>6, <3>1, <3>2 DEF Provided
  <2>7. ASSUME NEW k \in RoutingKinds, NEW n \in Names, staged'[k][n] # None,
               NEW c \in Refs[staged'[k][n]]
        PROVE  Provided(c)'
    <3>1. k \in Kinds /\ k # "clusterLoadAssignment"
      BY RoutingKindsFacts
    <3>2. CASE k = r.kind /\ n = r.name
      <4>1. staged'[k][n] = r.val
        BY <3>1, <3>2, <2>4, <2>5
      <4>2. c \in Names /\ Provided(c)
        BY <1>1, <1>3, <2>2, <2>3, <2>7, <3>2, <4>1 DEF StagedResolves
      <4> QED
        BY <4>2, <2>6
    <3>3. CASE ~(k = r.kind /\ n = r.name)
      <4>1. staged'[k][n] = staged[k][n]
        BY <3>1, <3>3, <2>5
      <4>2. staged[k][n] \in Vals
        BY <2>7, <3>1, <4>1 DEF TypeOK, Map
      <4>3. c \in Names /\ Provided(c)
        BY <1>1, <2>7, <4>1, <4>2 DEF StagedResolves
      <4> QED
        BY <4>3, <2>6
    <3> QED
      BY <3>2, <3>3
  <2>8. ASSUME NEW i \in DOMAIN rest, rest[i].kind \in RoutingKinds,
               rest[i].val # Malformed, NEW c \in Refs[rest[i].val]
        PROVE  Provided(c)'
    <3>1. i + 1 \in DOMAIN toRead /\ rest[i] = toRead[i + 1]
      BY <2>2
    <3>2. rest[i].val \in Vals
      <4>1. rest[i] \in Resource
        BY <2>2
      <4> QED
        BY <2>8, <4>1 DEF Resource
    <3>3. c \in Names /\ Provided(c)
      BY <1>1, <2>8, <3>1, <3>2 DEF StagedResolves
    <3> QED
      BY <3>3, <2>6
  <2> QED
    BY <2>1, <2>7, <2>8 DEF StagedResolves
<1> QED
  BY <1>2, <1>3

(* What the caches route to is in them, but for withdrawals, as long as    *)
(* the clusters are brought up to date first.                              *)
LEMMA TransactKeepsResolving ==
  ASSUME Inv, StagedResolves, RoutesResolve,
         sync = "transact", Transact(BuildOrder[step]), step' = step + 1
  PROVE  RoutesResolve'
<1> USE RoutingKindsFacts
<1>1. SUFFICES ASSUME ~WithdrawingCluster', NEW k \in RoutingKinds, NEW n \in Names,
                      cache'[k][n] # None, NEW c \in Refs[cache'[k][n]]
               PROVE  cache'["cluster"][c] # None
  BY DEF RoutesResolve
<1> DEFINE t == BuildOrder[step]
<1>2. step \in 1 .. 5 /\ t \in Kinds /\ cache[t] = toDelete[t]
  BY NextKindIsTracked
<1>3. /\ cache' = [cache EXCEPT ![t] = staged[t]]
      /\ toDelete' = [toDelete EXCEPT ![t] = Leftover(t)]
  BY <1>2, TransactEffect DEF Inv, Transact
<1>4. /\ cache \in [Kinds -> Map] /\ staged \in [Kinds -> Map]
      /\ toDelete \in [Kinds -> Map]
  BY DEF Inv, TypeOK
<1>5. cache'[k][n] \in Vals /\ c \in Names
  <2>1. cache'[k][n] \in Vals
    BY <1>1, <1>2, <1>3, <1>4 DEF Map
  <2> QED
    BY <1>1, <2>1
<1>6. \A m \in Names : toDelete'["cluster"][m] = None
  BY <1>1, <1>2 DEF WithdrawingCluster
<1>7. toRead = <<>>
  BY DEF StagedResolves
<1>8. CASE step = 1
  <2>1. /\ t = "cluster" /\ cache'[k] = cache[k]
        /\ cache'["cluster"] = staged["cluster"]
        /\ toDelete'["cluster"] = Leftover("cluster")
    BY <1>3, <1>4, <1>8
  <2>2. ~WithdrawingCluster
    BY <1>8 DEF WithdrawingCluster
  <2>3. cache["cluster"][c] # None
    BY <1>1, <2>1, <2>2 DEF RoutesResolve
  <2>4. toDelete["cluster"][c] # None
    BY <1>2, <2>1, <2>3
  <2>5. staged["cluster"][c] # None
    BY <1>5, <1>6, <2>1, <2>4 DEF Leftover
  <2> QED
    BY <2>1, <2>5
<1>9. CASE step # 1
  <2>1. t # "cluster"
    BY <1>2, <1>9
  <2>2. /\ toDelete'["cluster"] = toDelete["cluster"]
        /\ cache'["cluster"] = cache["cluster"]
    BY <1>3, <1>4, <2>1
  <2>3. cache["cluster"] = staged["cluster"]
    BY <1>2, <1>9, BuildOrderFacts DEF Inv, ReplacedSoFar, Building
  <2>4. CASE k = t
    <3>1. cache'[k] = staged[k]
      BY <1>2, <1>3, <1>4, <2>4
    <3>2. staged["cluster"][c] # None
      BY <1>1, <1>7, <3>1 DEF StagedResolves, Provided
    <3> QED
      BY <2>2, <2>3, <3>2
  <2>5. CASE k # t
    <3>1. cache'[k] = cache[k]
      BY <1>3, <1>4, <2>5
    <3>2. ~WithdrawingCluster
      BY <1>6, <2>2 DEF WithdrawingCluster
    <3>3. cache["cluster"][c] # None
      BY <1>1, <3>1, <3>2 DEF RoutesResolve
    <3> QED
      BY <2>2, <3>3
  <2> QED
    BY <2>4, <2>5
<1> QED
  BY <1>8, <1>9

LEMMA InitResolves == Init => StagedResolves /\ RoutesResolve
<1> SUFFICES ASSUME Init PROVE StagedResolves /\ RoutesResolve
  OBVIOUS
<1>1. \A k \in RoutingKinds, n \in Names : staged[k][n] = None /\ cache[k][n] = None
  BY RoutingKindsFacts DEF Init, EmptyMap
<1> QED
  BY <1>1 DEF Init, StagedResolves, RoutesResolve

LEMMA NextResolves ==
  ASSUME \A input \in Inputs : SelfContained(input),
         Inv, StagedResolves, RoutesResolve, [Next]_vars
  PROVE  StagedResolves' /\ RoutesResolve'
<1>1. ASSUME NEW input \in Inputs, StartSync(input)
      PROVE  StagedResolves' /\ RoutesResolve'
  <2>1. /\ sync = "idle" /\ sync' = "read" /\ toRead = <<>> /\ toRead' = input
        /\ UNCHANGED <<staged, toDelete, cache, step>>
    BY <1>1 DEF StartSync, mapVars, StagedResolves
  <2>2. ASSUME NEW k \in RoutingKinds, NEW n \in Names, staged'[k][n] # None,
               NEW c \in Refs[staged'[k][n]]
        PROVE  Provided(c)'
    BY <2>1, <2>2 DEF StagedResolves, Provided
  <2>3. ASSUME NEW i \in DOMAIN input, input[i].kind \in RoutingKinds,
               input[i].val # Malformed, NEW c \in Refs[input[i].val]
        PROVE  Provided(c)'
    <3>1. PICK j \in DOMAIN input : input[j].kind = "cluster" /\ input[j].name = c
      BY <2>3 DEF SelfContained
    <3> QED
      BY <2>1, <3>1 DEF Provided
  <2>4. StagedResolves'
    BY <2>1, <2>2, <2>3 DEF StagedResolves
  <2> QED
    BY <2>1, <2>4 DEF RoutesResolve, WithdrawingCluster
<1>2. CASE ReadResource
  <2>1. StagedResolves' /\ UNCHANGED <<toDelete, cache, step>>
    BY <1>2, ReadKeepsResolving DEF ReadResource, Inv
  <2> QED
    BY <2>1 DEF RoutesResolve, WithdrawingCluster
<1>3. CASE BuildLock
  <2>1. /\ sync = "read" /\ sync' = "transact" /\ toRead = <<>> /\ step' = 1
        /\ UNCHANGED <<staged, toDelete, cache, toRead>> /\ step = 0
    BY <1>3 DEF BuildLock, mapVars, Inv, ControlOK
  <2>2. StagedResolves'
    BY <2>1 DEF StagedResolves, Provided
  <2> QED
    BY <2>1, <2>2 DEF RoutesResolve, WithdrawingCluster
<1>4. CASE TransactNext \/ TransactFails
  <2>1. /\ sync = "transact" /\ sync' \in {"transact", "rotate", "failed"}
        /\ Transact(BuildOrder[step]) /\ step' = step + 1
        /\ UNCHANGED <<staged, toRead>>
    BY <1>4 DEF TransactNext, TransactFails, Transact
  <2>2. StagedResolves'
    BY <2>1 DEF StagedResolves, Provided
  <2> QED
    BY <2>1, <2>2, TransactKeepsResolving
<1>5. CASE Rotate
  <2>1. /\ sync = "rotate" /\ sync' = "send" /\ cache = staged /\ toRead = <<>>
        /\ staged' = [k \in Kinds |-> EmptyMap] /\ step' = 0
        /\ UNCHANGED <<cache, toRead>>
    BY <1>5, RotatedIsPublished DEF Rotate, StagedResolves
  <2>2. \A k \in RoutingKinds, n \in Names : staged'[k][n] = None
    BY <2>1, RoutingKindsFacts DEF EmptyMap
  <2>3. StagedResolves'
    BY <2>1, <2>2 DEF StagedResolves
  <2>4. RoutesResolve'
    BY <2>1 DEF RoutesResolve, StagedResolves, Provided
  <2> QED
    BY <2>3, <2>4
<1>6. CASE /\ UNCHANGED <<staged, toDelete, cache, step, toRead>>
           /\ UNCHANGED sync \/ {sync, sync'} \subseteq {"idle", "send", "unlock"}
  BY <1>6 DEF StagedResolves, Provided, RoutesResolve, WithdrawingCluster
<1>7. \/ \E input \in Inputs : StartSync(input)
      \/ ReadResource \/ BuildLock \/ TransactNext \/ TransactFails \/ Rotate
      \/ /\ UNCHANGED <<staged, toDelete, cache, step, toRead>>
         /\ UNCHANGED sync \/ {sync, sync'} \subseteq {"idle", "send", "unlock"}
  BY DEF Next, SyncNext, DiscoveryNext, ReadRaces, SendUpdate, BuildUnlock,
         StopListening, CallSetClusterEndpoints, DiscoveryLock, SetEndpoints,
         DiscoveryUnlock, Halted, vars, mapVars, syncVars
<1> QED
  BY <1>1, <1>2, <1>3, <1>4, <1>5, <1>6, <1>7

(* xds.go:186-209.  If each sync reads the clusters that its routes name,  *)
(* in any order, then whatever Envoy reads between two transactions routes *)
(* to clusters it can read too, a Build that fails half way included,      *)
(* unless that Build is withdrawing a cluster.                             *)
THEOREM RoutesAlwaysResolve ==
  ASSUME \A input \in Inputs : SelfContained(input)
  PROVE  Spec => []RoutesResolve
<1>1. Init => StagedResolves /\ RoutesResolve
  BY InitResolves
<1>2. Inv /\ StagedResolves /\ RoutesResolve /\ [Next]_vars
        => StagedResolves' /\ RoutesResolve'
  BY NextResolves
<1> QED
  BY <1>1, <1>2, InvHolds, PTL DEF Spec

-----------------------------------------------------------------------------
(* Refinement.                                                             *)

LEMMA StoreKinds == Store!OrderedKinds = Kinds
BY DEF Store!OrderedKinds, Kinds

LEMMA InitRefines == Init => Store!Init
BY StoreKinds DEF Init, Store!Init, Store!NoRound, Building

LEMMA NextRefines == Inv /\ [Next]_vars => [Store!Next]_(Store!storeVars)
<1> SUFFICES ASSUME Inv, [Next]_vars PROVE [Store!Next]_(Store!storeVars)
  OBVIOUS
<1> USE DEF Store!storeVars, Store!Next, Store!NoRound, Store!AllReplaced,
            Store!GivenUp
<1>1. CASE ReadResource
  <2>1. sync = "read" /\ sync' \in {"read", "failed"} /\ UNCHANGED cache
    BY <1>1, ReadEffect DEF ReadResource, Inv
  <2> QED
    BY <2>1, BuildOrderFacts DEF Building, Store!GiveUp
<1>2. CASE BuildLock
  <2>1. /\ sync = "read" /\ sync' = "transact" /\ step' = 1
        /\ UNCHANGED <<staged, cache>> /\ staged \in [Kinds -> Map]
    BY <1>2 DEF BuildLock, mapVars, Inv, TypeOK
  <2> QED
    BY <2>1, StoreKinds DEF Building, Store!Begin
<1>3. CASE TransactNext
  <2>1. /\ sync = "transact" /\ sync' \in {"transact", "rotate"}
        /\ step' = step + 1 /\ staged' = staged
        /\ step \in DOMAIN BuildOrder
        /\ cache' = [cache EXCEPT ![BuildOrder[step]] = staged[BuildOrder[step]]]
    BY <1>3, NextKindIsTracked, TransactEffect, BuildOrderFacts DEF TransactNext, Inv
  <2> QED
    BY <2>1 DEF Building, Store!Replace, Store!ReplaceNext
<1>4. CASE TransactFails
  <2>1. /\ sync = "transact" /\ sync' = "failed"
        /\ step \in DOMAIN BuildOrder
        /\ cache' = [cache EXCEPT ![BuildOrder[step]] = staged[BuildOrder[step]]]
    BY <1>4, NextKindIsTracked, TransactEffect, BuildOrderFacts DEF TransactFails, Inv
  <2> QED
    BY <2>1 DEF Building, Store!ReplaceAndGiveUp, Store!ReplaceNext
<1>5. CASE Rotate
  <2>1. /\ sync = "rotate" /\ sync' = "send" /\ step = Len(BuildOrder) + 1
        /\ cache = staged /\ cache' = cache
    BY <1>5, RotatedIsPublished DEF Rotate, Inv, ControlOK
  <2> QED
    BY <2>1 DEF Building, Store!End
<1>6. CASE /\ UNCHANGED <<cache, staged, step>>
           /\ \/ UNCHANGED sync
              \/ {sync, sync'} \subseteq {"idle", "read", "send", "unlock"}
  BY <1>6 DEF Building
<1>7. \/ ReadResource \/ BuildLock \/ TransactNext \/ TransactFails \/ Rotate
      \/ /\ UNCHANGED <<cache, staged, step>>
         /\ \/ UNCHANGED sync
            \/ {sync, sync'} \subseteq {"idle", "read", "send", "unlock"}
  BY DEF Next, SyncNext, DiscoveryNext, StartSync, ReadRaces, SendUpdate,
         BuildUnlock, StopListening, CallSetClusterEndpoints, DiscoveryLock,
         SetEndpoints, DiscoveryUnlock, Halted, vars, mapVars, syncVars
<1> QED
  BY <1>1, <1>2, <1>3, <1>4, <1>5, <1>6, <1>7

(* Reads, Builds that fail half way and discoveries included, the xDS      *)
(* state replaces its five caches whole, one after the other in the build  *)
(* order, by what one sync read (xds.go:80-227).                           *)
THEOREM Refinement == Spec => ImplementsSnapshotStore
<1>1. Spec => Store!Init /\ [][Store!Next]_(Store!storeVars)
  BY InitRefines, NextRefines, InvHolds, PTL DEF Spec
<1> QED
  BY <1>1, PTL DEF ImplementsSnapshotStore, Store!Spec

-----------------------------------------------------------------------------
(* How long a call takes.                                                  *)

(* The steps that a sync has still to take, at most: the resources it has  *)
(* to read, the lock, a transaction for each kind, and three more.         *)
SyncLeft ==
  CASE sync = "read" -> Len(toRead) + Len(BuildOrder) + 4
    [] sync = "transact" -> Len(BuildOrder) + 4 - step
    [] sync = "rotate" -> 3
    [] sync = "send" -> 2
    [] sync = "unlock" -> 1
    [] sync \in {"idle", "failed"} -> 0

(* Those of SetClusterEndpoints: the lock, the assignments, the return.    *)
SetLeft ==
  CASE discovery = "waiting" -> Len(toSet) + 2
    [] discovery = "holding" -> Len(toSet) + 1
    [] discovery = "idle" -> 0

(* xds.go:80-245.  Whatever the others do, a sync and a call of            *)
(* SetClusterEndpoints that have begun only ever come closer to their ends.*)
CallsShrink ==
  /\ sync # "idle" => UNCHANGED syncVars \/ SyncLeft' < SyncLeft
  /\ discovery # "idle" => UNCHANGED <<discovery, toSet>> \/ SetLeft' < SetLeft

(* xds.go:186-245.  Who waits for rwLock waits for somebody who is between *)
(* taking it and giving it back, and not for itself, nor for a Build that  *)
(* has failed.                                                             *)
LockIsInUse ==
  /\ sync = "read" /\ rwLock # "free" => discovery = "holding"
  /\ discovery = "waiting" /\ rwLock # "free"
     => sync \in {"transact", "rotate", "send", "unlock"}

LEMMA LengthShrinks ==
  ASSUME NEW S, NEW s \in Seq(S), s # <<>>
  PROVE  Len(s) \in Nat /\ Len(s) > 0 /\ Len(Tail(s)) = Len(s) - 1
OBVIOUS

LEMMA SyncsShrink ==
  ASSUME TypeOK, ControlOK, SyncNext
  PROVE  CallsShrink
<1> SUFFICES sync # "idle" => UNCHANGED syncVars \/ SyncLeft' < SyncLeft
  BY DEF SyncNext, StartSync, ReadResource, ReadRaces, BuildLock, TransactNext,
         TransactFails, Rotate, SendUpdate, BuildUnlock, discoveryVars, CallsShrink
<1>1. Len(toRead) \in Nat /\ step \in 0 .. 6
  BY BuildOrderFacts DEF TypeOK
<1>2. CASE ReadResource
  <2>1. toRead \in Seq(Resource) /\ toRead # <<>> /\ sync = "read"
    BY <1>2 DEF ReadResource, TypeOK
  <2>2. SyncLeft = Len(toRead) + 9 /\ Len(Tail(toRead)) = Len(toRead) - 1
    BY <2>1, LengthShrinks, BuildOrderFacts DEF SyncLeft
  <2>3. CASE toRead' = Tail(toRead) /\ sync' = "read"
    <3>1. SyncLeft' = Len(Tail(toRead)) + 9
      BY <2>3, BuildOrderFacts DEF SyncLeft
    <3>2. SyncLeft' < SyncLeft
      BY <1>1, <2>2, <3>1
    <3> QED
      BY <3>2
  <2>4. CASE sync' = "failed"
    <3>1. SyncLeft' = 0
      BY <2>4 DEF SyncLeft
    <3>2. SyncLeft' < SyncLeft
      BY <1>1, <2>2, <3>1
    <3> QED
      BY <3>2
  <2> QED
    BY <1>2, <2>1, <2>3, <2>4 DEF ReadResource
<1>3. CASE BuildLock
  BY <1>1, <1>3, BuildOrderFacts DEF BuildLock, SyncLeft
<1>4. CASE TransactNext
  <2>1. sync = "transact" /\ step \in 1 .. 5 /\ step' = step + 1
    BY <1>4, BuildOrderFacts DEF TransactNext, ControlOK
  <2>2. sync' = IF step = 5 THEN "rotate" ELSE "transact"
    BY <1>4, BuildOrderFacts DEF TransactNext
  <2> QED
    BY <2>1, <2>2, BuildOrderFacts DEF SyncLeft
<1>5. CASE TransactFails
  <2>1. sync = "transact" /\ step \in 1 .. 5 /\ sync' = "failed"
    BY <1>5, BuildOrderFacts DEF TransactFails, ControlOK
  <2> QED
    BY <2>1, BuildOrderFacts DEF SyncLeft
<1>6. CASE Rotate \/ SendUpdate \/ BuildUnlock
  BY <1>6 DEF Rotate, SendUpdate, BuildUnlock, SyncLeft
<1>7. CASE ReadRaces \/ sync = "idle"
  BY <1>7 DEF ReadRaces
<1> QED
  BY <1>2, <1>3, <1>4, <1>5, <1>6, <1>7 DEF SyncNext, StartSync

LEMMA DiscoveriesShrink ==
  ASSUME TypeOK, DiscoveryNext
  PROVE  CallsShrink
<1> SUFFICES discovery # "idle" => UNCHANGED <<discovery, toSet>> \/ SetLeft' < SetLeft
  BY DEF DiscoveryNext, CallSetClusterEndpoints, DiscoveryLock, SetEndpoints,
         DiscoveryUnlock, syncVars, CallsShrink
<1>1. Len(toSet) \in Nat
  BY DEF TypeOK
<1>2. CASE DiscoveryLock
  BY <1>1, <1>2 DEF DiscoveryLock, SetLeft
<1>3. CASE SetEndpoints
  <2>1. toSet \in Seq(Assignment) /\ toSet # <<>> /\ discovery = "holding"
    BY <1>3 DEF SetEndpoints, TypeOK
  <2>2. discovery' = "holding" /\ (toSet' = <<>> \/ toSet' = Tail(toSet))
    BY <1>3, <2>1 DEF SetEndpoints
  <2>3. Len(toSet') < Len(toSet) /\ Len(toSet') \in Nat
    BY <2>1, <2>2, LengthShrinks
  <2> QED
    BY <1>1, <2>1, <2>2, <2>3 DEF SetLeft
<1>4. CASE DiscoveryUnlock
  BY <1>1, <1>4 DEF DiscoveryUnlock, SetLeft
<1> QED
  BY <1>2, <1>3, <1>4 DEF DiscoveryNext, CallSetClusterEndpoints

(* A sync of n resources takes no more than n + 9 steps and a call of      *)
(* SetClusterEndpoints for n clusters no more than n + 2, whether they     *)
(* succeed or fail, and each waits for the other only while that holds the *)
(* lock: what SyncTerminates and DiscoveryServed need besides that the     *)
(* goroutines are scheduled and the loop listens.                          *)
THEOREM CallsAreFinite == Spec => [][CallsShrink]_vars /\ []LockIsInUse
<1>1. TypeOK /\ ControlOK /\ [Next]_vars => [CallsShrink]_vars
  <2>1. ASSUME TypeOK, ControlOK, SyncNext \/ DiscoveryNext
        PROVE  CallsShrink
    BY <2>1, SyncsShrink, DiscoveriesShrink
  <2>2. ASSUME StopListening
        PROVE  CallsShrink
    BY <2>2 DEF StopListening, syncVars, discoveryVars, CallsShrink
  <2> QED
    BY <2>1, <2>2 DEF Next, Halted
<1>2. TypeOK /\ ControlOK => LockIsInUse
  BY DEF TypeOK, ControlOK, LockIsInUse
<1> QED
  BY <1>1, <1>2, InitTypes, NextTypes, PTL DEF Spec
=============================================================================
