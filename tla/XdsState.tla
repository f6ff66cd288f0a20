------------------------------ MODULE XdsState ------------------------------
(***************************************************************************)
(* The xDS state of the control plane, src/pkg/state/xds.go.               *)
(*                                                                         *)
(* Three goroutines meet here.  The synchroniser (one goroutine of         *)
(* state.periodicSync at a time) reads the resources of the polled         *)
(* Terraform states into the staged maps, and then builds: under the write *)
(* lock it brings the five caches up to date, rotates the maps, and hands  *)
(* an update to the command's loop over an unbuffered channel.  The        *)
(* service discovery sets cluster endpoints under the same lock.  The      *)
(* loop (cmd/xds.go) receives the updates until it stops listening.        *)
(*                                                                         *)
(* ReadFromTfstate takes no lock: it reads endpointsMap while the service  *)
(* discovery may be writing it.                                            *)
(***************************************************************************)
EXTENDS Naturals, Sequences

CONSTANTS Names,      \* resource names
          Vals,       \* contents of a resource, opaque
          None,       \* absence of a map entry
          Malformed,  \* content that protojson.Unmarshal refuses
          NoEndpoints,\* an empty list of endpoints
          Refs,       \* Refs[v]: names of the clusters that content v routes to
          Inputs,     \* what one sync may read: sequences of resources
          Discoveries \* what one flush may pass to SetClusterEndpoints

(* Variant: Build transacts the route configurations first.                *)
RoutesFirst == <<"routeConfiguration", "cluster", "clusterLoadAssignment",
                 "listener", "virtualHost">>

(* The kinds in the order in which Build updates their caches.             *)
BuildOrder == <<"cluster", "clusterLoadAssignment", "listener",
                "virtualHost", "routeConfiguration">>

Kinds == {BuildOrder[i] : i \in DOMAIN BuildOrder}

Map == [Names -> Vals \cup {None}]
EmptyMap == [n \in Names |-> None]
Resource == [kind : Kinds, name : Names, val : Vals \cup {Malformed}]
Assignment == [cluster : Names, endpoints : Vals]

ASSUME XdsAssumption ==
  /\ None \notin Vals
  /\ Malformed \notin Vals \cup {None}
  /\ NoEndpoints \in Vals
  /\ Refs \in [Vals -> SUBSET Names]
  /\ Inputs \subseteq Seq(Resource)
  /\ Discoveries \subseteq Seq(Assignment)

VARIABLES
  staged,       \* staged[k]: the map that ReadFromTfstate fills for kind k
  toDelete,     \* toDelete[k]: what the last Build published for kind k
  cache,        \* cache[k]: the resources of the LinearCache of kind k
  endpointsMap, \* the endpoints discovered for each cluster
  rwLock,       \* who holds xs.rwLock
  sync,         \* control point of the synchroniser
  toRead,       \* the resources it has still to read
  step,         \* position in BuildOrder of the next kind it updates
  discovery,    \* control point of the service discovery
  toSet,        \* the assignments it has still to set
  listening,    \* the loop still receives from updateCh
  crashed       \* the Go runtime aborted the process

vars == <<staged, toDelete, cache, endpointsMap, rwLock, sync, toRead, step,
          discovery, toSet, listening, crashed>>
mapVars == <<staged, toDelete, cache>>
syncVars == <<sync, toRead, step>>
discoveryVars == <<endpointsMap, discovery, toSet>>

Init ==
  /\ staged = [k \in Kinds |-> EmptyMap]
  /\ toDelete = [k \in Kinds |-> EmptyMap]
  /\ cache = [k \in Kinds |-> EmptyMap]
  /\ endpointsMap = EmptyMap
  /\ rwLock = "free"
  /\ sync = "idle" /\ toRead = <<>> /\ step = 0
  /\ discovery = "idle" /\ toSet = <<>>
  /\ listening = TRUE
  /\ crashed = FALSE

-----------------------------------------------------------------------------
(* The synchroniser: ReadFromTfstate for each state polled, then Build.    *)

StartSync(input) ==
  /\ sync = "idle"
  /\ sync' = "read"
  /\ toRead' = input
  /\ UNCHANGED <<mapVars, step, rwLock, discoveryVars, listening, crashed>>

(* Variant: the discovered endpoints only replace a list that is not empty. *)
ContentIfListed(r) ==
  IF /\ r.kind = "clusterLoadAssignment"
     /\ endpointsMap[r.name] # None
     /\ r.val # NoEndpoints
    THEN endpointsMap[r.name]
    ELSE r.val

(* What is staged for r: discovered endpoints replace those of the state.  *)
Content(r) ==
  IF r.kind = "clusterLoadAssignment" /\ endpointsMap[r.name] # None
    THEN endpointsMap[r.name]
    ELSE r.val

ReadResource ==
  /\ sync = "read" /\ toRead # <<>>
  /\ LET r == Head(toRead) IN
     \/ /\ r.val # Malformed
        /\ staged' = [staged EXCEPT ![r.kind][r.name] = Content(r)]
        /\ toRead' = Tail(toRead)
        /\ UNCHANGED sync
     \/ /\ r.val = Malformed
        /\ sync' = "failed"
        /\ toRead' = <<>>
        /\ UNCHANGED staged
  /\ UNCHANGED <<toDelete, cache, step, rwLock, discoveryVars, listening,
                 crashed>>

(* The unlocked map read may overlap a map write of SetClusterEndpoints:   *)
(* the runtime then throws "concurrent map read and map write".            *)
ReadRaces ==
  /\ sync = "read" /\ toRead # <<>>
  /\ Head(toRead).kind = "clusterLoadAssignment"
  /\ Head(toRead).val # Malformed
  /\ discovery = "holding" /\ toSet # <<>>
  /\ crashed' = TRUE
  /\ UNCHANGED <<mapVars, syncVars, rwLock, discoveryVars, listening>>

BuildLock ==
  /\ sync = "read" /\ toRead = <<>>
  /\ rwLock = "free"
  /\ rwLock' = "build"
  /\ sync' = "transact"
  /\ step' = 1
  /\ UNCHANGED <<mapVars, toRead, discoveryVars, listening, crashed>>

(* Variant: the updated names are not removed from toDelete.               *)
LeftoverWithUpdated(k) == toDelete[k]

(* transactXdsResource removes from toDelete, in place, the names that are *)
(* updated; the names left are the ones to delete.                         *)
Leftover(k) ==
  [n \in Names |-> IF staged[k][n] # None THEN None ELSE toDelete[k][n]]

(* LinearCache.UpdateResources: the updates, then the deletions.           *)
UpdateResources(k, deletes) ==
  [n \in Names |-> IF deletes[n] # None THEN None
                   ELSE IF staged[k][n] # None THEN staged[k][n]
                   ELSE cache[k][n]]

Transact(k) ==
  /\ toDelete' = [toDelete EXCEPT ![k] = Leftover(k)]
  /\ cache' = [cache EXCEPT ![k] = UpdateResources(k, Leftover(k))]
  /\ UNCHANGED staged

TransactNext ==
  /\ sync = "transact"
  /\ Transact(BuildOrder[step])
  /\ step' = step + 1
  /\ sync' = IF step = Len(BuildOrder) THEN "rotate" ELSE "transact"
  /\ UNCHANGED <<toRead, rwLock, discoveryVars, listening, crashed>>

(* Variant: Build returns the error without releasing the lock.            *)
TransactFailsLocked ==
  /\ sync = "transact"
  /\ Transact(BuildOrder[step])
  /\ step' = step + 1
  /\ sync' = "failed"
  /\ UNCHANGED <<toRead, rwLock, discoveryVars, listening, crashed>>

(* UpdateResources fails after it changed the cache, when it notifies the  *)
(* watchers; Build returns the error and its deferred call unlocks.        *)
TransactFails ==
  /\ sync = "transact"
  /\ Transact(BuildOrder[step])
  /\ step' = step + 1
  /\ sync' = "failed"
  /\ rwLock' = "free"
  /\ UNCHANGED <<toRead, discoveryVars, listening, crashed>>

(* Variant: the rotation forgets the virtual hosts.                        *)
RotateButVirtualHosts ==
  /\ sync = "rotate"
  /\ toDelete' = [staged EXCEPT !["virtualHost"] = toDelete["virtualHost"]]
  /\ staged' = [k \in Kinds |-> EmptyMap]
  /\ sync' = "send"
  /\ step' = 0
  /\ UNCHANGED <<cache, toRead, rwLock, discoveryVars, listening, crashed>>

Rotate ==
  /\ sync = "rotate"
  /\ toDelete' = staged
  /\ staged' = [k \in Kinds |-> EmptyMap]
  /\ sync' = "send"
  /\ step' = 0
  /\ UNCHANGED <<cache, toRead, rwLock, discoveryVars, listening, crashed>>

(* updateCh is unbuffered: Build and the loop meet, still under the lock.  *)
SendUpdate ==
  /\ sync = "send"
  /\ listening
  /\ sync' = "unlock"
  /\ UNCHANGED <<mapVars, toRead, step, rwLock, discoveryVars, listening,
                 crashed>>

BuildUnlock ==
  /\ sync = "unlock"
  /\ rwLock' = "free"
  /\ sync' = "idle"
  /\ UNCHANGED <<mapVars, toRead, step, discoveryVars, listening, crashed>>

(* The loop returns: its context is cancelled or it received an error.     *)
StopListening ==
  /\ listening
  /\ listening' = FALSE
  /\ UNCHANGED <<mapVars, syncVars, rwLock, discoveryVars, crashed>>

-----------------------------------------------------------------------------
(* The service discovery: SetClusterEndpoints.  Its only caller today, the *)
(* flush of service_discovery/xds.go, has no assignments to pass: its sync *)
(* makes them and drops them.  Discoveries is what the interface allows.   *)

CallSetClusterEndpoints(assignments) ==
  /\ discovery = "idle"
  /\ discovery' = "waiting"
  /\ toSet' = assignments
  /\ UNCHANGED <<mapVars, syncVars, endpointsMap, rwLock, listening, crashed>>

DiscoveryLock ==
  /\ discovery = "waiting"
  /\ rwLock = "free"
  /\ rwLock' = "discovery"
  /\ discovery' = "holding"
  /\ UNCHANGED <<mapVars, syncVars, endpointsMap, toSet, listening, crashed>>

(* Variant: an empty list of endpoints is stored like any other.           *)
SetEmptyEndpoints ==
  /\ discovery = "holding" /\ toSet # <<>>
  /\ LET set == Head(toSet) IN
     endpointsMap' = [endpointsMap EXCEPT ![set.cluster] = set.endpoints]
  /\ toSet' = Tail(toSet)
  /\ UNCHANGED <<mapVars, syncVars, rwLock, discovery, listening, crashed>>

(* A cluster without endpoints is forgotten, and the call returns there:   *)
(* the assignments behind it in the list are not looked at.                *)
SetEndpoints ==
  /\ discovery = "holding" /\ toSet # <<>>
  /\ LET set == Head(toSet) IN
     \/ /\ set.endpoints = NoEndpoints
        /\ endpointsMap' = [endpointsMap EXCEPT ![set.cluster] = None]
        /\ toSet' = <<>>
     \/ /\ set.endpoints # NoEndpoints
        /\ endpointsMap' = [endpointsMap EXCEPT ![set.cluster] = set.endpoints]
        /\ toSet' = Tail(toSet)
  /\ UNCHANGED <<mapVars, syncVars, rwLock, discovery, listening, crashed>>

(* Variant: the early return leaves the lock held.                         *)
DiscoveryReturn ==
  /\ discovery = "holding" /\ toSet = <<>>
  /\ discovery' = "idle"
  /\ UNCHANGED <<mapVars, syncVars, endpointsMap, rwLock, toSet, listening,
                 crashed>>

DiscoveryUnlock ==
  /\ discovery = "holding" /\ toSet = <<>>
  /\ rwLock' = "free"
  /\ discovery' = "idle"
  /\ UNCHANGED <<mapVars, syncVars, endpointsMap, toSet, listening, crashed>>

-----------------------------------------------------------------------------
SyncNext ==
  \/ \E input \in Inputs : StartSync(input)
  \/ ReadResource \/ ReadRaces
  \/ BuildLock \/ TransactNext \/ TransactFails \/ Rotate
  \/ SendUpdate \/ BuildUnlock

DiscoveryNext ==
  \/ \E assignments \in Discoveries : CallSetClusterEndpoints(assignments)
  \/ DiscoveryLock \/ SetEndpoints \/ DiscoveryUnlock

(* Only a dead process, or one that is shutting down, may come to rest.     *)
Halted ==
  /\ crashed \/ ~listening
  /\ UNCHANGED vars

Next == (~crashed /\ (SyncNext \/ DiscoveryNext \/ StopListening)) \/ Halted

Spec == Init /\ [][Next]_vars

(* Goroutines are scheduled, and sync.RWMutex hands the lock over to a     *)
(* waiter that has been overtaken.  Nothing forces a sync to start or the  *)
(* service discovery to be called.                                         *)
Fairness ==
  /\ WF_vars(~crashed /\ (ReadResource \/ TransactNext \/ Rotate \/ SendUpdate
                          \/ BuildUnlock))
  /\ SF_vars(~crashed /\ BuildLock)
  /\ WF_vars(~crashed /\ (SetEndpoints \/ DiscoveryUnlock))
  /\ SF_vars(~crashed /\ DiscoveryLock)

FairSpec == Spec /\ Fairness

-----------------------------------------------------------------------------
(* The types of the variables; the entries of endpointsMap are never empty *)
(* (xds.go:236-241), which ReadFromTfstate relies on when it takes the     *)
(* presence of an entry for the presence of endpoints (xds.go:146).        *)
TypeOK ==
  /\ staged \in [Kinds -> Map]
  /\ toDelete \in [Kinds -> Map]
  /\ cache \in [Kinds -> Map]
  /\ endpointsMap \in [Names -> (Vals \ {NoEndpoints}) \cup {None}]
  /\ rwLock \in {"free", "build", "discovery"}
  /\ sync \in {"idle", "read", "transact", "rotate", "send", "unlock",
               "failed"}
  /\ toRead \in Seq(Resource)
  /\ step \in 0 .. Len(BuildOrder) + 1
  /\ discovery \in {"idle", "waiting", "holding"}
  /\ toSet \in Seq(Assignment)
  /\ listening \in BOOLEAN
  /\ crashed \in BOOLEAN

Building == sync \in {"transact", "rotate"}

(* Where the synchroniser is tells how far it got and who holds rwLock.    *)
ControlOK ==
  /\ sync = "transact" => step \in DOMAIN BuildOrder
  /\ sync = "rotate" => step = Len(BuildOrder) + 1
  /\ sync \in {"idle", "read", "send", "unlock"} => step = 0
  /\ rwLock = "build" <=> sync \in {"transact", "rotate", "send", "unlock"}
  /\ rwLock = "discovery" <=> discovery = "holding"

(* During a Build the caches of the kinds already updated hold what is     *)
(* staged, and the others what the last Build left.                        *)
ReplacedSoFar ==
  Building =>
    \A i \in DOMAIN BuildOrder :
      cache[BuildOrder[i]] =
        IF i < step THEN staged[BuildOrder[i]] ELSE toDelete[BuildOrder[i]]

(* xds.go:162-227.  Outside a Build the maps of what to delete are exactly *)
(* what the caches hold, so the next Build can withdraw every resource     *)
(* that its tfstates no longer name: nothing is published for ever.        *)
PublishedIsTracked ==
  ~Building /\ sync # "failed" => toDelete = cache

Inv == TypeOK /\ ControlOK /\ ReplacedSoFar /\ PublishedIsTracked

(* xds.go:186-209.  Envoy may read the caches between two transactions of  *)
(* a Build.  A resource it sees routes only to clusters it also sees,      *)
(* unless the Build in progress (or the one that failed) is withdrawing a  *)
(* cluster: the cluster cache is brought up to date first.                 *)
WithdrawingCluster ==
  /\ step > 1
  /\ \E n \in Names : toDelete["cluster"][n] # None

RoutingKinds == Kinds \ {"cluster", "clusterLoadAssignment"}

RoutesResolve ==
  ~WithdrawingCluster =>
    \A k \in RoutingKinds, n \in Names :
      cache[k][n] # None =>
        \A c \in Refs[cache[k][n]] : cache["cluster"][c] # None

(* It takes tfstates that are consistent: what a sync reads routes only to *)
(* clusters that it reads too, before or after, malformed ones included.   *)
SelfContained(input) ==
  \A i \in DOMAIN input :
    input[i].kind \in RoutingKinds /\ input[i].val # Malformed =>
      \A c \in Refs[input[i].val] :
        \E j \in DOMAIN input : input[j].kind = "cluster" /\ input[j].name = c

(* While a sync reads, what is staged and what is to be read routes only   *)
(* to clusters that are staged or to be read.                              *)
Provided(c) ==
  \/ staged["cluster"][c] # None
  \/ \E j \in DOMAIN toRead : toRead[j].kind = "cluster" /\ toRead[j].name = c

StagedResolves ==
  /\ sync # "failed" =>
       /\ \A k \in RoutingKinds, n \in Names :
            staged[k][n] # None => \A c \in Refs[staged[k][n]] : Provided(c)
       /\ \A i \in DOMAIN toRead :
            toRead[i].kind \in RoutingKinds /\ toRead[i].val # Malformed =>
              \A c \in Refs[toRead[i].val] : Provided(c)
  /\ sync # "read" => toRead = <<>>

(* xds.go:162-227.  The differences that Build applies to the five caches  *)
(* amount to replacing each of them whole, in BuildOrder, by what one sync *)
(* read, and to nothing at all once a sync failed.                         *)
Store == INSTANCE SnapshotStore WITH
  Order <- BuildOrder,
  Table <- Map,
  EmptyTable <- EmptyMap,
  published <- cache,
  snapshot <- IF Building THEN staged ELSE cache,
  turn <- IF sync = "failed" THEN Len(BuildOrder) + 2
          ELSE IF Building THEN step ELSE 0

ImplementsSnapshotStore == Store!Spec

(* xds.go:186-227.  A sync that started comes to its end: Build gets the   *)
(* lock although the service discovery competes for it, and is not stuck   *)
(* on updateCh while the loop listens.                                     *)
SyncTerminates ==
  sync = "read" ~> sync \in {"idle", "failed"} \/ ~listening \/ crashed

(* xds.go:229-245.  SetClusterEndpoints returns, although Build keeps the  *)
(* lock until its update has been received.                                *)
DiscoveryServed ==
  discovery = "waiting" ~> discovery = "idle" \/ ~listening \/ crashed

(* xds.go:144-150.  Endpoints are copied when a sync reads the assignment, *)
(* and the copy may be stale when it is published.  If the endpoints of a  *)
(* cluster settle and syncs go on, the published ones settle on them.      *)
EndpointsConverge ==
  \A c \in Names, e \in Vals :
    <>[](endpointsMap[c] = e) /\ []<>(sync = "unlock") =>
      <>[](cache["clusterLoadAssignment"][c] \in {e, None})
=============================================================================
