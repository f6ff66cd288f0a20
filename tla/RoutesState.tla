---------------------------- MODULE RoutesState ----------------------------
(***************************************************************************)
(* The routes state of the router, src/pkg/state/routes.go, between the    *)
(* synchroniser that reads and builds (state.periodicSync) and the loop of *)
(* cmd/router.go that asks for the sorted routes.                          *)
(*                                                                         *)
(* Build holds the write lock while it adds the routes to the dependency   *)
(* graph and while it sends itself over the unbuffered updateCh.  The loop *)
(* receives it and calls GetRoutes, which takes the read lock and sorts.   *)
(* The graph itself has no lock.  A reader that waits for a sync.RWMutex   *)
(* goes before the next writer; one that has not called RLock does not.    *)
(***************************************************************************)
EXTENDS Naturals, Sequences, FiniteSets

CONSTANTS Names,           \* route names
          NoParent,        \* the parent of a route that has none
          None,            \* absence of a map entry
          Malformed,       \* content that protojson.Unmarshal refuses
          Inputs,          \* what one sync may read: sequences of routes
          MaxDependencies  \* bound on the edges of a node in the graph

Routes == [name : Names, parent : Names \cup {NoParent}]

ASSUME RoutesAssumption ==
  /\ NoParent \notin Names
  /\ None \notin Routes
  /\ Malformed \notin Routes \cup {None}
  /\ Inputs \subseteq Seq(Routes \cup {Malformed})
  /\ MaxDependencies \in Nat

VARIABLES
  routesMap,  \* routesMap[n]: the route read under the name n
  remaining,  \* the names that the range loop of Build has still to visit
  built,      \* the routes of the Builds that went through
  lock,       \* who holds r.rwLock
  sync,       \* control point of the synchroniser
  toRead,     \* the routes it has still to read
  loop,       \* control point of the command's loop
  val, dependencies, phase, visited, stack, list  \* the graph, see there

routesVars == <<routesMap, remaining, built>>
graphVars == <<val, dependencies, phase, visited, stack, list>>
vars == <<routesVars, lock, sync, toRead, loop, graphVars>>

G == INSTANCE DependencyGraph WITH
  Vals <- Routes,
  Keys <- Names,
  KeyOf <- [r \in Routes |-> r.name]

EmptyMap == [n \in Names |-> None]

Init ==
  /\ routesMap = EmptyMap
  /\ remaining = {}
  /\ built = {}
  /\ lock = "free"
  /\ sync = "idle" /\ toRead = <<>>
  /\ loop = "listening"
  /\ G!Init

-----------------------------------------------------------------------------
(* The synchroniser                                                        *)

StartSync(input) ==
  /\ sync = "idle"
  /\ sync' = "read"
  /\ toRead' = input
  /\ UNCHANGED <<routesVars, lock, loop, graphVars>>

ReadRoute ==
  /\ sync = "read" /\ toRead # <<>>
  /\ LET r == Head(toRead) IN
     \/ /\ r # Malformed
        /\ routesMap' = [routesMap EXCEPT ![r.name] = r]
        /\ toRead' = Tail(toRead)
        /\ UNCHANGED sync
     \/ /\ r = Malformed
        /\ sync' = "failed"
        /\ toRead' = <<>>
        /\ UNCHANGED routesMap
  /\ UNCHANGED <<remaining, built, lock, loop, graphVars>>

Read == {n \in Names : routesMap[n] # None}

(* Variant: Build takes no lock.                                           *)
BuildUnlocked ==
  /\ sync = "read" /\ toRead = <<>>
  /\ sync' = "build"
  /\ remaining' = Read
  /\ UNCHANGED <<routesMap, built, lock, toRead, loop, graphVars>>

BuildLock ==
  /\ sync = "read" /\ toRead = <<>>
  /\ lock = "free" /\ loop # "waiting"
  /\ lock' = "build"
  /\ sync' = "build"
  /\ remaining' = Read
  /\ UNCHANGED <<routesMap, built, toRead, loop, graphVars>>

(* Variant: a route whose name is in the graph is skipped.                 *)
AddNewRoute(n) ==
  LET r == routesMap[n] IN
    \/ val[n] # None /\ UNCHANGED graphVars
    \/ val[n] = None /\ r.parent = NoParent /\ G!AddSingleNode(r)
    \/ val[n] = None /\ r.parent \in Read /\ G!AddEdge(r, routesMap[r.parent])

AddRoute(n) ==
  LET r == routesMap[n] IN
    \/ r.parent = NoParent /\ G!AddSingleNode(r)
    \/ r.parent \in Read /\ G!AddEdge(r, routesMap[r.parent])

(* The range loop visits the names in any order.                           *)
BuildRoute(n) ==
  /\ sync = "build" /\ n \in remaining
  /\ AddRoute(n)
  /\ remaining' = remaining \ {n}
  /\ UNCHANGED <<routesMap, built, lock, sync, toRead, loop>>

(* Variant: Build returns nil, as if it had no more routes.                *)
NoParentIgnored(n) ==
  /\ sync = "build" /\ n \in remaining
  /\ routesMap[n].parent \notin Read \cup {NoParent}
  /\ lock' = "free"
  /\ sync' = "idle"
  /\ UNCHANGED <<routesVars, toRead, loop, graphVars>>

(* ErrNoParentFound: what the loop added stays in the graph, and routesMap *)
(* is not emptied.                                                         *)
NoParentFound(n) ==
  /\ sync = "build" /\ n \in remaining
  /\ routesMap[n].parent \notin Read \cup {NoParent}
  /\ lock' = "free"
  /\ sync' = "failed"
  /\ UNCHANGED <<routesVars, toRead, loop, graphVars>>

BuildEnds ==
  /\ sync = "build" /\ remaining = {}
  /\ built' = built \cup {routesMap[n] : n \in Read}
  /\ routesMap' = EmptyMap
  /\ sync' = "send"
  /\ UNCHANGED <<remaining, lock, toRead, loop, graphVars>>

(* updateCh is unbuffered: Build and the loop meet.                        *)
SendUpdate ==
  /\ sync = "send" /\ loop = "listening"
  /\ sync' = "unlock"
  /\ loop' = "update"
  /\ UNCHANGED <<routesVars, lock, toRead, graphVars>>

BuildUnlock ==
  /\ sync = "unlock"
  /\ lock' = "free"
  /\ sync' = "idle"
  /\ UNCHANGED <<routesVars, toRead, loop, graphVars>>

-----------------------------------------------------------------------------
(* The loop: GetRoutes, and what it does with the routes.                  *)

(* Variant: TryRLock, and back to the channel when the lock is taken.      *)
CallTryRLock ==
  /\ loop = "update"
  /\ loop' = IF lock = "free" THEN "waiting" ELSE "listening"
  /\ UNCHANGED <<routesVars, lock, sync, toRead, graphVars>>

CallRLock ==
  /\ loop = "update"
  /\ loop' = "waiting"
  /\ UNCHANGED <<routesVars, lock, sync, toRead, graphVars>>

RLock ==
  /\ loop = "waiting" /\ lock = "free"
  /\ lock' = "read"
  /\ loop' = "sorting"
  /\ G!StartSort
  /\ UNCHANGED <<routesVars, sync, toRead>>

(* The last step of a sort that has routes to return panics.               *)
Sort ==
  /\ loop = "sorting"
  /\ G!SortStep
  /\ UNCHANGED <<routesVars, lock, sync, toRead, loop>>

(* Variant: GetRoutes returns without releasing the read lock.             *)
ReturnLocked ==
  /\ loop = "sorting" /\ phase = "idle"
  /\ loop' = "swap"
  /\ UNCHANGED <<routesVars, lock, sync, toRead, graphVars>>

RUnlock ==
  /\ loop = "sorting" /\ phase = "idle"
  /\ lock' = "free"
  /\ loop' = "swap"
  /\ UNCHANGED <<routesVars, sync, toRead, graphVars>>

(* The new router is checked and swapped in.                               *)
SwapRouter ==
  /\ loop = "swap"
  /\ loop' = "listening"
  /\ UNCHANGED <<routesVars, lock, sync, toRead, graphVars>>

StopListening ==
  /\ loop = "listening"
  /\ loop' = "stopped"
  /\ UNCHANGED <<routesVars, lock, sync, toRead, graphVars>>

-----------------------------------------------------------------------------
BuildStep ==
  \/ ReadRoute
  \/ \E n \in Names : BuildRoute(n) \/ NoParentFound(n)
  \/ BuildEnds \/ SendUpdate \/ BuildUnlock

GetRoutesStep == CallRLock \/ Sort \/ RUnlock \/ SwapRouter

(* A whole round went by while the loop was on its way from the update to  *)
(* RLock: Build has the lock and waits for the loop, and the loop for it.  *)
Overtaken == sync = "send" /\ loop \in {"update", "waiting"}

Panicked == phase = "panicked"

Halted ==
  /\ Panicked \/ loop = "stopped" \/ Overtaken
  /\ UNCHANGED vars

Next ==
  \/ /\ ~Panicked
     /\ \/ \E input \in Inputs : StartSync(input)
        \/ BuildLock \/ BuildStep
        \/ RLock \/ GetRoutesStep \/ StopListening
  \/ Halted

Spec == Init /\ [][Next]_vars

(* Goroutines are scheduled, and a sync.RWMutex starves nobody.            *)
FairSpec ==
  /\ Spec
  /\ WF_vars(~Panicked /\ BuildStep) /\ SF_vars(~Panicked /\ BuildLock)
  /\ WF_vars(~Panicked /\ GetRoutesStep) /\ SF_vars(~Panicked /\ RLock)

-----------------------------------------------------------------------------
(* The types of the variables, the graph's included.                       *)
TypeOK ==
  /\ routesMap \in [Names -> Routes \cup {None}]
  /\ remaining \subseteq Names
  /\ built \subseteq Routes
  /\ lock \in {"free", "build", "read"}
  /\ sync \in {"idle", "read", "build", "send", "unlock", "failed"}
  /\ toRead \in Seq(Routes \cup {Malformed})
  /\ loop \in {"listening", "update", "waiting", "sorting", "swap", "stopped"}
  /\ G!TypeOK

(* routes.go:58-90.  The graph is used by one goroutine at a time: between *)
(* the first and the last step of a sort nothing is added, so what is true *)
(* of a graph with a sequential caller is true of it here.                 *)
GraphUsedSequentially == G!Spec

(* The route is a node of the graph, and depends on its parent.            *)
InGraph(r) ==
  /\ val[r.name] # None
  /\ r.parent # NoParent => r.parent \in G!DependenciesOf(r.name)

(* The node and its edges are those of Builds that went through.           *)
OfBuilds(n) ==
  /\ \E r \in built : r.name = n
  /\ \A p \in G!DependenciesOf(n) : [name |-> n, parent |-> p] \in built

(* A Build has failed after it began with the graph.                       *)
HalfBuilt == sync = "failed" /\ remaining # {}

(* routes.go:56-90.  A sort has all the routes of the Builds that went     *)
(* through, with the edges to their parents, and nothing else in it, also  *)
(* when a later Build is between two routes as the loop asks for them.     *)
(* Only a Build that failed with ErrNoParentFound may leave a part of its  *)
(* routes to a sort that began after it; it is the last, as its error ends *)
(* the rounds.                                                             *)
SortsWholeBuild ==
  loop = "sorting" =>
    /\ \A r \in built : InGraph(r)
    /\ HalfBuilt \/ \A n \in G!Nodes : OfBuilds(n)

(* routes.go:30-83.  A sync that started comes to the end of its Build: it *)
(* gets the lock although the loop reads under it, and is received.        *)
BuildReturns ==
  sync = "read" ~> sync \in {"idle", "failed"} \/ loop = "stopped"
                   \/ Panicked \/ Overtaken

(* router.go:85-94, routes.go:79-90.  The loop that received an update gets*)
(* the routes, although Build still holds the lock when it sends: only a   *)
(* whole round that overtakes it on its way to RLock stops it, for ever.   *)
UpdateServed ==
  loop = "update" ~> loop = "sorting" \/ Panicked \/ Overtaken
=============================================================================
