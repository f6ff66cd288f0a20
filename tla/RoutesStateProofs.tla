------------------------- MODULE RoutesStateProofs -------------------------
(***************************************************************************)
(* Proofs about the routes state, for every set of routes and every order  *)
(* in which the synchroniser and the loop take their steps.                *)
(*                                                                         *)
(* The argument has two halves.  The first is about the lock: Build holds  *)
(* it from the first route that it adds until it was received, the loop    *)
(* holds it for the whole of a sort, and so the graph has one user at a    *)
(* time (LockInv).  With that the routes state is a sequential caller of   *)
(* the graph, and all that DependencyGraphProofs has proved of the graph   *)
(* is true here.  The second half is about what is in the graph: it only   *)
(* grows, so that what a Build added is there when it is sorted (BuildInv),*)
(* and nothing grows in it but what a Build has read, which is whole again *)
(* when the lock is free, unless the Build has failed (NothingElse).       *)
(***************************************************************************)
EXTENDS RoutesState, TLAPS

GP == INSTANCE DependencyGraphProofs WITH
  Vals <- Routes,
  Keys <- Names,
  KeyOf <- [r \in Routes |-> r.name]

(* The types of what is not in the graph.                                  *)
StateOK ==
  /\ routesMap \in [Names -> Routes \cup {None}]
  /\ remaining \subseteq Names
  /\ built \subseteq Routes
  /\ lock \in {"free", "build", "read"}
  /\ sync \in {"idle", "read", "build", "send", "unlock", "failed"}
  /\ toRead \in Seq(Routes \cup {Malformed})
  /\ loop \in {"listening", "update", "waiting", "sorting", "swap", "stopped"}

(* Who holds the lock, and who may use the graph.                          *)
Exclusion ==
  /\ lock = "build" <=> sync \in {"build", "send", "unlock"}
  /\ lock = "read" <=> loop = "sorting"
  /\ phase # "idle" => loop = "sorting"

(* A route is kept under its own name, and Build visits what was read.     *)
Named == \A n \in Read : routesMap[n].name = n
Visiting == sync = "build" => remaining \subseteq Read

LockInv == StateOK /\ Exclusion /\ Named /\ Visiting

(* What has to be in the graph: the routes that Build has visited, and all *)
(* those of the Builds before it.                                          *)
BuildInv ==
  /\ sync = "build" => \A n \in Read \ remaining : InGraph(routesMap[n])
  /\ \A r \in built : InGraph(r)

(* What may be in the graph: that, and for as long as a Build goes on what *)
(* it has read.                                                            *)
NodeOK(n) == (\E r \in built : r.name = n) \/ (sync = "build" /\ n \in Read)
EdgeOK(n, p) ==
  LET r == [name |-> n, parent |-> p] IN
    r \in built \/ (sync = "build" /\ routesMap[n] = r)

NothingElse ==
  \/ HalfBuilt
  \/ /\ \A n \in G!Nodes : NodeOK(n)
     /\ \A n \in Names : \A p \in G!DependenciesOf(n) : EdgeOK(n, p)

USE RoutesAssumption DEF vars, routesVars, graphVars

-----------------------------------------------------------------------------
(* The instances: the graph of RoutesState, and the one that is proved     *)
(* about, are the same.                                                    *)

LEMMA KeysOfRoutes ==
  /\ [r \in Routes |-> r.name] \in [Routes -> Names]
  /\ None \notin Routes /\ MaxDependencies \in Nat
BY DEF Routes

LEMMA SameGraph ==
  /\ G!Init <=> GP!Init
  /\ [G!Next]_(G!vars) <=> [GP!Next]_(GP!vars)
  /\ G!TypeOK <=> GP!TypeOK
BY DEF G!Init, GP!Init, G!TypeOK, GP!TypeOK, G!Nodes, GP!Nodes,
       G!DependenciesOf, GP!DependenciesOf, G!Frame, GP!Frame,
       G!WithNode, GP!WithNode, G!AddSingleNode, GP!AddSingleNode,
       G!AddEdge, GP!AddEdge, G!StartSort, GP!StartSort,
       G!Call, GP!Call, G!Top, GP!Top, G!Pop, GP!Pop,
       G!VisitRoot, GP!VisitRoot, G!Looking, GP!Looking,
       G!Dependency, GP!Dependency, G!Advanced, GP!Advanced,
       G!SkipVisited, GP!SkipVisited, G!VisitDependency, GP!VisitDependency,
       G!LeaveNode, GP!LeaveNode, G!Collect, GP!Collect, G!Halted, GP!Halted,
       G!SortStep, GP!SortStep, G!Next, GP!Next,
       G!vars, GP!vars, G!graphVars, GP!graphVars, G!sortVars, GP!sortVars

-----------------------------------------------------------------------------
(* The lock                                                                *)

LEMMA InitLock == Init => LockInv
BY DEF Init, EmptyMap, LockInv, StateOK, Exclusion, Named, Visiting, Read, G!Init

(* The first element of a sequence, and the others.                        *)
LEMMA HeadTail ==
  ASSUME NEW S, NEW s \in Seq(S), s # <<>>
  PROVE  Head(s) \in S /\ Tail(s) \in Seq(S)
OBVIOUS

LEMMA ReadRouteKeepsLock ==
  ASSUME LockInv, ReadRoute
  PROVE  LockInv'
<1>1. /\ Head(toRead) \in Routes \cup {Malformed}
      /\ Tail(toRead) \in Seq(Routes \cup {Malformed})
      /\ sync = "read"
      /\ UNCHANGED <<remaining, built, lock, loop, phase>>
  BY HeadTail DEF ReadRoute, LockInv, StateOK
<1>2. CASE Head(toRead) # Malformed
  <2>1. /\ Head(toRead) \in Routes /\ Head(toRead).name \in Names
        /\ routesMap' = [routesMap EXCEPT ![Head(toRead).name] = Head(toRead)]
        /\ toRead' = Tail(toRead) /\ sync' = "read"
    BY <1>1, <1>2 DEF ReadRoute, Routes
  <2>2. StateOK' /\ Named'
    BY <1>1, <2>1 DEF LockInv, StateOK, Named, Read
  <2> QED
    BY <1>1, <2>1, <2>2 DEF LockInv, Exclusion, Visiting
<1>3. CASE Head(toRead) = Malformed
  <2>1. toRead' = <<>> /\ sync' = "failed" /\ UNCHANGED routesMap
    BY <1>3 DEF ReadRoute
  <2> QED
    BY <1>1, <2>1 DEF LockInv, StateOK, Exclusion, Named, Visiting, Read
<1> QED
  BY <1>2, <1>3

(* The synchroniser, up to the lock.                                       *)
LEMMA ReadKeepsLock ==
  ASSUME LockInv, (\E input \in Inputs : StartSync(input)) \/ ReadRoute \/ BuildLock
  PROVE  LockInv'
<1> USE DEF LockInv, StateOK, Exclusion, Named, Visiting, Read
<1>1. ASSUME NEW input \in Inputs, StartSync(input) PROVE LockInv'
  BY <1>1 DEF StartSync
<1>2. CASE ReadRoute
  BY <1>2, ReadRouteKeepsLock
<1>3. CASE BuildLock
  BY <1>3 DEF BuildLock
<1> QED
  BY <1>1, <1>2, <1>3

(* The synchroniser under the lock, until it gives it back.                *)
LEMMA BuildKeepsLock ==
  ASSUME LockInv,
         \/ \E n \in Names : BuildRoute(n) \/ NoParentFound(n)
         \/ BuildEnds \/ SendUpdate \/ BuildUnlock
  PROVE  LockInv'
<1> USE DEF LockInv, StateOK, Exclusion, Named, Visiting, Read
<1>1. ASSUME NEW n \in Names, BuildRoute(n) PROVE LockInv'
  BY <1>1 DEF BuildRoute, AddRoute, G!AddSingleNode, G!AddEdge
<1>2. ASSUME NEW n \in Names, NoParentFound(n) PROVE LockInv'
  BY <1>2 DEF NoParentFound
<1>3. CASE BuildEnds
  BY <1>3 DEF BuildEnds, EmptyMap
<1>4. CASE SendUpdate
  BY <1>4 DEF SendUpdate
<1>5. CASE BuildUnlock
  BY <1>5 DEF BuildUnlock
<1> QED
  BY <1>1, <1>2, <1>3, <1>4, <1>5

(* The loop.                                                               *)
LEMMA LoopKeepsLock ==
  ASSUME LockInv, RLock \/ GetRoutesStep \/ StopListening
  PROVE  LockInv'
<1> USE DEF LockInv, StateOK, Exclusion, Named, Visiting, Read
<1>1. CASE RLock
  BY <1>1 DEF RLock
<1>2. CASE Sort
  BY <1>2 DEF Sort
<1>3. CASE RUnlock
  BY <1>3 DEF RUnlock
<1>4. CASE CallRLock \/ SwapRouter \/ StopListening
  BY <1>4 DEF CallRLock, SwapRouter, StopListening
<1> QED
  BY <1>1, <1>2, <1>3, <1>4 DEF GetRoutesStep

LEMMA NextLock == LockInv /\ [Next]_vars => LockInv'
<1> SUFFICES ASSUME LockInv, [Next]_vars
             PROVE  LockInv'
  OBVIOUS
<1>1. CASE UNCHANGED vars
  BY <1>1 DEF LockInv, StateOK, Exclusion, Named, Visiting, Read
<1> QED
  BY <1>1, ReadKeepsLock, BuildKeepsLock, LoopKeepsLock DEF Next, BuildStep, Halted

LEMMA LockHolds == Spec => []LockInv
BY InitLock, NextLock, PTL DEF Spec

-----------------------------------------------------------------------------
(* The graph has a sequential caller                                       *)

LEMMA InitGraph == Init => G!Init
BY DEF Init

(* What Build adds is added while nothing is sorted.                       *)
LEMMA AddRouteSequential ==
  ASSUME LockInv, NEW n \in Names, BuildRoute(n)
  PROVE  G!Next
<1>1. phase = "idle"
  BY DEF BuildRoute, LockInv, StateOK, Exclusion
<1>2. routesMap[n] \in Routes
  BY DEF BuildRoute, LockInv, StateOK, Visiting, Read
<1>3. CASE G!AddSingleNode(routesMap[n])
  BY <1>1, <1>2, <1>3 DEF G!Next
<1>4. CASE routesMap[n].parent \in Read /\ G!AddEdge(routesMap[n], routesMap[routesMap[n].parent])
  <2>1. routesMap[routesMap[n].parent] \in Routes
    BY <1>4 DEF LockInv, StateOK, Read
  <2> QED
    BY <1>1, <1>2, <1>4, <2>1 DEF G!Next
<1> QED
  BY <1>3, <1>4 DEF BuildRoute, AddRoute

(* Every step of the routes state is a step of the graph, or none.         *)
LEMMA NextGraph == LockInv /\ [Next]_vars => [G!Next]_(G!vars)
<1> SUFFICES ASSUME LockInv, [Next]_vars
             PROVE  G!Next \/ UNCHANGED graphVars
  BY DEF G!vars, G!graphVars, G!sortVars
<1>1. CASE UNCHANGED vars
  BY <1>1
<1>2. CASE \E input \in Inputs : StartSync(input)
  BY <1>2 DEF StartSync
<1>3. CASE ReadRoute \/ BuildLock \/ BuildEnds \/ SendUpdate \/ BuildUnlock
  BY <1>3 DEF ReadRoute, BuildLock, BuildEnds, SendUpdate, BuildUnlock
<1>4. CASE \E n \in Names : BuildRoute(n) \/ NoParentFound(n)
  BY <1>4, AddRouteSequential DEF NoParentFound
<1>5. CASE CallRLock \/ RUnlock \/ SwapRouter \/ StopListening
  BY <1>5 DEF CallRLock, RUnlock, SwapRouter, StopListening
<1>6. CASE RLock \/ Sort
  BY <1>6 DEF RLock, Sort, G!Next
<1> QED
  BY <1>1, <1>2, <1>3, <1>4, <1>5, <1>6 DEF Next, BuildStep, GetRoutesStep, Halted

(* routes.go:58-90.  The graph has no lock of its own; under the lock of   *)
(* the routes state it is used by one goroutine at a time, whatever the    *)
(* routes and whenever the loop and the synchroniser run.                  *)
THEOREM GraphIsUsedSequentially == Spec => GraphUsedSequentially
<1>1. LockInv /\ [Next]_vars => [G!Next]_(G!vars)
  BY NextGraph
<1>2. Init => G!Init
  BY InitGraph
<1> QED
  BY <1>1, <1>2, LockHolds, PTL DEF Spec, GraphUsedSequentially, G!Spec

(* Theorems about the graph carry over.                                    *)
LEMMA GraphSpec == Spec => GP!Spec
<1>1. Spec => G!Spec
  BY GraphIsUsedSequentially, PTL DEF GraphUsedSequentially
<1>2. (G!Init <=> GP!Init) /\ ([G!Next]_(G!vars) <=> [GP!Next]_(GP!vars))
  BY SameGraph
<1> QED
  BY <1>1, <1>2, PTL DEF G!Spec, GP!Spec

LEMMA GraphTyped == Spec => []G!TypeOK
<1>1. GP!Spec => []GP!TypeOK
  BY GP!GraphTypeCorrect, KeysOfRoutes
<1>2. G!TypeOK <=> GP!TypeOK
  BY SameGraph
<1> QED
  BY <1>1, <1>2, GraphSpec, PTL

(* The types of the variables, the graph's included: every edge that Build *)
(* adds joins two nodes.                                                   *)
THEOREM TypeCorrect == Spec => []TypeOK
<1>1. LockInv /\ G!TypeOK => TypeOK
  BY DEF LockInv, StateOK, TypeOK
<1> QED
  BY <1>1, LockHolds, GraphTyped, PTL

(* dependency_graph.go:56-83 for the routes: what GetRoutes lists while it *)
(* sorts has each route once, and parents after the routes that name them  *)
(* unless they are on a cycle, although Build goes on beside it.           *)
THEOREM RoutesAreSorted == Spec => [](GP!DependentsFirst /\ GP!EachNodeOnce)
<1>1. GP!Spec => []GP!DependentsFirst
  BY GP!TopologicalOrder, KeysOfRoutes
<1>2. GP!Spec => []GP!EachNodeOnce
  BY GP!ListedExactlyOnce, KeysOfRoutes
<1> QED
  BY <1>1, <1>2, GraphSpec, PTL

(* routes.go:90, dependency_graph.go:49-83.  GetRoutes does not search for *)
(* ever: while the loop sorts, each step takes from a finite amount of     *)
(* work, and a Build that goes on beside it adds none.                     *)
THEOREM SortsEnd == Spec => [][GP!WorkShrinks]_(GP!vars) /\ []GP!WorkIsFinite
<1>1. GP!Spec => [][GP!WorkShrinks]_(GP!vars) /\ []GP!WorkIsFinite
  BY GP!SearchEnds, KeysOfRoutes
<1> QED
  BY <1>1, GraphSpec, PTL

(* routes.go:56-90, router.go:85-94.  Who waits for the lock or for the    *)
(* loop waits for somebody who goes on without it.  The loop waits for a   *)
(* Build that is not yet sending, or has sent; a Build for a loop that     *)
(* sorts, under the lock of its own; a Build that sends, for a loop on its *)
(* way back to the channel, or for none.  The exception is Overtaken.      *)
WaitsAreServed ==
  /\ loop = "waiting" /\ lock # "free" => sync \in {"build", "unlock"} \/ Overtaken
  /\ sync = "read" /\ lock # "free" => lock = "read" /\ loop = "sorting"
  /\ sync = "send" => loop \in {"listening", "swap", "stopped"} \/ Overtaken

(* For any routes and in any order Overtaken is the only way in which the  *)
(* synchroniser and the loop come to wait for each other.                  *)
THEOREM OnlyOvertakingBlocks == Spec => []WaitsAreServed
<1>1. LockInv => WaitsAreServed
  BY DEF LockInv, StateOK, Exclusion, WaitsAreServed, Overtaken
<1> QED
  BY <1>1, LockHolds, PTL

-----------------------------------------------------------------------------
(* What is in the graph                                                    *)

LEMMA InGraphStays ==
  ASSUME G!TypeOK, [G!Next]_(G!vars), NEW r \in Routes, InGraph(r)
  PROVE  InGraph(r)'
<1>1. r.name \in Names
  BY DEF Routes
<1>2. val[r.name] # None => val'[r.name] # None
  BY <1>1, SameGraph, KeysOfRoutes, GP!NothingRemoved
<1>3. G!DependenciesOf(r.name) \subseteq G!DependenciesOf(r.name)'
  BY <1>1, SameGraph, KeysOfRoutes, GP!NothingRemoved
  DEF G!DependenciesOf, GP!DependenciesOf
<1> QED
  BY <1>2, <1>3 DEF InGraph

LEMMA AddRouteAdds ==
  ASSUME G!TypeOK, LockInv, NEW n \in Names, BuildRoute(n)
  PROVE  InGraph(routesMap[n])'
<1> DEFINE r == routesMap[n]
<1>1. r \in Routes /\ r.name = n
  BY DEF BuildRoute, LockInv, StateOK, Named, Visiting, Read
<1>2. /\ val \in [Names -> Routes \cup {None}]
      /\ dependencies \in [Names -> Seq(Names)]
  BY DEF G!TypeOK
<1>3. CASE r.parent = NoParent /\ G!AddSingleNode(r)
  <2>1. val'[n] # None
    BY <1>1, <1>2, <1>3 DEF G!AddSingleNode, G!WithNode
  <2> QED
    BY <1>1, <1>3, <2>1 DEF InGraph, BuildRoute
<1>4. CASE r.parent \in Read /\ G!AddEdge(r, routesMap[r.parent])
  <2>1. routesMap[r.parent] \in Routes /\ routesMap[r.parent].name = r.parent
    BY <1>4 DEF LockInv, StateOK, Named, Read
  <2>2. val'[n] # None
    BY <1>1, <1>2, <1>4, <2>1 DEF G!AddEdge, G!WithNode
  <2>3. r.parent \in G!DependenciesOf(n)'
    <3>1. dependencies' = [dependencies EXCEPT ![n] = Append(@, r.parent)]
      BY <1>1, <1>4, <2>1 DEF G!AddEdge
    <3>2. /\ dependencies'[n] = Append(dependencies[n], r.parent)
          /\ dependencies[n] \in Seq(Names) /\ r.parent \in Names
      BY <1>2, <1>4, <3>1 DEF Read
    <3>3. /\ Len(dependencies[n]) + 1 \in DOMAIN dependencies'[n]
          /\ dependencies'[n][Len(dependencies[n]) + 1] = r.parent
      BY <3>2
    <3> QED
      BY <3>3 DEF G!DependenciesOf
  <2> QED
    BY <1>1, <2>2, <2>3 DEF InGraph, BuildRoute
<1> QED
  BY <1>3, <1>4 DEF BuildRoute, AddRoute

LEMMA NextBuild ==
  ASSUME G!TypeOK, LockInv, BuildInv, [Next]_vars
  PROVE  BuildInv'
<1>1. \A r \in Routes : InGraph(r) => InGraph(r)'
  BY NextGraph, InGraphStays
<1>2. built \subseteq Routes /\ \A n \in Read : routesMap[n] \in Routes
  BY DEF LockInv, StateOK, Read
<1>3. CASE UNCHANGED <<routesMap, remaining, sync, built>>
  BY <1>1, <1>2, <1>3 DEF BuildInv, Read
<1>4. CASE UNCHANGED built /\ sync' # "build"
  BY <1>1, <1>2, <1>4 DEF BuildInv
<1>5. CASE BuildLock
  BY <1>1, <1>2, <1>5 DEF BuildLock, BuildInv, Read
<1>6. ASSUME NEW n \in Names, BuildRoute(n) PROVE BuildInv'
  <2>1. /\ sync = "build" /\ remaining' = remaining \ {n}
        /\ UNCHANGED <<routesMap, built>>
    BY <1>6 DEF BuildRoute
  <2>2. InGraph(routesMap[n])'
    BY <1>6, AddRouteAdds
  <2>3. \A m \in Read \ remaining : InGraph(routesMap[m])'
    BY <1>1, <1>2, <2>1 DEF BuildInv
  <2> QED
    BY <1>1, <1>2, <2>1, <2>2, <2>3 DEF BuildInv, Read
<1>7. CASE BuildEnds
  <2>1. /\ sync = "build" /\ remaining = {} /\ sync' = "send"
        /\ built' = built \cup {routesMap[n] : n \in Read}
    BY <1>7 DEF BuildEnds
  <2>2. \A n \in Read : InGraph(routesMap[n])
    BY <2>1 DEF BuildInv
  <2>3. \A r \in built' : InGraph(r)'
    <3>1. \A r \in built' : r \in Routes /\ InGraph(r)
      BY <1>2, <2>1, <2>2 DEF BuildInv
    <3> QED
      BY <1>1, <3>1
  <2> QED
    BY <2>1, <2>3 DEF BuildInv
<1>8. CASE (\E input \in Inputs : StartSync(input)) \/ ReadRoute \/ SendUpdate \/ BuildUnlock
  BY <1>4, <1>8 DEF StartSync, ReadRoute, SendUpdate, BuildUnlock
<1>9. CASE RLock \/ GetRoutesStep \/ StopListening
  BY <1>3, <1>9 DEF RLock, GetRoutesStep, CallRLock, Sort, RUnlock, SwapRouter, StopListening
<1>10. CASE \E n \in Names : NoParentFound(n)
  BY <1>4, <1>10 DEF NoParentFound
<1> QED
  BY <1>3, <1>5, <1>6, <1>7, <1>8, <1>9, <1>10 DEF Next, BuildStep, Halted

LEMMA BuildHolds == Spec => []BuildInv
<1>1. Init => BuildInv
  BY DEF Init, BuildInv
<1>2. LockInv /\ G!TypeOK /\ BuildInv /\ [Next]_vars => BuildInv'
  BY NextBuild
<1> QED
  BY <1>1, <1>2, LockHolds, GraphTyped, PTL DEF Spec

(* A sort moves marks, and leaves nodes and edges alone.                   *)
LEMMA SortAddsNothing == G!SortStep => UNCHANGED <<val, dependencies>>
BY DEF G!SortStep, G!VisitRoot, G!SkipVisited, G!VisitDependency, G!LeaveNode, G!Collect,
       G!graphVars

(* A Build that failed half way stays the last.                            *)
LEMMA HalfBuiltStays == LockInv /\ HalfBuilt /\ [Next]_vars => HalfBuilt'
<1> SUFFICES ASSUME LockInv, HalfBuilt, [Next]_vars
             PROVE  HalfBuilt'
  OBVIOUS
<1> USE DEF HalfBuilt
<1>1. CASE (\E input \in Inputs : StartSync(input)) \/ BuildLock \/ BuildStep
  BY <1>1 DEF StartSync, ReadRoute, BuildLock, BuildStep, BuildRoute, NoParentFound,
     BuildEnds, SendUpdate, BuildUnlock
<1>2. CASE RLock \/ GetRoutesStep \/ StopListening \/ UNCHANGED vars
  BY <1>2 DEF RLock, GetRoutesStep, CallRLock, Sort, RUnlock, SwapRouter, StopListening
<1> QED
  BY <1>1, <1>2 DEF Next, Halted

(* The nodes and edges that a route adds are those of routes that were     *)
(* read.                                                                   *)
LEMMA AddsOnlyRead ==
  ASSUME G!TypeOK, LockInv, NEW n \in Names, BuildRoute(n)
  PROVE  /\ \A k \in G!Nodes' : k \in G!Nodes \/ k \in Read
         /\ \A k \in Names : \A p \in G!DependenciesOf(k)' :
              p \in G!DependenciesOf(k) \/ routesMap[k] = [name |-> k, parent |-> p]
<1> DEFINE r == routesMap[n]
<1>1. r \in Routes /\ r.name = n /\ n \in Read
  BY DEF BuildRoute, LockInv, StateOK, Named, Visiting, Read
<1>2. /\ val \in [Names -> Routes \cup {None}]
      /\ dependencies \in [Names -> Seq(Names)]
  BY DEF G!TypeOK
<1>3. CASE r.parent = NoParent /\ G!AddSingleNode(r)
  BY <1>1, <1>2, <1>3 DEF G!AddSingleNode, G!WithNode, G!Nodes, G!DependenciesOf
<1>4. CASE r.parent \in Read /\ G!AddEdge(r, routesMap[r.parent])
  <2>1. routesMap[r.parent] \in Routes /\ routesMap[r.parent].name = r.parent
    BY <1>4 DEF LockInv, StateOK, Named, Read
  <2>2. \A k \in G!Nodes' : k \in G!Nodes \/ k \in Read
    BY <1>1, <1>2, <1>4, <2>1 DEF G!AddEdge, G!WithNode, G!Nodes
  <2>3. dependencies' = [dependencies EXCEPT ![n] = Append(@, r.parent)]
    BY <1>1, <1>4, <2>1 DEF G!AddEdge
  <2>4. \A p \in G!DependenciesOf(n)' : p \in G!DependenciesOf(n) \/ p = r.parent
    <3>1. /\ dependencies'[n] = Append(dependencies[n], r.parent)
          /\ dependencies[n] \in Seq(Names) /\ r.parent \in Names
      BY <1>2, <1>4, <2>3 DEF Read
    <3>2. \A i \in DOMAIN dependencies'[n] :
            \/ i \in DOMAIN dependencies[n] /\ dependencies'[n][i] = dependencies[n][i]
            \/ dependencies'[n][i] = r.parent
      BY <3>1
    <3> QED
      BY <3>2 DEF G!DependenciesOf
  <2>5. r = [name |-> n, parent |-> r.parent]
    BY <1>1 DEF Routes
  <2>6. \A k \in Names \ {n} : G!DependenciesOf(k)' = G!DependenciesOf(k)
    BY <1>2, <2>3 DEF G!DependenciesOf
  <2> QED
    BY <2>2, <2>4, <2>5, <2>6
<1> QED
  BY <1>3, <1>4 DEF BuildRoute, AddRoute

(* Steps that add nothing to the graph.                                    *)
LEMMA NothingAdded ==
  ASSUME NothingElse, ~HalfBuilt, UNCHANGED <<val, dependencies>>,
         built \subseteq built',
         sync # "build" \/ (sync' = "build" /\ routesMap' = routesMap)
  PROVE  NothingElse'
BY DEF NothingElse, NodeOK, EdgeOK, Read, G!Nodes, G!DependenciesOf

LEMMA NextNothingElse ==
  ASSUME G!TypeOK, LockInv, NothingElse, [Next]_vars
  PROVE  NothingElse'
<1>1. CASE HalfBuilt
  BY <1>1, HalfBuiltStays DEF NothingElse
<1> SUFFICES ASSUME ~HalfBuilt PROVE NothingElse'
  BY <1>1
<1>2. ASSUME NEW n \in Names, BuildRoute(n) PROVE NothingElse'
  <2>1. sync = "build" /\ sync' = "build" /\ UNCHANGED <<routesMap, built>>
    BY <1>2 DEF BuildRoute
  <2>2. \A k \in G!Nodes' : NodeOK(k)'
    BY <1>2, <2>1, AddsOnlyRead DEF NothingElse, NodeOK, Read
  <2>3. \A k \in Names : \A p \in G!DependenciesOf(k)' : EdgeOK(k, p)'
    <3> SUFFICES ASSUME NEW k \in Names, NEW p \in G!DependenciesOf(k)'
                 PROVE  EdgeOK(k, p)'
      OBVIOUS
    <3>1. CASE routesMap[k] = [name |-> k, parent |-> p]
      BY <2>1, <3>1 DEF EdgeOK
    <3>2. CASE p \in G!DependenciesOf(k)
      <4>1. EdgeOK(k, p)
        BY <3>2 DEF NothingElse
      <4> QED
        BY <2>1, <4>1 DEF EdgeOK
    <3> QED
      BY <1>2, <3>1, <3>2, AddsOnlyRead
  <2> QED
    BY <2>2, <2>3 DEF NothingElse
<1>3. CASE BuildEnds
  <2>1. /\ sync = "build" /\ UNCHANGED <<val, dependencies>>
        /\ built' = built \cup {routesMap[n] : n \in Read}
    BY <1>3 DEF BuildEnds
  <2>2. \A n \in Names : NodeOK(n) => NodeOK(n)'
    BY <2>1 DEF NodeOK, LockInv, Named
  <2>3. \A n \in Names, p \in Names : EdgeOK(n, p) => EdgeOK(n, p)'
    <3> SUFFICES ASSUME NEW n \in Names, NEW p \in Names, EdgeOK(n, p)
                 PROVE  [name |-> n, parent |-> p] \in built'
      BY DEF EdgeOK
    <3>1. CASE [name |-> n, parent |-> p] \in built
      BY <2>1, <3>1
    <3>2. CASE routesMap[n] = [name |-> n, parent |-> p]
      <4>1. [name |-> n, parent |-> p] \in Routes
        BY DEF Routes
      <4>2. n \in Read
        BY <3>2, <4>1 DEF Read
      <4> QED
        BY <2>1, <3>2, <4>2
    <3> QED
      BY <3>1, <3>2 DEF EdgeOK
  <2>4. \A n \in Names : G!DependenciesOf(n) \subseteq Names
    BY DEF G!TypeOK, G!Nodes, G!DependenciesOf
  <2>5. G!Nodes' = G!Nodes /\ G!Nodes \subseteq Names /\ \A n \in Names : G!DependenciesOf(n)' = G!DependenciesOf(n)
    BY <2>1 DEF G!Nodes, G!DependenciesOf
  <2> QED
    BY <2>2, <2>3, <2>4, <2>5 DEF NothingElse
<1>4. ASSUME NEW n \in Names, NoParentFound(n) PROVE NothingElse'
  BY <1>4 DEF NoParentFound, NothingElse, HalfBuilt
<1>5. CASE (\E input \in Inputs : StartSync(input)) \/ ReadRoute \/ BuildLock
           \/ SendUpdate \/ BuildUnlock
  BY <1>5, NothingAdded DEF StartSync, ReadRoute, BuildLock, SendUpdate, BuildUnlock
<1>6. CASE CallRLock \/ RLock \/ RUnlock \/ SwapRouter \/ StopListening \/ UNCHANGED vars
  <2>1. UNCHANGED <<val, dependencies, routesMap, built, sync>>
    BY <1>6 DEF CallRLock, RLock, RUnlock, SwapRouter, StopListening, G!StartSort,
       G!graphVars
  <2> QED
    BY <2>1, NothingAdded
<1>7. CASE Sort
  <2>1. UNCHANGED <<val, dependencies, routesMap, built, sync>>
    BY <1>7, SortAddsNothing DEF Sort
  <2> QED
    BY <2>1, NothingAdded
<1> QED
  BY <1>2, <1>3, <1>4, <1>5, <1>6, <1>7 DEF Next, BuildStep, GetRoutesStep, Halted

LEMMA NothingElseHolds == Spec => []NothingElse
<1>1. Init => NothingElse
  BY DEF Init, G!Init, NothingElse, G!Nodes, G!DependenciesOf
<1>2. LockInv /\ G!TypeOK /\ NothingElse /\ [Next]_vars => NothingElse'
  BY NextNothingElse
<1> QED
  BY <1>1, <1>2, LockHolds, GraphTyped, PTL DEF Spec

(* routes.go:56-90.  A sort has all the routes of the Builds that went     *)
(* through, with the edges to their parents, and but for the last Build, if*)
(* it failed half way, nothing else, however many routes there are and in  *)
(* whatever order Build visits them.                                       *)
THEOREM WholeBuildIsSorted == Spec => []SortsWholeBuild
<1>1. LockInv /\ BuildInv /\ NothingElse => SortsWholeBuild
  <2> SUFFICES ASSUME LockInv, BuildInv, NothingElse, loop = "sorting", ~HalfBuilt
               PROVE  \A n \in G!Nodes : OfBuilds(n)
    BY DEF SortsWholeBuild, BuildInv
  <2>1. sync # "build"
    BY DEF LockInv, Exclusion
  <2> QED
    BY <2>1 DEF NothingElse, NodeOK, EdgeOK, OfBuilds, G!Nodes
<1> QED
  BY <1>1, LockHolds, BuildHolds, NothingElseHolds, PTL
=============================================================================
