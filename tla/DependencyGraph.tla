-------------------------- MODULE DependencyGraph --------------------------
(***************************************************************************)
(* The generic dependency graph of src/pkg/state/dependency_graph.go, in   *)
(* which the routes state keeps the routes and their parents.              *)
(*                                                                         *)
(* A caller adds nodes and edges and asks for a topological sort, which is *)
(* a depth-first search: one step here is one call of visit, one look at a *)
(* dependency, or one return.  Roots are taken in the order of a Go map,   *)
(* which is any order.                                                     *)
(***************************************************************************)
EXTENDS Naturals, Sequences, FiniteSets

CONSTANTS Vals,             \* what nodes hold (the type parameter T)
          Keys,             \* the keys of g.nodes
          KeyOf,            \* KeyOf[v]: the key of v, as keyGetter computes it
          None,             \* absence of a node
          MaxDependencies   \* bound on the length of a list of dependencies

ASSUME GraphAssumption ==
  /\ KeyOf \in [Vals -> Keys]
  /\ None \notin Vals
  /\ MaxDependencies \in Nat

VARIABLES
  val,           \* val[k]: the value of the node with key k, None if no node
  dependencies,  \* dependencies[k]: the keys of the nodes it depends on
  phase,         \* "idle", "sorting", or "panicked"
  visited,       \* the keys that the current sort visited
  stack,         \* its calls of visit: a node, the next dependency to look at
  list           \* the nodes it has left, the last one first

graphVars == <<val, dependencies>>
sortVars == <<visited, stack, list>>
vars == <<graphVars, phase, sortVars>>

Nodes == {k \in Keys : val[k] # None}
DependenciesOf(k) == {dependencies[k][i] : i \in DOMAIN dependencies[k]}
Frame == [node : Keys, next : Nat \ {0}]

Init ==
  /\ val = [k \in Keys |-> None]
  /\ dependencies = [k \in Keys |-> <<>>]
  /\ phase = "idle"
  /\ visited = {}
  /\ stack = <<>>
  /\ list = <<>>

-----------------------------------------------------------------------------
(* A node that exists keeps the value it was created with.                 *)
WithNode(nodes, v) ==
  IF nodes[KeyOf[v]] = None THEN [nodes EXCEPT ![KeyOf[v]] = v] ELSE nodes

AddSingleNode(v) ==
  /\ val' = WithNode(val, v)
  /\ UNCHANGED <<dependencies, phase, sortVars>>

(* Variant: the target of an edge is not made a node.                      *)
AddDanglingEdge(from, to) ==
  /\ Len(dependencies[KeyOf[from]]) < MaxDependencies
  /\ val' = WithNode(val, from)
  /\ dependencies' = [dependencies EXCEPT ![KeyOf[from]] = Append(@, KeyOf[to])]
  /\ UNCHANGED <<phase, sortVars>>

(* An edge that exists already is added once more.                         *)
AddEdge(from, to) ==
  /\ Len(dependencies[KeyOf[from]]) < MaxDependencies
  /\ val' = WithNode(WithNode(val, from), to)
  /\ dependencies' = [dependencies EXCEPT ![KeyOf[from]] = Append(@, KeyOf[to])]
  /\ UNCHANGED <<phase, sortVars>>

-----------------------------------------------------------------------------
StartSort ==
  /\ phase = "idle"
  /\ phase' = "sorting"
  /\ visited' = {} /\ stack' = <<>> /\ list' = <<>>
  /\ UNCHANGED graphVars

Call(k) == [node |-> k, next |-> 1]
Top == stack[Len(stack)]
Pop == SubSeq(stack, 1, Len(stack) - 1)

VisitRoot(k) ==
  /\ phase = "sorting" /\ stack = <<>>
  /\ k \in Nodes \ visited
  /\ visited' = visited \cup {k}
  /\ stack' = << Call(k) >>
  /\ UNCHANGED <<graphVars, phase, list>>

(* The call at the top looks at its next dependency.                       *)
Looking ==
  /\ phase = "sorting" /\ stack # <<>>
  /\ Top.next <= Len(dependencies[Top.node])

Dependency == dependencies[Top.node][Top.next]
Advanced == [stack EXCEPT ![Len(stack)].next = @ + 1]

(* Variant: a visited dependency is skipped without moving to the next.    *)
StayAtVisited ==
  /\ Looking
  /\ Dependency \in visited
  /\ UNCHANGED <<graphVars, phase, visited, stack, list>>

SkipVisited ==
  /\ Looking
  /\ Dependency \in visited
  /\ stack' = Advanced
  /\ UNCHANGED <<graphVars, phase, visited, list>>

(* Variant: a dependency is visited without being marked.                  *)
VisitUnmarked ==
  /\ Looking
  /\ Dependency \notin visited
  /\ stack' = Append(Advanced, Call(Dependency))
  /\ UNCHANGED <<graphVars, phase, visited, list>>

VisitDependency ==
  /\ Looking
  /\ Dependency \notin visited
  /\ visited' = visited \cup {Dependency}
  /\ stack' = Append(Advanced, Call(Dependency))
  /\ UNCHANGED <<graphVars, phase, list>>

(* Variant: a node goes to the back of the list.                           *)
LeaveToBack ==
  /\ phase = "sorting" /\ stack # <<>>
  /\ Top.next > Len(dependencies[Top.node])
  /\ list' = Append(list, Top.node)
  /\ stack' = Pop
  /\ UNCHANGED <<graphVars, phase, visited>>

(* All its dependencies looked at, the node goes to the front of the list. *)
LeaveNode ==
  /\ phase = "sorting" /\ stack # <<>>
  /\ Top.next > Len(dependencies[Top.node])
  /\ list' = << Top.node >> \o list
  /\ stack' = Pop
  /\ UNCHANGED <<graphVars, phase, visited>>

(* The result is copied from the list, each element asserted to be a T.    *)
(* The elements are of type *node[T], so the first assertion panics.       *)
Collect ==
  /\ phase = "sorting" /\ stack = <<>>
  /\ Nodes \subseteq visited
  /\ phase' = IF list = <<>> THEN "idle" ELSE "panicked"
  /\ UNCHANGED <<graphVars, sortVars>>

Halted == phase = "panicked" /\ UNCHANGED vars

SortStep ==
  \/ \E k \in Keys : VisitRoot(k)
  \/ SkipVisited \/ VisitDependency \/ LeaveNode \/ Collect

(* The caller adds nothing while it sorts: the graph has no lock.          *)
Next ==
  \/ phase = "idle" /\ \E v \in Vals : AddSingleNode(v)
  \/ phase = "idle" /\ \E from, to \in Vals : AddEdge(from, to)
  \/ StartSort \/ SortStep \/ Halted

Spec == Init /\ [][Next]_vars

(* A sort runs on; nothing forces the caller to sort or to add.            *)
FairSpec == Spec /\ WF_vars(SortStep)

-----------------------------------------------------------------------------
(* The types of the variables, and that edges join nodes of the graph      *)
(* (dependency_graph.go:30-47), so that visit never meets a nil node.      *)
TypeOK ==
  /\ val \in [Keys -> Vals \cup {None}]
  /\ \A k \in Nodes : KeyOf[val[k]] = k
  /\ dependencies \in [Keys -> Seq(Keys)]
  /\ \A k \in Keys : DependenciesOf(k) \subseteq Nodes
  /\ phase \in {"idle", "sorting", "panicked"}
  /\ visited \subseteq Nodes \/ phase # "sorting"
  /\ stack \in Seq(Frame)
  /\ list \in Seq(Keys)

Listed == {list[i] : i \in DOMAIN list}
OnStack == {stack[i].node : i \in DOMAIN stack}

ListedOnce == \A i, j \in DOMAIN list : list[i] = list[j] => i = j

(* dependency_graph.go:56-83.  A node is listed at most once, however many *)
(* paths lead to it and however often an edge was added, and when the      *)
(* search is back at the outer loop all that it visited is listed.         *)
EachNodeOnce ==
  phase = "sorting" => ListedOnce /\ (stack = <<>> => Listed = visited)

(* k depends on m, directly or not (or is m): m is in every set that       *)
(* contains k and the dependencies of its elements.                        *)
Closed(S) == \A k \in S : DependenciesOf(k) \subseteq S
Reaches(k, m) == \A S \in SUBSET Keys : k \in S /\ Closed(S) => m \in S

(* dependency_graph.go:56-83.  The list is in topological order, every     *)
(* node before those it depends on: only a dependency that itself depends  *)
(* on the node, on a cycle, may be listed elsewhere.                       *)
DependentsFirst ==
  phase = "sorting" =>
    \A i \in DOMAIN list : \A d \in DependenciesOf(list[i]) :
      \/ \E j \in DOMAIN list : j > i /\ list[j] = d
      \/ Reaches(d, list[i])

(* dependency_graph.go:49-91.  The sort comes to its end, on cyclic graphs *)
(* too: visited is marked before the dependencies are looked at.           *)
SortReturns == phase = "sorting" ~> phase # "sorting"

(* dependency_graph.go:86 asserts that what the list holds is a T.         *)
ListHoldsValues == phase # "panicked"

-----------------------------------------------------------------------------
(* The search in progress: what it visited is listed or still on the       *)
(* stack, the calls on the stack depend on each other, and the             *)
(* dependencies they looked at are visited.                                *)
VisitedOK ==
  /\ visited = Listed \cup OnStack
  /\ Listed \cap OnStack = {}

StackChain ==
  \A i, j \in DOMAIN stack : i <= j => Reaches(stack[i].node, stack[j].node)

StackOnce ==
  \A i, j \in DOMAIN stack : stack[i].node = stack[j].node => i = j

LookedAtVisited ==
  \A i \in DOMAIN stack :
    \A m \in DOMAIN dependencies[stack[i].node] :
      m < stack[i].next => dependencies[stack[i].node][m] \in visited

SearchOK ==
  phase = "sorting" =>
    VisitedOK /\ ListedOnce /\ StackChain /\ StackOnce /\ LookedAtVisited

SearchInv == TypeOK /\ SearchOK /\ DependentsFirst
=============================================================================
