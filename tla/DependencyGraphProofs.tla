----------------------- MODULE DependencyGraphProofs -----------------------
(***************************************************************************)
(* Theorems about DependencyGraph, for any graph: cyclic ones, self loops  *)
(* and repeated edges included, and for any order of the roots.            *)
(***************************************************************************)
EXTENDS DependencyGraph, SequenceTheorems, FiniteSetTheorems, TLAPS

USE GraphAssumption

-----------------------------------------------------------------------------
(* Reachability.                                                           *)

LEMMA ReachesItself == \A k : Reaches(k, k)
BY DEF Reaches

LEMMA ReachesFurther ==
  ASSUME NEW k, NEW m \in Keys, NEW d \in DependenciesOf(m), Reaches(k, m)
  PROVE  Reaches(k, d)
BY DEF Reaches, Closed

LEMMA ReachesUnchanged ==
  ASSUME UNCHANGED dependencies
  PROVE  \A k, m \in Keys : Reaches(k, m)' <=> Reaches(k, m)
BY DEF Reaches, Closed, DependenciesOf

-----------------------------------------------------------------------------
(* The stack.                                                              *)

LEMMA StackFacts ==
  ASSUME TypeOK
  PROVE  /\ Len(stack) \in Nat
         /\ DOMAIN stack = 1 .. Len(stack)
         /\ \A i \in 1 .. Len(stack) : stack[i] \in Frame
         /\ stack # <<>> => Len(stack) \in 1 .. Len(stack)
<1>1. stack \in Seq(Frame)
  BY DEF TypeOK
<1>2. Len(stack) \in Nat /\ DOMAIN stack = 1 .. Len(stack)
  BY <1>1, LenProperties
<1>3. stack # <<>> => Len(stack) # 0
  BY <1>1, EmptySeq
<1> QED
  BY <1>1, <1>2, <1>3, ElementOfSeq

LEMMA ListFacts ==
  ASSUME TypeOK
  PROVE  /\ Len(list) \in Nat
         /\ DOMAIN list = 1 .. Len(list)
         /\ \A i \in 1 .. Len(list) : list[i] \in Keys
BY LenProperties, ElementOfSeq DEF TypeOK

LEMMA PopEffect ==
  ASSUME TypeOK, stack # <<>>
  PROVE  /\ Pop \in Seq(Frame)
         /\ Len(Pop) = Len(stack) - 1
         /\ DOMAIN Pop = 1 .. Len(stack) - 1
         /\ \A i \in 1 .. Len(stack) - 1 : Pop[i] = stack[i]
<1> DEFINE n == Len(stack) - 1
<1>1. n \in Nat /\ \A i \in 1 .. n : stack[i] \in Frame
  BY StackFacts
<1>2. /\ SubSeq(stack, 1, n) \in Seq(Frame)
      /\ Len(SubSeq(stack, 1, n)) = IF 1 <= n THEN n - 1 + 1 ELSE 0
      /\ \A i \in 1 .. n - 1 + 1 : SubSeq(stack, 1, n)[i] = stack[1 + i - 1]
  <2> HIDE DEF n
  <2> QED
    BY <1>1, SubSeqProperties
<1>3. Len(Pop) = n /\ Pop \in Seq(Frame)
  <2>1. Len(SubSeq(stack, 1, n)) = n
    BY <1>1, <1>2, StackFacts
  <2> QED
    BY <1>2, <2>1 DEF Pop
<1>4. DOMAIN Pop = 1 .. n
  BY <1>3, LenProperties
<1>5. \A i \in 1 .. n : Pop[i] = stack[i]
  BY <1>1, <1>2 DEF Pop
<1> QED
  BY <1>3, <1>4, <1>5

LEMMA AdvanceEffect ==
  ASSUME TypeOK, Looking
  PROVE  /\ Advanced \in Seq(Frame)
         /\ Len(Advanced) = Len(stack)
         /\ DOMAIN Advanced = 1 .. Len(stack)
         /\ \A i \in 1 .. Len(stack) :
              /\ Advanced[i].node = stack[i].node
              /\ Advanced[i].next = IF i = Len(stack) THEN stack[i].next + 1
                                                      ELSE stack[i].next
<1> DEFINE n == Len(stack)
           f == [stack[n] EXCEPT !.next = @ + 1]
<1>1. stack \in Seq(Frame) /\ n \in 1 .. Len(stack) /\ stack[n] \in Frame
  BY StackFacts DEF Looking, TypeOK
<1>2. /\ f \in Frame
      /\ f.node = stack[n].node
      /\ f.next = stack[n].next + 1
  <2>1. \A r \in Frame : /\ [r EXCEPT !.next = @ + 1] \in Frame
                          /\ [r EXCEPT !.next = @ + 1].node = r.node
                          /\ [r EXCEPT !.next = @ + 1].next = r.next + 1
    BY DEF Frame
  <2> QED
    BY <1>1, <2>1
<1>3. Advanced = [stack EXCEPT ![n] = f]
  BY DEF Advanced
<1>4. /\ Advanced \in Seq(Frame)
      /\ Len(Advanced) = Len(stack)
      /\ \A i \in 1 .. Len(stack) : Advanced[i] = IF i = n THEN f ELSE stack[i]
  <2> HIDE DEF n, f
  <2> QED
    BY <1>1, <1>2, <1>3, ExceptSeq
<1>5. DOMAIN Advanced = 1 .. Len(stack)
  BY <1>4, LenProperties
<1> QED
  BY <1>2, <1>4, <1>5

(* The dependency looked at is a node of the graph.                        *)
LEMMA DependencyFacts ==
  ASSUME TypeOK, Looking
  PROVE  /\ Top.node \in Keys
         /\ Top.next \in DOMAIN dependencies[Top.node]
         /\ Dependency \in DependenciesOf(Top.node)
         /\ Dependency \in Nodes
         /\ Dependency \in Keys
<1>1. Top \in Frame
  BY StackFacts DEF Looking, Top
<1>2. Top.node \in Keys /\ Top.next \in Nat \ {0}
  BY <1>1 DEF Frame
<1>3. Top.next \in DOMAIN dependencies[Top.node]
  <2>1. dependencies[Top.node] \in Seq(Keys)
    BY <1>2 DEF TypeOK
  <2> QED
    BY <1>2, <2>1, LenProperties DEF Looking
<1>4. Dependency \in DependenciesOf(Top.node)
  BY <1>3 DEF Dependency, DependenciesOf
<1> QED
  BY <1>2, <1>3, <1>4 DEF TypeOK, Nodes

-----------------------------------------------------------------------------
(* One lemma for each step of the search.                                  *)

LEMMA OrderUnchanged ==
  ASSUME TypeOK, DependentsFirst, phase = "sorting",
         UNCHANGED <<phase, dependencies, list>>
  PROVE  DependentsFirst'
<1>1. ASSUME NEW i \in DOMAIN list, NEW d \in DependenciesOf(list[i])
      PROVE  \/ \E j \in DOMAIN list : j > i /\ list[j] = d
             \/ Reaches(d, list[i])'
  <2>1. list[i] \in Keys
    BY ListFacts
  <2>2. d \in Keys
    BY <2>1 DEF TypeOK, Nodes
  <2> QED
    BY <2>1, <2>2, ReachesUnchanged DEF DependentsFirst
<1>2. \A i \in DOMAIN list : DependenciesOf(list[i])' = DependenciesOf(list[i])
  BY DEF DependenciesOf
<1> QED
  BY <1>1, <1>2 DEF DependentsFirst

LEMMA VisitRootKeeps ==
  ASSUME SearchInv, NEW k \in Keys, VisitRoot(k)
  PROVE  SearchInv'
<1>1. /\ phase = "sorting" /\ stack = <<>> /\ k \in Nodes \ visited
      /\ visited' = visited \cup {k} /\ stack' = << Call(k) >>
      /\ UNCHANGED <<val, dependencies, phase, list>>
  BY DEF VisitRoot, graphVars
<1>2. /\ stack' \in Seq(Frame) /\ DOMAIN stack' = {1} /\ stack'[1] = Call(k)
      /\ Call(k).node = k /\ Call(k).next = 1
  BY <1>1 DEF Call, Frame
<1>3. TypeOK'
  BY <1>1, <1>2 DEF SearchInv, TypeOK, Nodes, DependenciesOf
<1>4. OnStack = {} /\ OnStack' = {k} /\ Listed' = Listed
  BY <1>1, <1>2 DEF OnStack, Listed
<1>5. VisitedOK'
  BY <1>1, <1>4 DEF SearchInv, SearchOK, VisitedOK
<1>6. StackChain' /\ StackOnce' /\ ListedOnce'
  BY <1>1, <1>2, ReachesItself, ReachesUnchanged
  DEF SearchInv, SearchOK, StackChain, StackOnce, ListedOnce
<1>7. LookedAtVisited'
  <2>1. \A m \in DOMAIN dependencies[k] : m \in Nat \ {0}
    BY LenProperties DEF SearchInv, TypeOK
  <2> QED
    BY <1>1, <1>2, <2>1 DEF LookedAtVisited
<1>8. DependentsFirst'
  BY <1>1, OrderUnchanged DEF SearchInv
<1> QED
  BY <1>1, <1>3, <1>5, <1>6, <1>7, <1>8 DEF SearchInv, SearchOK

LEMMA SkipVisitedKeeps ==
  ASSUME SearchInv, SkipVisited
  PROVE  SearchInv'
<1>1. /\ phase = "sorting" /\ Looking /\ Dependency \in visited
      /\ stack' = Advanced
      /\ UNCHANGED <<val, dependencies, phase, visited, list>>
  BY DEF SkipVisited, Looking, graphVars
<1>2. /\ stack' \in Seq(Frame)
      /\ DOMAIN stack' = DOMAIN stack
      /\ \A i \in DOMAIN stack : stack'[i].node = stack[i].node
  BY <1>1, AdvanceEffect, StackFacts DEF SearchInv
<1>3. TypeOK'
  BY <1>1, <1>2 DEF SearchInv, TypeOK, Nodes, DependenciesOf
<1>4. OnStack' = OnStack /\ Listed' = Listed
  BY <1>1, <1>2 DEF OnStack, Listed
<1>5. VisitedOK' /\ StackOnce' /\ ListedOnce'
  BY <1>1, <1>2, <1>4
  DEF SearchInv, SearchOK, VisitedOK, StackOnce, ListedOnce
<1>6. StackChain'
  <2>1. \A i \in DOMAIN stack : stack[i].node \in Keys
    BY StackFacts DEF SearchInv, Frame
  <2> QED
    BY <1>1, <1>2, <2>1, ReachesUnchanged DEF SearchInv, SearchOK, StackChain
<1>7. LookedAtVisited'
  <2> SUFFICES ASSUME NEW i \in DOMAIN stack,
                      NEW m \in DOMAIN dependencies[stack[i].node],
                      m < stack'[i].next
               PROVE  dependencies[stack[i].node][m] \in visited
    BY <1>1, <1>2 DEF LookedAtVisited
  <2>1. CASE m < stack[i].next
    BY <1>1, <2>1 DEF SearchInv, SearchOK, LookedAtVisited
  <2>2. CASE ~(m < stack[i].next)
    <3>1. stack[i] \in Frame /\ dependencies[stack[i].node] \in Seq(Keys)
      BY StackFacts DEF SearchInv, TypeOK, Frame
    <3>2. m \in Nat /\ stack[i].next \in Nat
      BY <3>1, LenProperties DEF Frame
    <3>3. i = Len(stack) /\ m = stack[i].next
      BY <1>1, <2>2, <3>2, AdvanceEffect, StackFacts DEF SearchInv
    <3> QED
      BY <1>1, <3>3 DEF Dependency, Top
  <2> QED
    BY <2>1, <2>2
<1>8. DependentsFirst'
  BY <1>1, OrderUnchanged DEF SearchInv
<1> QED
  BY <1>1, <1>3, <1>5, <1>6, <1>7, <1>8 DEF SearchInv, SearchOK

LEMMA VisitDependencyKeeps ==
  ASSUME SearchInv, VisitDependency
  PROVE  SearchInv'
<1> DEFINE n == Len(stack)
           d == Dependency
<1>1. /\ phase = "sorting" /\ Looking /\ d \notin visited
      /\ visited' = visited \cup {d}
      /\ stack' = Append(Advanced, Call(d))
      /\ UNCHANGED <<val, dependencies, phase, list>>
  BY DEF VisitDependency, Looking, graphVars
<1>2. /\ d \in Nodes /\ d \in Keys /\ d \in DependenciesOf(Top.node)
      /\ Top.node \in Keys
  BY <1>1, DependencyFacts DEF SearchInv
<1>3. Call(d) \in Frame /\ Call(d).node = d /\ Call(d).next = 1
  BY <1>2 DEF Call, Frame
<1>4. n \in Nat /\ n \in 1 .. n /\ DOMAIN stack = 1 .. n /\ stack[n] = Top
  BY <1>1, StackFacts DEF SearchInv, Looking, Top
<1>5. /\ stack' \in Seq(Frame)
      /\ DOMAIN stack' = 1 .. n + 1
      /\ \A i \in 1 .. n : stack'[i] = Advanced[i]
      /\ stack'[n + 1] = Call(d)
  <2>1. Advanced \in Seq(Frame) /\ Len(Advanced) = n
    BY <1>1, AdvanceEffect DEF SearchInv
  <2> HIDE DEF n, d
  <2>2. /\ stack' \in Seq(Frame) /\ Len(stack') = n + 1
        /\ \A i \in 1 .. n : stack'[i] = Advanced[i]
        /\ stack'[n + 1] = Call(d)
    BY <1>1, <1>3, <2>1, AppendProperties
  <2> QED
    BY <2>2, LenProperties
<1>6. /\ \A i \in 1 .. n : stack'[i].node = stack[i].node
      /\ stack'[n + 1].node = d
      /\ \A i \in 1 .. n : stack[i].node \in Keys
  BY <1>1, <1>3, <1>5, AdvanceEffect, StackFacts DEF SearchInv, Frame
<1> HIDE DEF n, d
<1>7. TypeOK'
  BY <1>1, <1>2, <1>5 DEF SearchInv, TypeOK, Nodes, DependenciesOf
<1>8. OnStack' = OnStack \cup {d} /\ Listed' = Listed
  BY <1>1, <1>4, <1>5, <1>6 DEF OnStack, Listed
<1>9. VisitedOK' /\ ListedOnce'
  BY <1>1, <1>8 DEF SearchInv, SearchOK, VisitedOK, ListedOnce
<1>10. \A i \in 1 .. n : stack[i].node # d
  BY <1>1, <1>4 DEF SearchInv, SearchOK, VisitedOK, OnStack
<1>11. StackOnce'
  BY <1>1, <1>4, <1>5, <1>6, <1>10 DEF SearchInv, SearchOK, StackOnce
<1>12. StackChain'
  <2>1. \A i \in 1 .. n : Reaches(stack[i].node, Top.node)
    BY <1>1, <1>4 DEF SearchInv, SearchOK, StackChain
  <2>2. \A i \in 1 .. n : Reaches(stack[i].node, d)
    BY <1>2, <2>1, ReachesFurther
  <2>3. ASSUME NEW i \in 1 .. n + 1, NEW j \in 1 .. n + 1, i <= j
        PROVE  Reaches(stack'[i].node, stack'[j].node)
    <3>1. CASE j = n + 1
      BY <1>4, <1>6, <2>2, <2>3, <3>1, ReachesItself
    <3>2. CASE j # n + 1
      <4>1. i \in 1 .. n /\ j \in 1 .. n
        BY <1>4, <2>3, <3>2
      <4> QED
        BY <1>1, <1>4, <1>6, <2>3, <4>1 DEF SearchInv, SearchOK, StackChain
    <3> QED
      BY <3>1, <3>2
  <2>4. \A i \in 1 .. n + 1 : stack'[i].node \in Keys
    BY <1>2, <1>4, <1>6
  <2> QED
    BY <1>1, <1>5, <2>3, <2>4, ReachesUnchanged DEF StackChain
<1>13. LookedAtVisited'
  <2> SUFFICES ASSUME NEW i \in 1 .. n + 1,
                      NEW m \in DOMAIN dependencies[stack'[i].node],
                      m < stack'[i].next
               PROVE  dependencies[stack'[i].node][m] \in visited \cup {d}
    BY <1>1, <1>5 DEF LookedAtVisited
  <2>1. stack'[i].node \in Keys
    BY <1>2, <1>4, <1>6
  <2>2. m \in Nat \ {0}
    BY <2>1, LenProperties DEF SearchInv, TypeOK
  <2>3. i \in 1 .. n
    BY <1>3, <1>4, <1>5, <2>2
  <2>4. CASE m < stack[i].next
    BY <1>1, <1>4, <1>6, <2>3, <2>4 DEF SearchInv, SearchOK, LookedAtVisited
  <2>5. CASE ~(m < stack[i].next)
    <3>1. stack[i].next \in Nat
      BY <1>4, <2>3, StackFacts DEF SearchInv, Frame
    <3>2. /\ stack'[i].next = IF i = n THEN stack[i].next + 1 ELSE stack[i].next
      BY <1>1, <1>5, <2>3, AdvanceEffect DEF SearchInv, n
    <3>3. i = n /\ m = stack[i].next
      BY <2>2, <2>5, <3>1, <3>2
    <3> QED
      BY <1>4, <1>6, <3>3 DEF d, Dependency, Top
  <2> QED
    BY <2>4, <2>5
<1>14. DependentsFirst'
  BY <1>1, OrderUnchanged DEF SearchInv
<1> QED
  BY <1>1, <1>7, <1>9, <1>11, <1>12, <1>13, <1>14 DEF SearchInv, SearchOK

LEMMA LeaveNodeKeeps ==
  ASSUME SearchInv, LeaveNode
  PROVE  SearchInv'
<1> DEFINE n == Len(stack)
           k == Top.node
<1>1. /\ phase = "sorting" /\ stack # <<>>
      /\ Top.next > Len(dependencies[k])
      /\ list' = << k >> \o list /\ stack' = Pop
      /\ UNCHANGED <<val, dependencies, phase, visited>>
  BY DEF LeaveNode, graphVars
<1>2. n \in Nat \ {0} /\ DOMAIN stack = 1 .. n /\ stack[n] = Top
  BY <1>1, StackFacts DEF SearchInv, Top
<1>3. /\ \A i \in 1 .. n : stack[i].node \in Keys
      /\ Top.next \in Nat
      /\ k \in Keys
  BY <1>2, StackFacts DEF SearchInv, Frame
<1>4. /\ stack' \in Seq(Frame)
      /\ DOMAIN stack' = 1 .. n - 1
      /\ \A i \in 1 .. n - 1 : stack'[i] = stack[i]
  BY <1>1, PopEffect DEF SearchInv
<1>5. /\ list' \in Seq(Keys)
      /\ Len(list) \in Nat /\ DOMAIN list = 1 .. Len(list)
      /\ DOMAIN list' = 1 .. Len(list) + 1
      /\ list'[1] = k
      /\ \A i \in 1 .. Len(list) : list'[i + 1] = list[i]
  <2>1. << k >> \in Seq(Keys) /\ Len(<< k >>) = 1 /\ << k >>[1] = k
    BY <1>3
  <2>2. list \in Seq(Keys) /\ Len(list) \in Nat /\ DOMAIN list = 1 .. Len(list)
    BY ListFacts DEF SearchInv, TypeOK
  <2> HIDE DEF k
  <2>3. /\ list' \in Seq(Keys) /\ Len(list') = 1 + Len(list)
        /\ \A i \in 1 .. 1 + Len(list) :
             list'[i] = IF i <= 1 THEN << k >>[i] ELSE list[i - 1]
    BY <1>1, <2>1, <2>2, ConcatProperties
  <2>4. DOMAIN list' = 1 .. Len(list')
    BY <2>3, LenProperties
  <2> QED
    BY <2>1, <2>2, <2>3, <2>4
<1> HIDE DEF n, k
<1>6. TypeOK'
  BY <1>1, <1>4, <1>5 DEF SearchInv, TypeOK, Nodes, DependenciesOf
<1>7. Listed' = Listed \cup {k}
  <2>1. Listed' = {list'[i] : i \in 1 .. Len(list) + 1}
    BY <1>5 DEF Listed
  <2>2. ASSUME NEW i \in 1 .. Len(list) + 1
        PROVE  list'[i] = k \/ list'[i] \in Listed
    <3>1. CASE i = 1
      BY <1>5, <3>1
    <3>2. CASE i # 1
      <4>1. i - 1 \in 1 .. Len(list) /\ i = (i - 1) + 1
        BY <1>5, <2>2, <3>2
      <4> QED
        BY <1>5, <4>1 DEF Listed
    <3> QED
      BY <3>1, <3>2
  <2>3. k \in Listed'
    BY <1>5, <2>1
  <2>4. ASSUME NEW i \in 1 .. Len(list)
        PROVE  list[i] \in Listed'
    BY <1>5, <2>1, <2>4
  <2> QED
    BY <1>5, <2>1, <2>2, <2>3, <2>4 DEF Listed
<1>8. stack[n].node = k /\ n \in 1 .. n /\ \A i \in 1 .. n : i <= n
  BY <1>2 DEF k
<1>9. OnStack' = OnStack \ {k} /\ k \in OnStack
  <2>1. ASSUME NEW i \in 1 .. n - 1
        PROVE  stack[i].node # k
    <3>1. i \in 1 .. n /\ i # n
      BY <1>2
    <3> QED
      BY <1>1, <1>2, <1>8, <3>1 DEF SearchInv, SearchOK, StackOnce
  <2> QED
    BY <1>2, <1>4, <1>8, <2>1 DEF OnStack
<1>10. VisitedOK'
  BY <1>1, <1>7, <1>9 DEF SearchInv, SearchOK, VisitedOK
<1>11. k \notin Listed
  BY <1>1, <1>9 DEF SearchInv, SearchOK, VisitedOK
<1>12. ListedOnce'
  <2> SUFFICES ASSUME NEW i \in 1 .. Len(list) + 1, NEW j \in 1 .. Len(list) + 1,
                      list'[i] = list'[j]
               PROVE  i = j
    BY <1>5 DEF ListedOnce
  <2>1. ASSUME NEW m \in 1 .. Len(list) + 1, m # 1
        PROVE  /\ m - 1 \in 1 .. Len(list)
               /\ list'[m] = list[m - 1]
               /\ list'[m] # k
    <3>1. m - 1 \in 1 .. Len(list) /\ m = (m - 1) + 1
      BY <1>5, <2>1
    <3>2. list'[m] = list[m - 1]
      BY <1>5, <3>1
    <3>3. list[m - 1] \in Listed
      BY <1>5, <3>1 DEF Listed
    <3> QED
      BY <1>11, <3>1, <3>2, <3>3
  <2>2. CASE i = 1 \/ j = 1
    BY <1>5, <2>1, <2>2
  <2>3. CASE i # 1 /\ j # 1
    <3>1. list[i - 1] = list[j - 1] /\ i - 1 \in DOMAIN list /\ j - 1 \in DOMAIN list
      BY <1>5, <2>1, <2>3
    <3>2. i - 1 = j - 1
      BY <1>1, <3>1 DEF SearchInv, SearchOK, ListedOnce
    <3> QED
      BY <1>5, <3>2
  <2> QED
    BY <2>2, <2>3
<1>13. StackChain' /\ StackOnce'
  <2>1. \A i \in 1 .. n - 1 : i \in 1 .. n
    BY <1>2
  <2>2. \A i \in 1 .. n - 1 : stack'[i].node = stack[i].node /\ stack[i].node \in Keys
    BY <1>3, <1>4, <2>1
  <2>3. StackOnce'
    BY <1>1, <1>2, <1>4, <2>1, <2>2 DEF SearchInv, SearchOK, StackOnce
  <2>4. ASSUME NEW i \in 1 .. n - 1, NEW j \in 1 .. n - 1, i <= j
        PROVE  Reaches(stack[i].node, stack[j].node)
    BY <1>1, <1>2, <2>1, <2>4 DEF SearchInv, SearchOK, StackChain
  <2> QED
    BY <1>1, <1>4, <2>2, <2>3, <2>4, ReachesUnchanged DEF StackChain
<1>14. LookedAtVisited'
  <2>1. \A i \in 1 .. n - 1 : i \in DOMAIN stack
    BY <1>2
  <2> QED
    BY <1>1, <1>4, <2>1 DEF SearchInv, SearchOK, LookedAtVisited
<1>15. DependentsFirst'
  <2>0. ASSUME NEW i \in 1 .. Len(list) + 1
        PROVE  /\ list'[i] \in Keys
               /\ DependenciesOf(list'[i]) \subseteq Keys
    <3>1. list'[i] \in Keys
      BY <1>5, <2>0, <1>6, ElementOfSeq, LenProperties
    <3> QED
      BY <3>1 DEF SearchInv, TypeOK, Nodes
  <2>1. \A k1, k2 \in Keys : Reaches(k1, k2)' <=> Reaches(k1, k2)
    BY <1>1, ReachesUnchanged
  <2>2. \A i \in 1 .. Len(list) + 1 :
          DependenciesOf(list[i])' = DependenciesOf(list'[i])
    BY <1>1 DEF DependenciesOf
  <2> DEFINE Placed(i, d) == \/ \E j \in 1 .. Len(list) + 1 : j > i /\ list'[j] = d
                             \/ Reaches(d, list'[i])
  <2> SUFFICES \A i \in 1 .. Len(list) + 1 :
                 \A d \in DependenciesOf(list'[i]) : Placed(i, d)
    <3> SUFFICES ASSUME \A i \in 1 .. Len(list) + 1 :
                          \A d \in DependenciesOf(list'[i]) : Placed(i, d),
                        NEW i \in DOMAIN list', NEW d \in DependenciesOf(list[i])'
                 PROVE  \/ \E j \in DOMAIN list' : j > i /\ list'[j] = d
                        \/ Reaches(d, list[i])'
      BY DEF DependentsFirst
    <3>1. i \in 1 .. Len(list) + 1
      BY <1>5
    <3>2. d \in DependenciesOf(list'[i])
      BY <2>2, <3>1
    <3>3. Placed(i, d)
      BY <3>1, <3>2
    <3>4. Reaches(d, list[i])' <=> Reaches(d, list'[i])
      BY <2>0, <2>1, <3>1, <3>2
    <3> QED
      BY <1>5, <3>3, <3>4
  <2> SUFFICES ASSUME NEW i \in 1 .. Len(list) + 1,
                      NEW d \in DependenciesOf(list'[i])
               PROVE  Placed(i, d)
    OBVIOUS
  <2>3. CASE i = 1
    <3>1. list'[i] = k
      BY <1>5, <2>3
    <3>2. d \in visited
      <4>1. PICK m \in DOMAIN dependencies[k] : d = dependencies[k][m]
        BY <3>1 DEF DependenciesOf
      <4>2. m \in Nat /\ Len(dependencies[k]) \in Nat /\ m <= Len(dependencies[k])
        BY <1>3, <4>1, LenProperties DEF SearchInv, TypeOK
      <4>3. m < Top.next
        BY <1>1, <1>3, <4>2
      <4> QED
        BY <1>1, <1>2, <1>8, <4>1, <4>3 DEF SearchInv, SearchOK, LookedAtVisited
    <3>3. CASE d \in Listed
      <4>1. PICK j \in 1 .. Len(list) : list[j] = d
        BY <1>5, <3>3 DEF Listed
      <4>2. j + 1 \in 1 .. Len(list) + 1 /\ j + 1 > i /\ list'[j + 1] = d
        BY <1>5, <2>3, <4>1
      <4> QED
        BY <4>2
    <3>4. CASE d \in OnStack
      <4>1. PICK p \in 1 .. n : stack[p].node = d
        BY <1>2, <3>4 DEF OnStack
      <4>2. Reaches(d, k)
        BY <1>1, <1>2, <1>8, <4>1 DEF SearchInv, SearchOK, StackChain
      <4> QED
        BY <3>1, <4>2
    <3> QED
      BY <1>1, <3>2, <3>3, <3>4 DEF SearchInv, SearchOK, VisitedOK
  <2>4. CASE i # 1
    <3>1. i - 1 \in 1 .. Len(list) /\ list'[i] = list[i - 1]
      <4>1. i - 1 \in 1 .. Len(list) /\ i = (i - 1) + 1
        BY <1>5, <2>4
      <4> QED
        BY <1>5, <4>1
    <3>2. CASE Reaches(d, list[i - 1])
      BY <3>1, <3>2
    <3>3. CASE \E j \in DOMAIN list : j > i - 1 /\ list[j] = d
      <4>1. PICK j \in 1 .. Len(list) : j > i - 1 /\ list[j] = d
        BY <1>5, <3>3
      <4>2. j + 1 \in 1 .. Len(list) + 1 /\ j + 1 > i /\ list'[j + 1] = d
        BY <1>5, <4>1
      <4> QED
        BY <4>2
    <3>4. d \in DependenciesOf(list[i - 1])
      BY <3>1
    <3> QED
      BY <1>1, <1>5, <3>1, <3>2, <3>3, <3>4 DEF SearchInv, DependentsFirst
  <2> QED
    BY <2>3, <2>4
<1> QED
  BY <1>1, <1>6, <1>10, <1>12, <1>13, <1>14, <1>15 DEF SearchInv, SearchOK

-----------------------------------------------------------------------------
(* The other steps, and the theorems.                                      *)

(* Adding a node never removes one, and keeps its key.                     *)
LEMMA WithNodeEffect ==
  ASSUME NEW nodes \in [Keys -> Vals \cup {None}], NEW v \in Vals,
         \A k \in Keys : nodes[k] # None => KeyOf[nodes[k]] = k
  PROVE  /\ WithNode(nodes, v) \in [Keys -> Vals \cup {None}]
         /\ WithNode(nodes, v)[KeyOf[v]] # None
         /\ \A k \in Keys : nodes[k] # None => WithNode(nodes, v)[k] # None
         /\ \A k \in Keys : WithNode(nodes, v)[k] # None =>
              KeyOf[WithNode(nodes, v)[k]] = k
BY DEF WithNode

LEMMA AddSingleNodeKeeps ==
  ASSUME SearchInv, phase = "idle", NEW v \in Vals, AddSingleNode(v)
  PROVE  SearchInv'
<1>1. /\ val \in [Keys -> Vals \cup {None}]
      /\ \A k \in Keys : val[k] # None => KeyOf[val[k]] = k
  BY DEF SearchInv, TypeOK, Nodes
<1>2. /\ val' \in [Keys -> Vals \cup {None}]
      /\ \A k \in Keys : val[k] # None => val'[k] # None
      /\ \A k \in Keys : val'[k] # None => KeyOf[val'[k]] = k
  BY <1>1, WithNodeEffect DEF AddSingleNode
<1>3. TypeOK'
  BY <1>2 DEF AddSingleNode, sortVars, SearchInv, TypeOK, Nodes, DependenciesOf
<1> QED
  BY <1>3 DEF AddSingleNode, SearchInv, SearchOK, DependentsFirst

LEMMA AddEdgeKeeps ==
  ASSUME SearchInv, phase = "idle",
         NEW from \in Vals, NEW to \in Vals, AddEdge(from, to)
  PROVE  SearchInv'
<1> DEFINE f == KeyOf[from]
           t == KeyOf[to]
<1>1. /\ val \in [Keys -> Vals \cup {None}]
      /\ \A k \in Keys : val[k] # None => KeyOf[val[k]] = k
      /\ dependencies \in [Keys -> Seq(Keys)]
      /\ f \in Keys /\ t \in Keys
  BY DEF SearchInv, TypeOK, Nodes
<1>2. /\ val' \in [Keys -> Vals \cup {None}]
      /\ val'[f] # None /\ val'[t] # None
      /\ \A k \in Keys : val[k] # None => val'[k] # None
      /\ \A k \in Keys : val'[k] # None => KeyOf[val'[k]] = k
  <2>1. /\ WithNode(val, from) \in [Keys -> Vals \cup {None}]
        /\ WithNode(val, from)[f] # None
        /\ \A k \in Keys : val[k] # None => WithNode(val, from)[k] # None
        /\ \A k \in Keys : WithNode(val, from)[k] # None =>
             KeyOf[WithNode(val, from)[k]] = k
    BY <1>1, WithNodeEffect
  <2> DEFINE w == WithNode(val, from)
  <2>2. val' = WithNode(w, to)
    BY DEF AddEdge
  <2> HIDE DEF w
  <2>3. /\ w \in [Keys -> Vals \cup {None}]
        /\ \A k \in Keys : w[k] # None => KeyOf[w[k]] = k
        /\ w[f] # None
        /\ \A k \in Keys : val[k] # None => w[k] # None
    BY <2>1 DEF w
  <2>4. /\ WithNode(w, to) \in [Keys -> Vals \cup {None}]
        /\ WithNode(w, to)[t] # None
        /\ \A k \in Keys : w[k] # None => WithNode(w, to)[k] # None
        /\ \A k \in Keys : WithNode(w, to)[k] # None =>
             KeyOf[WithNode(w, to)[k]] = k
    BY <2>3, WithNodeEffect
  <2> QED
    BY <1>1, <2>2, <2>3, <2>4
<1>3. /\ dependencies' = [dependencies EXCEPT ![f] = Append(dependencies[f], t)]
      /\ phase = "idle"
      /\ UNCHANGED <<phase, visited, stack, list>>
  BY DEF AddEdge, sortVars
<1> HIDE DEF f, t
<1>4. /\ dependencies' \in [Keys -> Seq(Keys)]
      /\ \A k \in Keys : DependenciesOf(k)' \subseteq DependenciesOf(k) \cup {t}
  <2>1. /\ Append(dependencies[f], t) \in Seq(Keys)
        /\ Len(Append(dependencies[f], t)) = Len(dependencies[f]) + 1
        /\ \A i \in 1 .. Len(dependencies[f]) :
             Append(dependencies[f], t)[i] = dependencies[f][i]
        /\ Append(dependencies[f], t)[Len(dependencies[f]) + 1] = t
    BY <1>1, AppendProperties
  <2>2. /\ DOMAIN dependencies[f] = 1 .. Len(dependencies[f])
        /\ Len(dependencies[f]) \in Nat
        /\ DOMAIN Append(dependencies[f], t) = 1 .. Len(dependencies[f]) + 1
    BY <1>1, <2>1, LenProperties
  <2>3. {Append(dependencies[f], t)[i] : i \in DOMAIN Append(dependencies[f], t)}
          \subseteq {dependencies[f][i] : i \in DOMAIN dependencies[f]} \cup {t}
    BY <2>1, <2>2
  <2>4. dependencies' \in [Keys -> Seq(Keys)]
    BY <1>1, <1>3, <2>1
  <2>5. ASSUME NEW k \in Keys
        PROVE  DependenciesOf(k)' \subseteq DependenciesOf(k) \cup {t}
    <3>1. CASE k = f
      <4>1. dependencies'[k] = Append(dependencies[f], t)
        BY <1>1, <1>3, <3>1
      <4> QED
        BY <2>3, <3>1, <4>1 DEF DependenciesOf
    <3>2. CASE k # f
      <4>1. dependencies'[k] = dependencies[k]
        BY <1>1, <1>3, <2>5, <3>2
      <4> QED
        BY <4>1 DEF DependenciesOf
    <3> QED
      BY <3>1, <3>2
  <2> QED
    BY <2>4, <2>5
<1>5. \A k \in Keys : DependenciesOf(k)' \subseteq Nodes'
  BY <1>1, <1>2, <1>4 DEF SearchInv, TypeOK, Nodes
<1>6. TypeOK'
  BY <1>2, <1>3, <1>4, <1>5 DEF SearchInv, TypeOK, Nodes
<1> QED
  BY <1>3, <1>6 DEF SearchInv, SearchOK, DependentsFirst

(* Nodes and edges are added, and never removed.                           *)
LEMMA NothingRemoved ==
  ASSUME TypeOK, [Next]_vars
  PROVE  \A k \in Keys : /\ val[k] # None => val'[k] # None
                         /\ DependenciesOf(k) \subseteq DependenciesOf(k)'
<1>1. /\ val \in [Keys -> Vals \cup {None}]
      /\ dependencies \in [Keys -> Seq(Keys)]
      /\ \A k \in Keys : val[k] # None => KeyOf[val[k]] = k
  BY DEF TypeOK, Nodes
<1>2. CASE UNCHANGED graphVars
  BY <1>2 DEF graphVars, DependenciesOf
<1>3. ASSUME NEW v \in Vals, AddSingleNode(v)
      PROVE  \A k \in Keys : /\ val[k] # None => val'[k] # None
                             /\ DependenciesOf(k) \subseteq DependenciesOf(k)'
  BY <1>1, <1>3, WithNodeEffect DEF AddSingleNode, DependenciesOf
<1>4. ASSUME NEW from \in Vals, NEW to \in Vals, AddEdge(from, to)
      PROVE  \A k \in Keys : /\ val[k] # None => val'[k] # None
                             /\ DependenciesOf(k) \subseteq DependenciesOf(k)'
  <2> DEFINE nodes == WithNode(val, from)
  <2>1. /\ nodes \in [Keys -> Vals \cup {None}]
        /\ \A k \in Keys : nodes[k] # None => KeyOf[nodes[k]] = k
        /\ \A k \in Keys : val[k] # None => nodes[k] # None
    BY <1>1, WithNodeEffect
  <2>2. \A k \in Keys : val[k] # None => val'[k] # None
    <3> HIDE DEF nodes
    <3>1. \A k \in Keys : nodes[k] # None => WithNode(nodes, to)[k] # None
      BY <2>1, WithNodeEffect
    <3>2. val' = WithNode(nodes, to)
      BY <1>4 DEF AddEdge, nodes
    <3> QED
      BY <2>1, <3>1, <3>2
  <2>3. ASSUME NEW k \in Keys
        PROVE  DependenciesOf(k) \subseteq DependenciesOf(k)'
    <3>1. CASE k = KeyOf[from]
      <4>1. /\ dependencies'[k] = Append(dependencies[k], KeyOf[to])
            /\ dependencies[k] \in Seq(Keys) /\ KeyOf[to] \in Keys
        BY <1>1, <1>4, <3>1 DEF AddEdge
      <4>2. \A i \in DOMAIN dependencies[k] : /\ i \in DOMAIN dependencies'[k]
                                             /\ dependencies'[k][i] = dependencies[k][i]
        BY <4>1
      <4> QED
        BY <4>2 DEF DependenciesOf
    <3>2. CASE k # KeyOf[from]
      BY <1>1, <1>4, <3>2 DEF AddEdge, DependenciesOf
    <3> QED
      BY <3>1, <3>2
  <2> QED
    BY <2>2, <2>3
<1>5. CASE StartSort \/ SortStep \/ Halted
  BY <1>2, <1>5
  DEF StartSort, SortStep, VisitRoot, SkipVisited, VisitDependency, LeaveNode, Collect,
      Halted, vars
<1> QED
  BY <1>2, <1>3, <1>4, <1>5 DEF Next, vars

LEMMA InitSearch == Init => SearchInv
<1> SUFFICES ASSUME Init PROVE SearchInv
  OBVIOUS
<1>1. <<>> \in Seq(Keys) /\ <<>> \in Seq(Frame)
  OBVIOUS
<1>2. TypeOK
  BY <1>1 DEF Init, TypeOK, Nodes, DependenciesOf
<1> QED
  BY <1>2 DEF Init, SearchInv, SearchOK, DependentsFirst

LEMMA NextSearch == SearchInv /\ [Next]_vars => SearchInv'
<1> SUFFICES ASSUME SearchInv, [Next]_vars PROVE SearchInv'
  OBVIOUS
<1>1. CASE StartSort
  <2>1. <<>> \in Seq(Keys) /\ <<>> \in Seq(Frame)
    OBVIOUS
  <2>2. TypeOK'
    BY <1>1, <2>1
    DEF StartSort, graphVars, SearchInv, TypeOK, Nodes, DependenciesOf
  <2>3. SearchOK' /\ DependentsFirst'
    BY <1>1 DEF StartSort, SearchOK, VisitedOK, Listed, OnStack, ListedOnce,
                StackChain, StackOnce, LookedAtVisited, DependentsFirst
  <2> QED
    BY <2>2, <2>3 DEF SearchInv
<1>2. CASE Collect
  <2>1. TypeOK'
    BY <1>2
    DEF Collect, graphVars, sortVars, SearchInv, TypeOK, Nodes, DependenciesOf
  <2> QED
    BY <1>2, <2>1 DEF Collect, SearchInv, SearchOK, DependentsFirst
<1>3. CASE UNCHANGED vars
  <2>1. UNCHANGED <<val, dependencies, phase, visited, stack, list>>
    BY <1>3 DEF vars, graphVars, sortVars
  <2>2. TypeOK'
    BY <2>1 DEF SearchInv, TypeOK, Nodes, DependenciesOf
  <2>3. CASE phase # "sorting"
    BY <2>1, <2>2, <2>3 DEF SearchInv, SearchOK, DependentsFirst
  <2>4. CASE phase = "sorting"
    <3>1. DependentsFirst'
      BY <2>1, <2>4, OrderUnchanged DEF SearchInv
    <3>2. VisitedOK' /\ ListedOnce' /\ StackOnce' /\ LookedAtVisited'
      BY <2>1, <2>4 DEF SearchInv, SearchOK, VisitedOK, Listed, OnStack,
                        ListedOnce, StackOnce, LookedAtVisited
    <3>3. StackChain'
      <4>1. \A i \in DOMAIN stack : stack[i].node \in Keys
        BY StackFacts DEF SearchInv, Frame
      <4> QED
        BY <2>1, <2>4, <4>1, ReachesUnchanged DEF SearchInv, SearchOK, StackChain
    <3> QED
      BY <2>2, <3>1, <3>2, <3>3 DEF SearchInv, SearchOK
  <2> QED
    BY <2>3, <2>4
<1> QED
  BY <1>1, <1>2, <1>3, AddSingleNodeKeeps, AddEdgeKeeps, VisitRootKeeps,
     SkipVisitedKeeps, VisitDependencyKeeps, LeaveNodeKeeps
  DEF Next, SortStep, Halted

LEMMA SearchHolds == Spec => []SearchInv
BY InitSearch, NextSearch, PTL DEF Spec

(* In every list that a sort makes, of any graph, a node stands before all *)
(* that it depends on, except for what depends on it in turn               *)
(* (dependency_graph.go:56-83).                                            *)
THEOREM TopologicalOrder == Spec => []DependentsFirst
<1>1. SearchInv => DependentsFirst
  BY DEF SearchInv
<1> QED
  BY <1>1, SearchHolds, PTL

(* No sort lists a node twice, and back at its outer loop it has listed    *)
(* all the nodes that it visited (dependency_graph.go:56-83).              *)
THEOREM ListedExactlyOnce == Spec => []EachNodeOnce
<1>1. SearchInv => EachNodeOnce
  <2> SUFFICES ASSUME SearchInv, phase = "sorting"
               PROVE  ListedOnce /\ (stack = <<>> => Listed = visited)
    BY DEF EachNodeOnce
  <2>1. stack = <<>> => OnStack = {}
    BY DEF OnStack
  <2> QED
    BY <2>1 DEF SearchInv, SearchOK, VisitedOK
<1> QED
  BY <1>1, SearchHolds, PTL

(* Every edge joins nodes of the graph, so visit is never called with nil. *)
THEOREM GraphTypeCorrect == Spec => []TypeOK
<1>1. SearchInv => TypeOK
  BY DEF SearchInv
<1> QED
  BY <1>1, SearchHolds, PTL
-----------------------------------------------------------------------------
(* The sort comes to an end: what it has to do becomes less.               *)

(* Of each node it has to visit it (0), to look at its dependencies (1 to  *)
(* their number), and to list it (one more).                               *)
Done(k, m) ==
  k \in Listed \/ \E i \in DOMAIN stack : stack[i].node = k /\ m < stack[i].next

Work ==
  {w \in Nodes \X Nat :
     w[2] <= Len(dependencies[w[1]]) + 1 /\ ~Done(w[1], w[2])}

WorkShrinks ==
  phase = "sorting" /\ phase' = "sorting" => Work' \subseteq Work /\ Work' # Work

WorkIsFinite == IsFiniteSet(Work)

(* No call looks further than just behind the last dependency.             *)
StackBounded ==
  phase = "sorting" =>
    \A i \in DOMAIN stack : stack[i].next <= Len(dependencies[stack[i].node]) + 1

LEMMA LessWork ==
  ASSUME TypeOK, UNCHANGED graphVars,
         \A k \in Keys, m \in Nat : Done(k, m) => Done(k, m)',
         NEW k \in Nodes, NEW m \in 0 .. Len(dependencies[k]) + 1,
         ~Done(k, m), Done(k, m)'
  PROVE  Work' \subseteq Work /\ Work' # Work
<1>1. Nodes' = Nodes /\ dependencies' = dependencies /\ Nodes \subseteq Keys
  BY DEF graphVars, Nodes
<1>2. Len(dependencies[k]) \in Nat
  BY <1>1, LenProperties DEF TypeOK
<1>3. Work' = {w \in Nodes \X Nat :
                w[2] <= Len(dependencies[w[1]]) + 1 /\ ~Done(w[1], w[2])'}
  BY <1>1 DEF Work
<1>4. \A w \in Nodes \X Nat : w[1] \in Keys /\ w[2] \in Nat
  BY <1>1
<1>5. Work' \subseteq Work
  BY <1>3, <1>4 DEF Work
<1>6. <<k, m>> \in Work /\ <<k, m>> \notin Work'
  BY <1>2, <1>3 DEF Work
<1> QED
  BY <1>5, <1>6

(* Of a call on the stack nothing behind its next is done.                 *)
LEMMA NotDone ==
  ASSUME SearchInv, phase = "sorting", NEW i \in DOMAIN stack,
         NEW m \in Nat, m >= stack[i].next
  PROVE  ~Done(stack[i].node, m)
<1>1. stack[i].node \notin Listed
  BY DEF SearchInv, SearchOK, VisitedOK, OnStack
<1>2. \A j \in DOMAIN stack : stack[j].node = stack[i].node => j = i
  BY DEF SearchInv, SearchOK, StackOnce
<1>3. stack[i].next \in Nat
  BY StackFacts DEF SearchInv, Frame
<1> QED
  BY <1>1, <1>2, <1>3 DEF Done

LEMMA VisitRootShrinks ==
  ASSUME SearchInv, NEW k \in Keys, VisitRoot(k)
  PROVE  Work' \subseteq Work /\ Work' # Work
<1>1. /\ phase = "sorting" /\ stack = <<>> /\ k \in Nodes \ visited
      /\ stack' = << Call(k) >> /\ list' = list /\ UNCHANGED graphVars
  BY DEF VisitRoot
<1>2. DOMAIN stack' = {1} /\ stack'[1].node = k /\ stack'[1].next = 1
  BY <1>1 DEF Call
<1>3. Listed' = Listed /\ k \notin Listed /\ DOMAIN stack = {}
  BY <1>1 DEF Listed, SearchInv, SearchOK, VisitedOK
<1>4. \A j \in Keys, m \in Nat : Done(j, m) => Done(j, m)'
  BY <1>3 DEF Done
<1>5. ~Done(k, 0) /\ Done(k, 0)'
  BY <1>2, <1>3 DEF Done
<1>6. 0 \in 0 .. Len(dependencies[k]) + 1
  BY LenProperties DEF SearchInv, TypeOK
<1> QED
  BY <1>1, <1>4, <1>5, <1>6, LessWork DEF SearchInv

(* Looking at a dependency is done, whether or not it is visited then.     *)
LEMMA LookShrinks ==
  ASSUME SearchInv, SkipVisited \/ VisitDependency
  PROVE  Work' \subseteq Work /\ Work' # Work
<1> DEFINE n == Len(stack)
<1>1. /\ phase = "sorting" /\ Looking
      /\ stack' = Advanced \/ stack' = Append(Advanced, Call(Dependency))
      /\ list' = list /\ UNCHANGED graphVars
  BY DEF SkipVisited, VisitDependency, Looking
<1>2. /\ n \in 1 .. n /\ DOMAIN stack = 1 .. n /\ stack[n] = Top /\ n \in Nat
      /\ \A i \in 1 .. n : stack[i] \in Frame
  BY <1>1, StackFacts DEF SearchInv, Looking, Top
<1>3. PICK k \in Nodes, m \in Nat :
        /\ k = Top.node /\ m = Top.next /\ k \in Keys
        /\ m \in 1 .. Len(dependencies[k])
  <2>1. Top.node \in Keys /\ Top.next \in DOMAIN dependencies[Top.node]
    BY <1>1, DependencyFacts DEF SearchInv
  <2>2. Top.node \in visited
    BY <1>1, <1>2 DEF SearchInv, SearchOK, VisitedOK, OnStack
  <2>3. dependencies[Top.node] \in Seq(Keys)
    BY <2>1 DEF SearchInv, TypeOK
  <2>4. Top.next \in 1 .. Len(dependencies[Top.node]) /\ Top.next \in Nat
    BY <2>1, <2>3, LenProperties
  <2> QED
    BY <1>1, <2>1, <2>2, <2>4 DEF SearchInv, TypeOK
<1>4. /\ 1 .. n \subseteq DOMAIN stack'
      /\ \A i \in 1 .. n :
           /\ stack'[i].node = stack[i].node
           /\ stack'[i].next = IF i = n THEN stack[i].next + 1 ELSE stack[i].next
  <2>1. /\ Advanced \in Seq(Frame) /\ Len(Advanced) = n
        /\ DOMAIN Advanced = 1 .. n
        /\ \A i \in 1 .. n :
             /\ Advanced[i].node = stack[i].node
             /\ Advanced[i].next = IF i = n THEN stack[i].next + 1
                                            ELSE stack[i].next
    BY <1>1, AdvanceEffect DEF SearchInv
  <2>2. CASE stack' = Advanced
    BY <2>1, <2>2
  <2>3. CASE stack' = Append(Advanced, Call(Dependency))
    <3>1. Call(Dependency) \in Frame
      BY <1>1, DependencyFacts DEF SearchInv, Call, Frame
    <3>2. /\ DOMAIN stack' = 1 .. n + 1
          /\ \A i \in 1 .. n : stack'[i] = Advanced[i]
      <4> HIDE DEF n
      <4>1. /\ stack' \in Seq(Frame) /\ Len(stack') = n + 1
            /\ \A i \in 1 .. n : stack'[i] = Advanced[i]
        BY <2>1, <2>3, <3>1, AppendProperties
      <4> QED
        BY <4>1, LenProperties
    <3> HIDE DEF n
    <3>3. 1 .. n \subseteq 1 .. n + 1
      BY <1>2
    <3> QED
      BY <2>1, <3>2, <3>3
  <2> QED
    BY <1>1, <2>2, <2>3
<1> HIDE DEF n
<1>5. Listed' = Listed
  BY <1>1 DEF Listed
<1>6. ASSUME NEW j \in Keys, NEW u \in Nat, Done(j, u)
      PROVE  Done(j, u)'
  <2>1. CASE j \in Listed
    BY <1>5, <2>1 DEF Done
  <2>2. ASSUME NEW i \in 1 .. n, stack[i].node = j, u < stack[i].next
        PROVE  Done(j, u)'
    <3>1. stack[i].next \in Nat
      BY <1>2 DEF Frame
    <3>2. i \in DOMAIN stack' /\ stack'[i].node = j /\ u < stack'[i].next
      BY <1>4, <2>2, <3>1
    <3> QED
      BY <3>2 DEF Done
  <2> QED
    BY <1>2, <1>6, <2>1, <2>2 DEF Done
<1>7. ~Done(k, m)
  BY <1>1, <1>2, <1>3, NotDone
<1>8. Done(k, m)'
  <2>1. n \in DOMAIN stack' /\ stack'[n].node = k /\ m < stack'[n].next
    BY <1>2, <1>3, <1>4
  <2> QED
    BY <2>1 DEF Done
<1>9. m \in 0 .. Len(dependencies[k]) + 1
  BY <1>3, LenProperties DEF SearchInv, TypeOK
<1> QED
  BY <1>1, <1>3, <1>6, <1>7, <1>8, <1>9, LessWork DEF SearchInv

LEMMA LeaveShrinks ==
  ASSUME SearchInv, StackBounded, LeaveNode
  PROVE  Work' \subseteq Work /\ Work' # Work
<1> DEFINE n == Len(stack)
<1>1. /\ phase = "sorting" /\ stack # <<>> /\ stack' = Pop
      /\ phase' = phase /\ visited' = visited /\ UNCHANGED graphVars
  BY DEF LeaveNode
<1>2. /\ n \in Nat \ {0} /\ n \in 1 .. n /\ DOMAIN stack = 1 .. n /\ stack[n] = Top
      /\ \A i \in 1 .. n : stack[i] \in Frame
  BY <1>1, StackFacts DEF SearchInv, Top
<1>3. /\ DOMAIN stack' = 1 .. n - 1
      /\ \A i \in 1 .. n - 1 : stack'[i] = stack[i]
  BY <1>1, PopEffect DEF SearchInv
<1> HIDE DEF n
<1>4. /\ VisitedOK /\ VisitedOK' /\ StackOnce
  BY <1>1, LeaveNodeKeeps DEF SearchInv, SearchOK
<1>5. PICK k \in Keys : k = Top.node
  BY <1>2 DEF Frame
<1>6. k \in OnStack /\ k \notin OnStack' /\ OnStack' \subseteq OnStack
  <2>1. k \notin OnStack'
    BY <1>2, <1>3, <1>4, <1>5 DEF OnStack, StackOnce
  <2> QED
    BY <1>2, <1>3, <1>5, <2>1 DEF OnStack
<1>7. k \in Listed' /\ Listed \subseteq Listed'
  BY <1>1, <1>4, <1>6 DEF VisitedOK
<1>8. PICK m \in Nat : m = Len(dependencies[k]) + 1
  BY LenProperties DEF SearchInv, TypeOK
<1>9. k \in Nodes
  BY <1>1, <1>4, <1>6 DEF SearchInv, TypeOK, VisitedOK
<1>10. ASSUME NEW j \in Keys, NEW u \in Nat, Done(j, u)
      PROVE  Done(j, u)'
  <2>1. CASE j \in Listed
    BY <1>7, <2>1 DEF Done
  <2>2. ASSUME NEW i \in 1 .. n, stack[i].node = j, u < stack[i].next
        PROVE  Done(j, u)'
    <3>1. CASE i = n
      BY <1>2, <1>5, <1>7, <2>2, <3>1 DEF Done
    <3>2. CASE i # n
      <4>1. i \in DOMAIN stack' /\ stack'[i] = stack[i]
        BY <1>2, <1>3, <2>2, <3>2
      <4> QED
        BY <2>2, <4>1 DEF Done
    <3> QED
      BY <3>1, <3>2
  <2> QED
    BY <1>2, <1>10, <2>1, <2>2 DEF Done
<1>11. ~Done(k, m)
  <2>1. m >= stack[n].next
    BY <1>1, <1>2, <1>5, <1>8 DEF StackBounded, Frame
  <2> QED
    BY <1>1, <1>2, <1>5, <2>1, NotDone
<1>12. Done(k, m)'
  BY <1>7 DEF Done
<1>13. m \in 0 .. Len(dependencies[k]) + 1
  BY <1>8
<1> QED
  BY <1>1, <1>9, <1>10, <1>11, <1>12, <1>13, LessWork DEF SearchInv

LEMMA StackStaysBounded ==
  ASSUME SearchInv, StackBounded, [Next]_vars
  PROVE  StackBounded'
<1> SUFFICES ASSUME phase' = "sorting", NEW i \in DOMAIN stack'
             PROVE  stack'[i].next <= Len(dependencies'[stack'[i].node]) + 1
  BY DEF StackBounded
<1>1. CASE StartSort
  BY <1>1 DEF StartSort
<1>2. ASSUME NEW k \in Keys, VisitRoot(k)
      PROVE  stack'[i].next <= Len(dependencies'[stack'[i].node]) + 1
  <2>1. /\ stack' = << Call(k) >> /\ dependencies' = dependencies
        /\ Len(dependencies[k]) \in Nat
    BY <1>2, LenProperties DEF VisitRoot, graphVars, SearchInv, TypeOK
  <2>2. stack'[i].node = k /\ stack'[i].next = 1
    BY <2>1 DEF Call
  <2> QED
    BY <2>1, <2>2
<1>3. CASE SkipVisited \/ VisitDependency
  <2> DEFINE n == Len(stack)
  <2>1. /\ phase = "sorting" /\ Looking /\ dependencies' = dependencies
        /\ stack' = Advanced \/ stack' = Append(Advanced, Call(Dependency))
    BY <1>3 DEF SkipVisited, VisitDependency, Looking, graphVars
  <2>2. /\ DOMAIN stack = 1 .. n /\ n \in Nat /\ stack[n] = Top
        /\ \A j \in 1 .. n : stack[j] \in Frame
    BY <2>1, StackFacts DEF SearchInv, Top
  <2>3. /\ Advanced \in Seq(Frame) /\ Len(Advanced) = n
        /\ DOMAIN Advanced = 1 .. n
        /\ \A j \in 1 .. n :
             /\ Advanced[j].node = stack[j].node
             /\ Advanced[j].next = IF j = n THEN stack[j].next + 1
                                            ELSE stack[j].next
    BY <2>1, AdvanceEffect DEF SearchInv
  <2> HIDE DEF n
  <2>4. Dependency \in Keys /\ Call(Dependency) \in Frame
        /\ Call(Dependency).node = Dependency /\ Call(Dependency).next = 1
    BY <2>1, DependencyFacts DEF SearchInv, Call, Frame
  <2>5. \/ i \in 1 .. n /\ stack'[i] = Advanced[i]
        \/ stack'[i] = Call(Dependency)
    <3>1. CASE stack' = Advanced
      BY <2>3, <3>1
    <3>2. CASE stack' = Append(Advanced, Call(Dependency))
      <4>1. /\ stack' \in Seq(Frame) /\ Len(stack') = n + 1
            /\ \A j \in 1 .. n : stack'[j] = Advanced[j]
            /\ stack'[n + 1] = Call(Dependency)
        BY <2>3, <2>4, <3>2, AppendProperties
      <4>2. i \in 1 .. n + 1
        BY <4>1, LenProperties
      <4> QED
        BY <2>2, <4>1, <4>2
    <3> QED
      BY <2>1, <3>1, <3>2
  <2>6. CASE stack'[i] = Call(Dependency)
    <3>1. Len(dependencies[Dependency]) \in Nat
      BY <2>4, LenProperties DEF SearchInv, TypeOK
    <3> QED
      BY <2>1, <2>4, <2>6, <3>1
  <2>7. CASE i \in 1 .. n /\ stack'[i] = Advanced[i]
    <3>1. /\ stack[i].node \in Keys /\ stack[i].next \in Nat
          /\ stack[i].next <= Len(dependencies[stack[i].node]) + 1
      BY <2>1, <2>2, <2>7 DEF StackBounded, Frame
    <3>2. Len(dependencies[stack[i].node]) \in Nat
      BY <3>1, LenProperties DEF SearchInv, TypeOK
    <3>3. i = n => stack[i].next <= Len(dependencies[stack[i].node])
      BY <2>1, <2>2 DEF Looking
    <3> QED
      BY <2>1, <2>3, <2>7, <3>1, <3>2, <3>3
  <2> QED
    BY <2>5, <2>6, <2>7
<1>4. CASE LeaveNode
  <2>1. /\ phase = "sorting" /\ stack # <<>> /\ stack' = Pop
        /\ dependencies' = dependencies
    BY <1>4 DEF LeaveNode, graphVars
  <2>2. i \in DOMAIN stack /\ stack'[i] = stack[i]
    BY <2>1, PopEffect, StackFacts DEF SearchInv
  <2> QED
    BY <2>1, <2>2 DEF StackBounded
<1>5. CASE UNCHANGED <<dependencies, phase, stack>>
  BY <1>5 DEF StackBounded
<1>6. \/ StartSort \/ \E k \in Keys : VisitRoot(k)
      \/ SkipVisited \/ VisitDependency \/ LeaveNode
      \/ UNCHANGED <<dependencies, phase, stack>>
  BY DEF Next, SortStep, AddSingleNode, AddEdge, Collect, Halted, vars, graphVars, sortVars
<1> QED
  BY <1>1, <1>2, <1>3, <1>4, <1>5, <1>6

(* A graph has finitely many nodes: a call adds two of them at most.       *)
LEMMA NodesStayFinite ==
  ASSUME TypeOK, IsFiniteSet(Nodes), [Next]_vars
  PROVE  IsFiniteSet(Nodes)'
<1>1. \A nodes, v : \A k \in Keys :
        WithNode(nodes, v)[k] # None => nodes[k] # None \/ k = KeyOf[v]
  BY DEF WithNode
<1>2. CASE UNCHANGED val
  BY <1>2 DEF Nodes
<1>3. ASSUME NEW v \in Vals, AddSingleNode(v)
      PROVE  IsFiniteSet(Nodes)'
  <2>1. Nodes' \subseteq Nodes \cup {KeyOf[v]}
    BY <1>1, <1>3 DEF AddSingleNode, Nodes
  <2> QED
    BY <2>1, FS_AddElement, FS_Subset
<1>4. ASSUME NEW from \in Vals, NEW to \in Vals, AddEdge(from, to)
      PROVE  IsFiniteSet(Nodes)'
  <2>1. Nodes' \subseteq (Nodes \cup {KeyOf[from]}) \cup {KeyOf[to]}
    BY <1>1, <1>4 DEF AddEdge, Nodes
  <2>2. IsFiniteSet((Nodes \cup {KeyOf[from]}) \cup {KeyOf[to]})
    BY FS_AddElement
  <2> QED
    BY <2>1, <2>2, FS_Subset
<1> QED
  BY <1>2, <1>3, <1>4
  DEF Next, StartSort, SortStep, VisitRoot, SkipVisited, VisitDependency, LeaveNode,
      Collect, Halted, vars, graphVars

LEMMA FiniteWork ==
  ASSUME TypeOK, IsFiniteSet(Nodes)
  PROVE  IsFiniteSet(Work)
<1> DEFINE units(k) == {k} \X (0 .. Len(dependencies[k]) + 1)
           all == {units(k) : k \in Nodes}
<1>1. IsFiniteSet(all)
  <2> DEFINE f == [k \in Nodes |-> units(k)]
  <2>1. f \in Surjection(Nodes, all)
    BY DEF Surjection
  <2> HIDE DEF f, all
  <2> QED
    BY <2>1, FS_Surjection
<1>2. ASSUME NEW S \in all
      PROVE  IsFiniteSet(S)
  <2>1. PICK k \in Nodes : S = units(k)
    OBVIOUS
  <2>2. Len(dependencies[k]) + 1 \in Int
    BY LenProperties DEF TypeOK, Nodes
  <2>3. IsFiniteSet({k}) /\ IsFiniteSet(0 .. Len(dependencies[k]) + 1)
    <3>1. 0 \in Int
      OBVIOUS
    <3> DEFINE n == Len(dependencies[k]) + 1
    <3>2. n \in Int
      BY <2>2
    <3> HIDE DEF n
    <3>3. IsFiniteSet(0 .. n)
      BY <3>1, <3>2, FS_Interval
    <3> QED
      BY <3>3, FS_Singleton DEF n
  <2> QED
    BY <2>1, <2>3, FS_Product
<1>3. IsFiniteSet(UNION all)
  BY <1>1, <1>2, FS_UNION
<1>4. ASSUME NEW w \in Work
      PROVE  w \in UNION all
  <2>1. w[1] \in Nodes /\ w = <<w[1], w[2]>> /\ w[2] \in 0 .. Len(dependencies[w[1]]) + 1
    BY LenProperties DEF Work, TypeOK, Nodes
  <2>2. w \in units(w[1])
    BY <2>1
  <2> QED
    BY <2>1, <2>2
<1>5. Work \subseteq UNION all
  BY <1>4
<1> QED
  BY <1>3, <1>5, FS_Subset

(* dependency_graph.go:49-83.  Every step of a search takes something from *)
(* the work it has still to do and adds nothing to it, on cyclic graphs    *)
(* and with repeated edges too, and that work is finite.  So no search     *)
(* goes on for ever.                                                       *)
THEOREM SearchEnds ==
  Spec => [][WorkShrinks]_vars /\ []WorkIsFinite
<1>1. Init => StackBounded /\ IsFiniteSet(Nodes)
  <2> SUFFICES ASSUME Init PROVE StackBounded /\ IsFiniteSet(Nodes)
    OBVIOUS
  <2>1. Nodes = {}
    BY DEF Init, Nodes
  <2> QED
    BY <2>1, FS_EmptySet DEF Init, StackBounded
<1>2. SearchInv /\ StackBounded /\ IsFiniteSet(Nodes) /\ [Next]_vars
        => StackBounded' /\ IsFiniteSet(Nodes)'
  BY StackStaysBounded, NodesStayFinite DEF SearchInv
<1>3. SearchInv /\ StackBounded /\ [Next]_vars => [WorkShrinks]_vars
  <2> SUFFICES ASSUME SearchInv, StackBounded, Next, phase = "sorting",
                      phase' = "sorting", ~UNCHANGED vars
               PROVE  Work' \subseteq Work /\ Work' # Work
    BY DEF WorkShrinks
  <2>1. \/ \E k \in Keys : VisitRoot(k)
        \/ SkipVisited \/ VisitDependency \/ LeaveNode
    BY DEF Next, StartSort, SortStep, Collect, Halted
  <2> QED
    BY <2>1, VisitRootShrinks, LookShrinks, LeaveShrinks
<1>4. SearchInv /\ IsFiniteSet(Nodes) => WorkIsFinite
  BY FiniteWork DEF SearchInv, WorkIsFinite
<1> QED
  BY <1>1, <1>2, <1>3, <1>4, SearchHolds, PTL DEF Spec
=============================================================================
