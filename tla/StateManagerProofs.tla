------------------------- MODULE StateManagerProofs -------------------------
(***************************************************************************)
(* Theorems about StateManager, for any number of managers and of tfstates *)
(* in a poll.                                                              *)
(***************************************************************************)
EXTENDS StateManager, FiniteSetTheorems, TLAPS

(* Where a goroutine of a manager may be, and where the loop.              *)
WorkerPoints == {"read", "build", "send", "sent", "done", "sendError", "failed"}
LoopOK ==
  /\ loop \in {"listening", "update", "waiting", "routes", "swap", "kill", "stopped"}
  /\ serving \in 0 .. NumManagers

USE ManagerAssumption DEF configVars, syncVars, loopVars, WorkerPoints, LoopOK

LEMMA CountedFacts ==
  ASSUME TypeOK
  PROVE  /\ IsFiniteSet(Counted)
         /\ Cardinality(Counted) \in Nat
         /\ Cardinality(Counted) = 0 <=> Counted = {}
<1>1. IsFiniteSet(Counted)
  BY FS_Subset DEF Counted
<1> QED
  BY <1>1, FS_CardinalityType, FS_EmptySet

LEMMA FreeFacts ==
  /\ Free.pc = "free"
  /\ \A w \in Worker : /\ w # Free
                       /\ w.manager \in Managers /\ w.left \in 0 .. MaxTfstates
                       /\ w.pc \in WorkerPoints
BY DEF Free, Worker

(* A step of a goroutine that stays counted changes neither the count nor  *)
(* the manager it works for.                                               *)
LEMMA MoveKeeps ==
  ASSUME ManagerInv, NEW g \in Goroutines, worker[g] # Free,
         NEW w \in Worker, w.manager = worker[g].manager,
         worker' = [worker EXCEPT ![g] = w],
         UNCHANGED <<configVars, syncVars, wg, cancelled, panicked>>,
         LoopOK'
  PROVE  ManagerInv'
<1>1. worker' \in [Goroutines -> Worker \cup {Free}]
  BY DEF ManagerInv, TypeOK
<1>2. /\ Counted' = Counted
      /\ \A h \in Goroutines : worker'[h].manager = worker[h].manager
  BY FreeFacts DEF ManagerInv, TypeOK, Counted
<1> QED
  BY <1>1, <1>2 DEF ManagerInv, TypeOK, RoundInv, Counted

LEMMA SpawnKeeps ==
  ASSUME ManagerInv, NEW g \in Goroutines, Spawn(g)
  PROVE  ManagerInv'
<1> DEFINE w == [manager |-> spawned + 1, pc |-> "read", left |-> tfstates]
<1>1. /\ sync = "spawn" /\ spawned < NumManagers /\ worker[g] = Free
      /\ spawned' = spawned + 1 /\ wg' = wg + 1
      /\ worker' = [worker EXCEPT ![g] = w]
      /\ UNCHANGED <<configVars, sync, tfstates, loopVars, cancelled, panicked>>
  BY DEF Spawn
<1>2. spawned \in Nat /\ wg \in Nat /\ wg <= spawned
  BY DEF ManagerInv, TypeOK, RoundInv
<1>3. w \in Worker /\ w.manager = spawned + 1
  BY <1>1, <1>2 DEF Worker, Managers, ManagerInv, TypeOK
<1> HIDE DEF w
<1>4. TypeOK'
  BY <1>1, <1>2, <1>3 DEF ManagerInv, TypeOK
<1>5. g \notin Counted /\ Counted' = Counted \cup {g}
  BY <1>1, <1>3, FreeFacts DEF Counted, ManagerInv, TypeOK
<1>6. Cardinality(Counted') = Cardinality(Counted) + 1
  BY <1>5, CountedFacts, FS_AddElement DEF ManagerInv
<1>7. /\ worker'[g].manager = spawned + 1
      /\ \A h \in Counted : worker'[h].manager = worker[h].manager
      /\ \A h \in Counted : worker[h].manager \in Nat /\ worker[h].manager <= spawned
  BY <1>1, <1>3, <1>5, FreeFacts
  DEF ManagerInv, TypeOK, RoundInv, Counted, Managers
<1>8. RoundInv'
  BY <1>1, <1>2, <1>5, <1>6, <1>7 DEF ManagerInv, RoundInv
<1> QED
  BY <1>4, <1>8 DEF ManagerInv

LEMMA DoneKeeps ==
  ASSUME ManagerInv, NEW g \in Goroutines, Done(g)
  PROVE  ManagerInv'
<1>1. /\ worker[g].pc = "done" /\ wg' = wg - 1
      /\ worker' = [worker EXCEPT ![g] = Free]
      /\ UNCHANGED <<configVars, syncVars, loopVars, cancelled, panicked>>
  BY DEF Done, syncVars
<1>2. g \in Counted /\ Counted' = Counted \ {g}
  BY <1>1, FreeFacts DEF Counted, ManagerInv, TypeOK
<1>3. Cardinality(Counted') = Cardinality(Counted) - 1
  BY <1>2, CountedFacts, FS_RemoveElement DEF ManagerInv
<1>4. wg \in Nat \ {0} /\ wg <= spawned /\ spawned \in 0 .. NumManagers
  BY <1>2, CountedFacts DEF ManagerInv, TypeOK, RoundInv
<1>5. TypeOK'
  BY <1>1, <1>4 DEF ManagerInv, TypeOK
<1>6. \A h \in Counted' : h \in Counted /\ worker'[h] = worker[h]
  BY <1>1, <1>2 DEF ManagerInv, TypeOK, Counted
<1>7. RoundInv'
  BY <1>1, <1>2, <1>3, <1>4, <1>6 DEF ManagerInv, RoundInv
<1> QED
  BY <1>5, <1>7 DEF ManagerInv

LEMMA InitManager == Init => ManagerInv
<1> SUFFICES ASSUME Init PROVE ManagerInv
  OBVIOUS
<1>1. Counted = {}
  BY DEF Init, Counted
<1>2. TypeOK
  <2>1. worker \in [Goroutines -> Worker \cup {Free}]
    BY DEF Init
  <2>2. tfstates \in 0 .. MaxTfstates /\ spawned \in 0 .. NumManagers
        /\ wg \in 0 .. NumManagers
    BY DEF Init
  <2> QED
    BY <2>1, <2>2 DEF Init, TypeOK
<1> QED
  BY <1>1, <1>2, FS_EmptySet DEF Init, ManagerInv, RoundInv

LEMMA WorkerKeeps ==
  ASSUME ManagerInv, NEW g \in Goroutines, WorkerStep(g)
  PROVE  ManagerInv'
<1>1. worker[g] \in Worker \cup {Free}
  BY DEF ManagerInv, TypeOK
<1>2. \A w \in Worker, pc \in WorkerPoints :
        /\ [w EXCEPT !.pc = pc] \in Worker
        /\ [w EXCEPT !.pc = pc].manager = w.manager
  BY DEF Worker
<1>3. CASE ReadFromTfstate(g)
  <2> DEFINE w == [worker[g] EXCEPT !.left = @ - 1]
  <2>1. worker[g] \in Worker /\ worker[g].left > 0 /\ worker[g] # Free
    BY <1>1, <1>3, FreeFacts DEF ReadFromTfstate
  <2>2. \A r \in Worker : r.left > 0 =>
          /\ [r EXCEPT !.left = @ - 1] \in Worker
          /\ [r EXCEPT !.left = @ - 1].manager = r.manager
    BY DEF Worker
  <2>3. w \in Worker /\ w.manager = worker[g].manager
    BY <2>1, <2>2
  <2>4. /\ worker' = [worker EXCEPT ![g] = w]
        /\ UNCHANGED <<configVars, syncVars, wg, loopVars, cancelled, panicked>>
    BY <1>3 DEF ReadFromTfstate, syncVars
  <2> HIDE DEF w
  <2> QED
    BY <2>1, <2>3, <2>4, MoveKeeps DEF ManagerInv, TypeOK
<1>4. ASSUME NEW pc \in WorkerPoints,
             worker[g].pc \in {"read", "build", "send", "sent", "sendError"}, Move(g, pc),
             UNCHANGED <<configVars, syncVars, wg, cancelled, panicked>>,
             LoopOK'
      PROVE  ManagerInv'
  <2> DEFINE w == [worker[g] EXCEPT !.pc = pc]
  <2>1. worker[g] \in Worker /\ worker[g] # Free
    BY <1>1, <1>4, FreeFacts
  <2>2. w \in Worker /\ w.manager = worker[g].manager
    BY <1>2, <2>1
  <2>3. worker' = [worker EXCEPT ![g] = w]
    BY <1>4 DEF Move
  <2> HIDE DEF w
  <2> QED
    BY <1>4, <2>1, <2>2, <2>3, MoveKeeps
<1>5. LoopOK
  BY DEF ManagerInv, TypeOK
<1>6. CASE ReadFails(g)
  BY <1>4, <1>5, <1>6 DEF ReadFails
<1>7. CASE BuildLock(g)
  BY <1>4, <1>5, <1>7 DEF BuildLock
<1>8. CASE Build(g) \/ BuildFails(g)
  BY <1>4, <1>5, <1>8 DEF Build, BuildFails
<1>9. CASE BuildSendsUpdate(g)
  <2>1. worker[g].manager \in 0 .. NumManagers
    BY <1>1 DEF Worker, Free, Managers
  <2>2. LoopOK'
    BY <1>5, <1>9, <2>1 DEF BuildSendsUpdate, XdsTakesUpdate, RouterTakesUpdate
  <2> QED
    BY <1>4, <1>9, <2>2 DEF BuildSendsUpdate
<1>10. CASE BuildUnlock(g)
  BY <1>4, <1>5, <1>10 DEF BuildUnlock
<1>11. CASE SendsError(g)
  BY <1>4, <1>5, <1>11 DEF SendsError
<1> QED
  BY <1>3, <1>6, <1>7, <1>8, <1>9, <1>10, <1>11, DoneKeeps DEF WorkerStep

LEMMA NextManager == ManagerInv /\ [Next]_vars => ManagerInv'
<1> SUFFICES ASSUME ManagerInv, [Next]_vars PROVE ManagerInv'
  OBVIOUS
<1>1. CASE /\ sync # "spawn" /\ UNCHANGED <<configVars, wg, worker>>
           /\ sync' \in {"poll", "spawn", "pause", "sendError", "returned"}
           /\ tfstates' \in 0 .. MaxTfstates
           /\ spawned' \in {0, spawned}
           /\ LoopOK'
           /\ cancelled' \in BOOLEAN /\ panicked' \in BOOLEAN
  <2>1. Counted = {} /\ Counted' = {}
    BY <1>1 DEF ManagerInv, RoundInv, Counted
  <2>2. wg = 0
    BY <2>1, FS_EmptySet DEF ManagerInv, RoundInv
  <2> QED
    BY <1>1, <2>1, <2>2, FS_EmptySet DEF ManagerInv, TypeOK, RoundInv
<1>2. CASE WaitManagers
  <2>1. Counted = {} /\ Counted' = {}
    BY <1>2, CountedFacts DEF WaitManagers, ManagerInv, RoundInv, Counted
  <2> QED
    BY <1>2, <2>1, FS_EmptySet DEF WaitManagers, ManagerInv, TypeOK, RoundInv
<1>3. CASE /\ UNCHANGED <<configVars, syncVars, wg, worker>>
           /\ LoopOK'
           /\ cancelled' \in BOOLEAN /\ panicked' \in BOOLEAN
  BY <1>3 DEF syncVars, ManagerInv, TypeOK, RoundInv, Counted
<1>4. SyncStep => \/ \E g \in Goroutines : Spawn(g)
                  \/ WaitManagers
                  \/ /\ sync # "spawn" /\ UNCHANGED <<configVars, wg, worker>>
                     /\ sync' \in {"poll", "spawn", "pause", "sendError", "returned"}
                     /\ tfstates' \in 0 .. MaxTfstates
                     /\ spawned' \in {0, spawned}
                     /\ LoopOK'
                     /\ cancelled' \in BOOLEAN /\ panicked' \in BOOLEAN
  BY DEF SyncStep, PollNoSource, Poll, PollFails, TimerFires, SyncCancelled,
         SyncSendsError, syncVars, ManagerInv, TypeOK
<1>5. ASSUME LoopStep \/ Signal \/ UNCHANGED vars
      PROVE  /\ UNCHANGED <<configVars, syncVars, wg, worker>>
             /\ LoopOK'
             /\ cancelled' \in BOOLEAN /\ panicked' \in BOOLEAN
  <2>1. LoopOK /\ cancelled \in BOOLEAN /\ panicked \in BOOLEAN
    BY DEF ManagerInv, TypeOK
  <2>2. CASE LoopStep
    <3>1. CASE CallRLock \/ RLock \/ GetRoutesReturns \/ SwapRouter
      BY <2>1, <3>1 DEF CallRLock, RLock, GetRoutesReturns, SwapRouter
    <3>2. CASE GetRoutesPanics
      BY <2>1, <3>2 DEF GetRoutesPanics
    <3>3. CASE LoopKills \/ LoopCancelled
      BY <2>1, <3>3 DEF LoopKills, LoopCancelled
    <3> QED
      BY <2>2, <3>1, <3>2, <3>3 DEF LoopStep
  <2>3. CASE Signal \/ UNCHANGED vars
    BY <2>1, <2>3 DEF Signal, vars
  <2> QED
    BY <1>5, <2>2, <2>3
<1> QED
  BY <1>1, <1>2, <1>3, <1>4, <1>5, SpawnKeeps, WorkerKeeps DEF Next, Halted

LEMMA ManagerHolds == Spec => []ManagerInv
BY InitManager, NextManager, PTL DEF Spec

(* No two goroutines of a manager are ever at work, and none is between    *)
(* the rounds (manager.go:36-60).                                          *)
THEOREM RoundsDoNotOverlap == Spec => []NoOverlap
<1>1. ManagerInv => NoOverlap
  <2> SUFFICES ASSUME ManagerInv PROVE NoOverlap
    OBVIOUS
  <2>1. \A g \in Goroutines : worker[g] \in Worker \cup {Free}
    BY DEF ManagerInv, TypeOK
  <2>2. \A g \in Goroutines : g \notin Counted => worker[g].manager = 0
    BY DEF Counted, Free
  <2>3. \A g \in Counted : worker[g].manager # 0
    BY <2>1, FreeFacts DEF Counted, Managers
  <2>4. \A g, h \in Goroutines :
          worker[g].manager = worker[h].manager /\ worker[g] # Free => g = h
    BY <2>2, <2>3 DEF ManagerInv, RoundInv, Counted
  <2>5. sync # "spawn" => \A g \in Goroutines : ~Busy(g)
    BY FreeFacts DEF ManagerInv, RoundInv, Counted, Busy
  <2> QED
    BY <2>4, <2>5 DEF NoOverlap
<1> QED
  BY <1>1, ManagerHolds, PTL

(* Once a manager failed, periodicSync never leaves the round in which it  *)
(* did (manager.go:42-60).                                                 *)
THEOREM FailureStopsRounds == Spec => []FailStop
<1>1. ManagerInv => FailStop
  BY FreeFacts DEF ManagerInv, TypeOK, RoundInv, Counted, FailStop
<1> QED
  BY <1>1, ManagerHolds, PTL

(* In particular wg stays between zero and the number of managers.         *)
THEOREM ManagerTypeCorrect == Spec => []TypeOK
<1>1. ManagerInv => TypeOK
  BY DEF ManagerInv
<1> QED
  BY <1>1, ManagerHolds, PTL

-----------------------------------------------------------------------------
(* Who waits, and for whom                                                 *)

(* A round that is not through has a goroutine to start, or one that is at *)
(* work or failed.                                                         *)
RoundGoesOn ==
  sync = "spawn" =>
    /\ spawned < NumManagers => \E g \in Goroutines : worker[g] = Free
    /\ wg # 0 => \E g \in Goroutines : Busy(g) \/ worker[g].pc \in {"sendError", "failed"}

(* manager.go:36-62.  periodicSync waits at its wait group only for those  *)
(* that are there to call Done, or for one that failed and never will; and *)
(* of goroutines there are never more than managers.                       *)
THEOREM NoLostGoroutine == Spec => []RoundGoesOn
<1>1. ManagerInv => RoundGoesOn
  <2> SUFFICES ASSUME ManagerInv
               PROVE  /\ spawned < NumManagers => \E g \in Goroutines : worker[g] = Free
                      /\ wg # 0 => \E g \in Goroutines :
                                     Busy(g) \/ worker[g].pc \in {"sendError", "failed"}
    BY DEF RoundGoesOn
  <2>1. ASSUME spawned < NumManagers
        PROVE  \E g \in Goroutines : worker[g] = Free
    <3>1. Cardinality(Counted) < Cardinality(Goroutines)
      BY <2>1, FS_CardinalityType DEF ManagerInv, TypeOK, RoundInv
    <3>2. Counted # Goroutines
      BY <3>1, CountedFacts DEF ManagerInv
    <3> QED
      BY <3>2 DEF Counted
  <2>2. ASSUME wg # 0
        PROVE  \E g \in Goroutines : Busy(g) \/ worker[g].pc \in {"sendError", "failed"}
    <3>1. PICK g \in Goroutines : worker[g] # Free
      BY <2>2, CountedFacts DEF ManagerInv, RoundInv, Counted
    <3>2. worker[g] \in Worker
      BY <3>1 DEF ManagerInv, TypeOK
    <3> QED
      BY <3>2, FreeFacts DEF Busy
  <2> QED
    BY <2>1, <2>2
<1> QED
  BY <1>1, ManagerHolds, PTL

(* A loop that has been told of an error is on its way out, and one that   *)
(* stopped leaves a cancelled context.                                     *)
ErrorHeard ==
  /\ sync = "returned" => loop \in {"kill", "stopped"}
  /\ \A g \in Goroutines : worker[g].pc = "failed" => loop \in {"kill", "stopped"}
  /\ loop = "stopped" => cancelled

(* Who fails has told the loop of it in the same step.                     *)
LEMMA ErrorHeardKept ==
  ASSUME TypeOK, ErrorHeard, [Next]_vars
  PROVE  ErrorHeard'
<1>1. CASE LoopStep \/ Signal \/ UNCHANGED vars
  <2>1. /\ UNCHANGED <<sync, worker>>
        /\ cancelled => cancelled'
        /\ loop \in {"kill", "stopped"} => loop' \in {"kill", "stopped"}
        /\ loop' = "stopped" => loop = "stopped" \/ cancelled'
    BY <1>1 DEF LoopStep, CallRLock, RLock, GetRoutesPanics, GetRoutesReturns, SwapRouter,
       LoopKills, LoopCancelled, Signal, vars
  <2> QED
    BY <2>1 DEF ErrorHeard
<1>2. CASE SyncSendsError
  BY <1>2 DEF SyncSendsError, ErrorHeard
<1>3. CASE SyncStep /\ ~SyncSendsError
  <2>1. UNCHANGED <<loop, cancelled>> /\ sync' \in {sync, "poll", "spawn", "pause", "sendError"}
    BY <1>3 DEF SyncStep, PollNoSource, Poll, PollFails, Spawn, WaitManagers,
       TimerFires, SyncCancelled
  <2>2. \A g \in Goroutines : worker'[g].pc = "failed" => worker[g].pc = "failed"
    BY <1>3 DEF SyncStep, PollNoSource, Poll, PollFails, Spawn, WaitManagers,
       TimerFires, SyncCancelled, TypeOK
  <2> QED
    BY <2>1, <2>2 DEF ErrorHeard
<1>4. ASSUME NEW g \in Goroutines, SendsError(g)
      PROVE  ErrorHeard'
  BY <1>4 DEF SendsError, ErrorHeard
<1>5. ASSUME NEW g \in Goroutines, WorkerStep(g), ~SendsError(g)
      PROVE  ErrorHeard'
  <2>1. /\ UNCHANGED <<sync, cancelled>>
        /\ loop' = loop \/ (loop = "listening" /\ loop' = "update")
    BY <1>5 DEF WorkerStep, ReadFromTfstate, ReadFails, BuildLock, Build, BuildFails,
       BuildSendsUpdate, XdsTakesUpdate, RouterTakesUpdate, BuildUnlock, Done
  <2>2. \A h \in Goroutines \ {g} : worker'[h] = worker[h]
    BY <1>5 DEF WorkerStep, ReadFromTfstate, ReadFails, BuildLock, Build, BuildFails,
       BuildSendsUpdate, BuildUnlock, Done, Move, TypeOK
  <2>3. worker[g] \in Worker \cup {Free}
    BY DEF TypeOK
  <2>4. worker'[g].pc # "failed"
    BY <1>5, <2>3, FreeFacts DEF WorkerStep, ReadFromTfstate, ReadFails, BuildLock, Build,
       BuildFails, BuildSendsUpdate, BuildUnlock, Done, Move, TypeOK, Worker
  <2> QED
    BY <2>1, <2>2, <2>4 DEF ErrorHeard
<1> QED
  BY <1>1, <1>2, <1>3, <1>4, <1>5 DEF Next, Halted

(* manager.go:30-52, router.go:78-83, xds.go:106-111.  Whoever got rid of  *)
(* an error has left the loop on its way to the cancellation: it takes no  *)
(* update after an error, and does not stop without the context cancelled. *)
THEOREM ErrorsAreHeard == Spec => []ErrorHeard
<1>1. Init => ErrorHeard
  BY DEF Init, ErrorHeard, Free
<1>2. TypeOK /\ ErrorHeard /\ [Next]_vars => ErrorHeard'
  BY ErrorHeardKept
<1> QED
  BY <1>1, <1>2, ManagerTypeCorrect, PTL DEF Spec
-----------------------------------------------------------------------------
(* The lock between Build and the loop of router                           *)

HasLock(g) == worker[g].pc \in {"build", "send", "sent"}

LockOK ==
  /\ loop = "routes" => ~Building(serving)
  /\ command = "xds" => loop \in {"listening", "kill", "stopped"}

(* A step after which nobody has the lock who did not have it before.      *)
LEMMA LockKept ==
  ASSUME LockOK, command' = command,
         \A h \in Goroutines :
           HasLock(h)' => HasLock(h) /\ worker'[h].manager = worker[h].manager,
         loop' = "routes" => loop = "routes" /\ serving' = serving,
         command = "xds" => loop' \in {loop, "kill", "stopped"}
  PROVE  LockOK'
BY DEF LockOK, Building, HasLock

LEMMA NextLock ==
  ASSUME TypeOK, LockOK, [Next]_vars
  PROVE  LockOK'
<1>1. ASSUME NEW g \in Goroutines, WorkerStep(g)
      PROVE  LockOK'
  <2>1. /\ worker[g] \in Worker \cup {Free} /\ command' = command
        /\ \A h \in Goroutines \ {g} : worker'[h] = worker[h]
    BY <1>1 DEF WorkerStep, ReadFromTfstate, ReadFails, BuildLock, Build, BuildFails,
       BuildSendsUpdate, BuildUnlock, Done, SendsError, Move, TypeOK
  <2>2. CASE BuildLock(g)
    <3>1. /\ ~Reading(worker[g].manager) /\ UNCHANGED <<loop, serving>>
          /\ worker'[g].manager = worker[g].manager
      BY <2>1, <2>2, FreeFacts DEF BuildLock, Move, TypeOK, Worker
    <3> QED
      BY <2>1, <3>1 DEF LockOK, Building, Reading
  <2>3. CASE ~BuildLock(g)
    <3>1. HasLock(g)' => HasLock(g) /\ worker'[g].manager = worker[g].manager
      <4>1. CASE ReadFromTfstate(g) \/ ReadFails(g) \/ BuildFails(g)
        BY <2>1, <4>1, FreeFacts DEF ReadFromTfstate, ReadFails, BuildFails, HasLock, Move,
           TypeOK, Worker
      <4>2. CASE Build(g) \/ BuildSendsUpdate(g) \/ BuildUnlock(g)
        BY <2>1, <4>2, FreeFacts DEF Build, BuildSendsUpdate, BuildUnlock, HasLock, Move,
           TypeOK, Worker
      <4>3. CASE Done(g) \/ SendsError(g)
        BY <2>1, <4>3, FreeFacts DEF Done, SendsError, HasLock, Move, TypeOK, Worker
      <4> QED
        BY <1>1, <2>3, <4>1, <4>2, <4>3 DEF WorkerStep
    <3>2. /\ loop' = "routes" => loop = "routes" /\ serving' = serving
          /\ command = "xds" => loop' \in {loop, "kill", "stopped"}
      BY <1>1, <2>3 DEF WorkerStep, ReadFromTfstate, ReadFails, Build, BuildFails,
         BuildSendsUpdate, XdsTakesUpdate, RouterTakesUpdate, BuildUnlock, Done, SendsError
    <3>3. \A h \in Goroutines :
            HasLock(h)' => HasLock(h) /\ worker'[h].manager = worker[h].manager
      BY <2>1, <3>1 DEF HasLock
    <3> QED
      BY <2>1, <3>2, <3>3, LockKept
  <2> QED
    BY <2>2, <2>3
<1>2. CASE SyncStep
  <2>1. \A h \in Goroutines :
          HasLock(h)' => HasLock(h) /\ worker'[h].manager = worker[h].manager
    BY <1>2 DEF SyncStep, PollNoSource, Poll, PollFails, Spawn, WaitManagers, TimerFires,
       SyncCancelled, SyncSendsError, HasLock, TypeOK
  <2>2. command' = command /\ serving' = serving /\ loop' \in {loop, "kill"}
    BY <1>2 DEF SyncStep, PollNoSource, Poll, PollFails, Spawn, WaitManagers, TimerFires,
       SyncCancelled, SyncSendsError
  <2> QED
    BY <2>1, <2>2, LockKept
<1>3. CASE RLock
  BY <1>3 DEF RLock, LockOK, Building
<1>4. CASE (LoopStep /\ ~RLock) \/ Signal \/ UNCHANGED vars
  <2>1. /\ UNCHANGED <<command, worker>>
        /\ loop' = "routes" => loop = "routes" /\ serving' = serving
        /\ loop \in {"listening", "kill", "stopped"} => loop' \in {loop, "stopped"}
    BY <1>4 DEF LoopStep, CallRLock, GetRoutesPanics, GetRoutesReturns, SwapRouter,
       LoopKills, LoopCancelled, Signal, vars
  <2> QED
    BY <2>1 DEF LockOK, Building
<1> QED
  BY <1>1, <1>2, <1>3, <1>4 DEF Next, Halted

(* routes.go:58-90, router.go:85-109, xds.go:113-117.  A loop that has the *)
(* read lock has it alone.  Who waits for the lock to build waits for the  *)
(* loop only, which sorts under it, or can; and the loop for a Build that  *)
(* goes on without it, but for Overtaken.  The loop of xds never takes the *)
(* lock.                                                                   *)
LockIsServed ==
  /\ LockOK
  /\ \A g \in Goroutines :
       worker[g].pc = "read" /\ (Building(worker[g].manager) \/ Reading(worker[g].manager))
         => Reading(worker[g].manager) /\ ~Building(serving)
  /\ loop = "waiting" /\ Building(serving) =>
       \/ Overtaken
       \/ \E g \in Goroutines : worker[g].manager = serving /\ worker[g].pc \in {"build", "sent"}

(* For any number of managers, and in any order, rounds and the loop wait  *)
(* for each other over a lock in no other way than Overtaken.              *)
THEOREM OnlyOvertakingBlocks == Spec => []LockIsServed
<1>1. Init => LockOK
  BY DEF Init, LockOK
<1>2. TypeOK /\ LockOK /\ [Next]_vars => LockOK'
  BY NextLock
<1>3. ManagerInv /\ LockOK => LockIsServed
  <2> SUFFICES ASSUME ManagerInv, LockOK PROVE LockIsServed
    OBVIOUS
  <2>1. ASSUME NEW g \in Goroutines, worker[g].pc = "read"
        PROVE  ~Building(worker[g].manager)
    <3>1. worker[g] # Free /\ worker[g] \in Worker /\ worker[g].manager # 0
      BY <2>1, FreeFacts DEF ManagerInv, TypeOK, Worker, Managers
    <3>2. \A h \in Goroutines : worker[h].manager = worker[g].manager => h = g
      BY <3>1 DEF ManagerInv, RoundInv, Counted, Free
    <3> QED
      BY <2>1, <3>2 DEF Building
  <2>2. loop = "waiting" /\ Building(serving) =>
          \/ Overtaken
          \/ \E g \in Goroutines : worker[g].manager = serving /\ worker[g].pc \in {"build", "sent"}
    BY DEF Building, Overtaken
  <2> QED
    BY <2>1, <2>2 DEF LockIsServed, Reading
<1> QED
  BY <1>1, <1>2, <1>3, ManagerHolds, ManagerTypeCorrect, PTL DEF Spec

=============================================================================
