---------------------------- MODULE StateManager ----------------------------
(***************************************************************************)
(* The periodic synchronisation of src/pkg/state/manager.go, with what a   *)
(* command (cmd/xds.go, cmd/router.go) and Execute (cmd/root.go) do with   *)
(* its updates and errors.                                                 *)
(*                                                                         *)
(* periodicSync polls the tfstate source and starts one goroutine for each *)
(* manager, which reads the tfstates and builds; it waits for all of them, *)
(* then for the timer.  A goroutine that fails never calls wg.Done.  The   *)
(* command's loop receives updates and errors over unbuffered channels; it *)
(* asks for the process to stop at the first error.                        *)
(*                                                                         *)
(* Build holds the write lock of its manager until it returns, also while  *)
(* it sends its update.  The loop of xds takes the update and is back at   *)
(* its channels; that of router asks the manager for its routes first,     *)
(* which takes the read lock.  A reader that waits for a sync.RWMutex goes *)
(* before the next writer; one that has not called RLock yet does not.     *)
(***************************************************************************)
EXTENDS Naturals, FiniteSets

CONSTANTS NumManagers,  \* the managers are 1 .. NumManagers
          MaxTfstates,  \* bound on the number of tfstates that a poll returns
          Goroutines    \* identities for the goroutines of the managers

ASSUME ManagerAssumption ==
  /\ NumManagers \in Nat
  /\ MaxTfstates \in Nat
  /\ IsFiniteSet(Goroutines)
  /\ Cardinality(Goroutines) > NumManagers

Managers == 1 .. NumManagers

VARIABLES
  command,    \* the command that runs
  source,     \* the tfstate source the command line selected, "none" by default
  sync,       \* control point of periodicSync
  tfstates,   \* the number of tfstates of this round
  spawned,    \* the managers for which this round started a goroutine
  wg,         \* the counter of s.wg
  worker,     \* worker[g]: the goroutine g, or Free
  loop,       \* control point of the command's loop
  serving,    \* the manager that the loop of router asks for routes, or 0
  cancelled,  \* the context is cancelled
  panicked    \* a nil source was called, the process is dead

configVars == <<command, source>>
syncVars == <<sync, tfstates, spawned>>
loopVars == <<loop, serving>>
vars == <<configVars, syncVars, wg, worker, loopVars, cancelled, panicked>>

Free == [manager |-> 0, pc |-> "free", left |-> 0]
Worker == [manager : Managers, left : 0 .. MaxTfstates,
           pc : {"read", "build", "send", "sent", "done", "sendError", "failed"}]

Init ==
  /\ command \in {"xds", "router"}
  /\ source \in {"none", "s3"}
  /\ sync = "poll" /\ tfstates = 0 /\ spawned = 0
  /\ wg = 0
  /\ worker = [g \in Goroutines |-> Free]
  /\ loop = "listening" /\ serving = 0
  /\ cancelled = FALSE
  /\ panicked = FALSE

-----------------------------------------------------------------------------
(* periodicSync                                                            *)

(* The source stays a nil interface if none was selected (root.go:121-122).*)
PollNoSource ==
  /\ sync = "poll" /\ source = "none"
  /\ panicked' = TRUE
  /\ UNCHANGED <<configVars, syncVars, wg, worker, loopVars, cancelled>>

Poll(n) ==
  /\ sync = "poll" /\ source # "none"
  /\ sync' = "spawn"
  /\ tfstates' = n
  /\ spawned' = 0
  /\ UNCHANGED <<configVars, wg, worker, loopVars, cancelled, panicked>>

PollFails ==
  /\ sync = "poll" /\ source # "none"
  /\ sync' = "sendError"
  /\ UNCHANGED <<configVars, tfstates, spawned, wg, worker, loopVars, cancelled, panicked>>

(* Variant: the goroutine is started without wg.Add.                       *)
SpawnUncounted(g) ==
  /\ sync = "spawn" /\ spawned < NumManagers
  /\ worker[g] = Free
  /\ spawned' = spawned + 1
  /\ worker' = [worker EXCEPT ![g] = [manager |-> spawned + 1, pc |-> "read",
                                      left |-> tfstates]]
  /\ UNCHANGED <<configVars, sync, tfstates, wg, loopVars, cancelled, panicked>>

Spawn(g) ==
  /\ sync = "spawn" /\ spawned < NumManagers
  /\ worker[g] = Free
  /\ spawned' = spawned + 1
  /\ wg' = wg + 1
  /\ worker' = [worker EXCEPT ![g] = [manager |-> spawned + 1, pc |-> "read",
                                      left |-> tfstates]]
  /\ UNCHANGED <<configVars, sync, tfstates, loopVars, cancelled, panicked>>

(* Variant: no wg.Wait before the timer.                                   *)
WaitNobody ==
  /\ sync = "spawn" /\ spawned = NumManagers
  /\ sync' = "pause"
  /\ UNCHANGED <<configVars, tfstates, spawned, wg, worker, loopVars, cancelled, panicked>>

WaitManagers ==
  /\ sync = "spawn" /\ spawned = NumManagers
  /\ wg = 0
  /\ sync' = "pause"
  /\ UNCHANGED <<configVars, tfstates, spawned, wg, worker, loopVars, cancelled, panicked>>

(* The select takes either case when both are ready.                       *)
TimerFires ==
  /\ sync = "pause"
  /\ sync' = "poll"
  /\ UNCHANGED <<configVars, tfstates, spawned, wg, worker, loopVars, cancelled, panicked>>

SyncCancelled ==
  /\ sync = "pause" /\ cancelled
  /\ sync' = "sendError"
  /\ UNCHANGED <<configVars, tfstates, spawned, wg, worker, loopVars, cancelled, panicked>>

(* errCh is unbuffered: the sender and the loop meet.                      *)
SyncSendsError ==
  /\ sync = "sendError"
  /\ loop = "listening"
  /\ sync' = "returned"
  /\ loop' = "kill"
  /\ UNCHANGED <<configVars, tfstates, spawned, wg, worker, serving, cancelled, panicked>>

-----------------------------------------------------------------------------
(* A manager's goroutine                                                   *)

Move(g, pc) == worker' = [worker EXCEPT ![g].pc = pc]

ReadFromTfstate(g) ==
  /\ worker[g].pc = "read" /\ worker[g].left > 0
  /\ worker' = [worker EXCEPT ![g].left = @ - 1]
  /\ UNCHANGED <<configVars, syncVars, wg, loopVars, cancelled, panicked>>

ReadFails(g) ==
  /\ worker[g].pc = "read" /\ worker[g].left > 0
  /\ Move(g, "sendError")
  /\ UNCHANGED <<configVars, syncVars, wg, loopVars, cancelled, panicked>>

(* A goroutine of the manager m holds its write lock.                      *)
Building(m) ==
  \E g \in Goroutines : worker[g].manager = m /\ worker[g].pc \in {"build", "send", "sent"}

(* The loop holds the read lock of the manager m, or waits for it.         *)
Reading(m) == serving = m /\ loop \in {"waiting", "routes"}

BuildLock(g) ==
  /\ worker[g].pc = "read" /\ worker[g].left = 0
  /\ ~Building(worker[g].manager) /\ ~Reading(worker[g].manager)
  /\ Move(g, "build")
  /\ UNCHANGED <<configVars, syncVars, wg, loopVars, cancelled, panicked>>

(* Build, up to where it sends the update.                                 *)
Build(g) ==
  /\ worker[g].pc = "build"
  /\ Move(g, "send")
  /\ UNCHANGED <<configVars, syncVars, wg, loopVars, cancelled, panicked>>

(* Build gives the lock back before its error is sent.                     *)
BuildFails(g) ==
  /\ worker[g].pc = "build"
  /\ Move(g, "sendError")
  /\ UNCHANGED <<configVars, syncVars, wg, loopVars, cancelled, panicked>>

(* The loop of xds has nothing to do with an update.                       *)
XdsTakesUpdate == command = "xds" /\ UNCHANGED loopVars

RouterTakesUpdate(m) == command = "router" /\ loop' = "update" /\ serving' = m

BuildSendsUpdate(g) ==
  /\ worker[g].pc = "send"
  /\ loop = "listening"
  /\ XdsTakesUpdate \/ RouterTakesUpdate(worker[g].manager)
  /\ Move(g, "sent")
  /\ UNCHANGED <<configVars, syncVars, wg, cancelled, panicked>>

BuildUnlock(g) ==
  /\ worker[g].pc = "sent"
  /\ Move(g, "done")
  /\ UNCHANGED <<configVars, syncVars, wg, loopVars, cancelled, panicked>>

(* Variant: the goroutine returns without wg.Done.                         *)
DoneUncounted(g) ==
  /\ worker[g].pc = "done"
  /\ worker' = [worker EXCEPT ![g] = Free]
  /\ UNCHANGED <<configVars, syncVars, wg, loopVars, cancelled, panicked>>

Done(g) ==
  /\ worker[g].pc = "done"
  /\ wg' = wg - 1
  /\ worker' = [worker EXCEPT ![g] = Free]
  /\ UNCHANGED <<configVars, syncVars, loopVars, cancelled, panicked>>

(* Variant: wg.Done is deferred, and called after an error too.            *)
SendsErrorDone(g) ==
  /\ worker[g].pc = "sendError"
  /\ loop = "listening"
  /\ Move(g, "failed")
  /\ loop' = "kill"
  /\ wg' = wg - 1
  /\ UNCHANGED <<configVars, syncVars, serving, cancelled, panicked>>

(* The goroutine returns, and wg keeps counting it.                        *)
SendsError(g) ==
  /\ worker[g].pc = "sendError"
  /\ loop = "listening"
  /\ Move(g, "failed")
  /\ loop' = "kill"
  /\ UNCHANGED <<configVars, syncVars, wg, serving, cancelled, panicked>>

-----------------------------------------------------------------------------
(* The command's loop, and the goroutine of Execute that watches signals   *)
(* until it cancels the context.  First what the loop of router does with  *)
(* an update: GetRoutes, the new router, and its swap.                     *)

CallRLock ==
  /\ loop = "update"
  /\ loop' = "waiting"
  /\ UNCHANGED <<configVars, syncVars, wg, worker, serving, cancelled, panicked>>

RLock ==
  /\ loop = "waiting" /\ ~Building(serving)
  /\ loop' = "routes"
  /\ UNCHANGED <<configVars, syncVars, wg, worker, serving, cancelled, panicked>>

GetRoutesPanics ==
  /\ loop = "routes"
  /\ panicked' = TRUE
  /\ UNCHANGED <<configVars, syncVars, wg, worker, loopVars, cancelled>>

GetRoutesReturns ==
  /\ loop = "routes"
  /\ loop' = "swap"
  /\ UNCHANGED <<configVars, syncVars, wg, worker, serving, cancelled, panicked>>

(* A list that GetRoutes returns is empty, so there is no handler to check.*)
SwapRouter ==
  /\ loop = "swap"
  /\ loop' = "listening" /\ serving' = 0
  /\ UNCHANGED <<configVars, syncVars, wg, worker, cancelled, panicked>>

(* Variant: the loop returns at an error without a signal.                 *)
LoopReturns ==
  /\ loop = "kill" /\ ~cancelled
  /\ loop' = "stopped"
  /\ UNCHANGED <<configVars, syncVars, wg, worker, serving, cancelled, panicked>>

(* signalCh is unbuffered: it needs the watcher, which leaves as it cancels*)
LoopKills ==
  /\ loop = "kill" /\ ~cancelled
  /\ cancelled' = TRUE
  /\ loop' = "stopped"
  /\ UNCHANGED <<configVars, syncVars, wg, worker, serving, panicked>>

LoopCancelled ==
  /\ loop = "listening" /\ cancelled
  /\ loop' = "stopped"
  /\ UNCHANGED <<configVars, syncVars, wg, worker, serving, cancelled, panicked>>

Signal ==
  /\ ~cancelled
  /\ cancelled' = TRUE
  /\ UNCHANGED <<configVars, syncVars, wg, worker, loopVars, panicked>>

-----------------------------------------------------------------------------
SyncStep ==
  \/ PollNoSource
  \/ \E n \in 0 .. MaxTfstates : Poll(n)
  \/ PollFails
  \/ \E g \in Goroutines : Spawn(g)
  \/ WaitManagers \/ TimerFires \/ SyncCancelled \/ SyncSendsError

WorkerStep(g) ==
  \/ ReadFromTfstate(g) \/ ReadFails(g)
  \/ BuildLock(g) \/ Build(g) \/ BuildFails(g) \/ BuildSendsUpdate(g) \/ BuildUnlock(g)
  \/ Done(g) \/ SendsError(g)

LoopStep ==
  \/ CallRLock \/ RLock \/ GetRoutesPanics \/ GetRoutesReturns \/ SwapRouter
  \/ LoopKills \/ LoopCancelled

(* A whole round went by while the loop of router was on its way from the  *)
(* update to RLock: Build has the lock and waits for the loop, and the loop*)
(* for it.                                                                 *)
Overtaken ==
  /\ loop \in {"update", "waiting"}
  /\ \E g \in Goroutines : worker[g].manager = serving /\ worker[g].pc = "send"

(* Nothing moves in a dead process; in one that is being stopped, whoever  *)
(* waits for the loop waits until the process exits.                       *)
Halted ==
  /\ panicked \/ (cancelled /\ loop \in {"kill", "stopped"}) \/ Overtaken
  /\ UNCHANGED vars

Next ==
  \/ /\ ~panicked
     /\ \/ SyncStep \/ LoopStep \/ Signal
        \/ \E g \in Goroutines : WorkerStep(g)
  \/ Halted

Spec == Init /\ [][Next]_vars

(* Goroutines are scheduled, polls return and the timer fires; nothing     *)
(* forces a signal.                                                        *)
FairSpec ==
  /\ Spec
  /\ WF_vars(~panicked /\ SyncStep)
  /\ WF_vars(~panicked /\ LoopStep)
  /\ \A g \in Goroutines : WF_vars(~panicked /\ WorkerStep(g))

-----------------------------------------------------------------------------
(* The types of the variables; wg never counts below zero, where Done      *)
(* would panic (manager.go:54).                                            *)
TypeOK ==
  /\ command \in {"xds", "router"}
  /\ source \in {"none", "s3"}
  /\ sync \in {"poll", "spawn", "pause", "sendError", "returned"}
  /\ tfstates \in 0 .. MaxTfstates
  /\ spawned \in 0 .. NumManagers
  /\ wg \in 0 .. NumManagers
  /\ worker \in [Goroutines -> Worker \cup {Free}]
  /\ loop \in {"listening", "update", "waiting", "routes", "swap", "kill", "stopped"}
  /\ serving \in 0 .. NumManagers
  /\ cancelled \in BOOLEAN
  /\ panicked \in BOOLEAN

Busy(g) == worker[g].pc \in {"read", "build", "send", "sent", "done"}

(* manager.go:36-60.  ReadFromTfstate and Build of a manager never overlap *)
(* themselves: they fill and swap maps without a lock that covers both.    *)
(* No goroutine of a round is at work once periodicSync left that round.   *)
NoOverlap ==
  /\ \A g, h \in Goroutines :
       worker[g].manager = worker[h].manager /\ worker[g] # Free => g = h
  /\ sync # "spawn" => \A g \in Goroutines : ~Busy(g)

(* manager.go:42-52.  Once a manager failed no further round begins, so    *)
(* that nothing is built on what a failed round left in the manager.       *)
FailStop ==
  (\E g \in Goroutines : worker[g].pc \in {"sendError", "failed"}) =>
    sync = "spawn"

(* manager.go:30-52, router.go:78-83, xds.go:106-111, root.go:140-148.  An *)
(* error, of a poll or of a manager, leads to the cancellation of the      *)
(* context, also when several goroutines fail or a signal comes in, and    *)
(* when the loop of router is with its routes.  There it may panic; and if *)
(* it has been overtaken by a round, errors of other managers are not heard*)
(* any more than updates are.                                              *)
ErrorCancels ==
  (sync = "sendError" \/ \E g \in Goroutines : worker[g].pc = "sendError")
    ~> cancelled \/ panicked \/ Overtaken

(* manager.go:28-74, router.go:85-109, xds.go:113-117, routes.go:56-90.    *)
(* Without a failure or a signal the polls go on for ever: no round waits  *)
(* for a goroutine that is through, and what a round waits for the loop,   *)
(* the loop does without it.  The one exception is in the loop of router:  *)
(* a round that overtakes it between its update and RLock waits for it, for*)
(* ever, and no other round begins.                                        *)
Failing ==
  panicked \/ cancelled \/ sync = "sendError"
           \/ \E g \in Goroutines : worker[g].pc = "sendError"

RoundsGoOn ==
  \/ []<>(sync = "poll")
  \/ <>Failing
  \/ <>(command = "router" /\ Overtaken)

(* root.go:122 says of a run without a source that "tfstate source will be *)
(* disabled": there is nothing to poll, and the process goes on.           *)
SourceDisabled == ~panicked

-----------------------------------------------------------------------------
(* Why rounds do not overlap: wg counts the goroutines that have not called*)
(* Done, the failed ones included, so that it is zero only without any.    *)
Counted == {g \in Goroutines : worker[g] # Free}

RoundInv ==
  /\ wg = Cardinality(Counted)
  /\ wg <= spawned
  /\ sync # "spawn" => Counted = {}
  /\ \A g \in Counted : worker[g].manager <= spawned
  /\ \A g, h \in Counted : worker[g].manager = worker[h].manager => g = h

ManagerInv == TypeOK /\ RoundInv
=============================================================================
