--------------------------- MODULE ProcessProofs ---------------------------
(***************************************************************************)
(* Proofs about the life of a process, for every number of routers and of  *)
(* requests: the types, the distance between the router that requests find *)
(* and the last one built, and that a process is a server as Lifecycle     *)
(* describes it.                                                           *)
(*                                                                         *)
(* The distance needs the hand over: a router is received before the next  *)
(* one is built, and stored before the next one is received (HandOver).    *)
(* The refinement needs what holds of the main goroutine at each of its    *)
(* control points: nothing is served before the server is open, the        *)
(* shutdown was asked for, and its deadline explains what is left in       *)
(* flight (MainKnows).                                                     *)
(***************************************************************************)
EXTENDS Process, TLAPS

HandOver ==
  /\ main \in {"prepare", "start"} => loop = "none"
  /\ main = "prepare" => swapper = "none"
  /\ loop = "build" => newest < MaxUpdates
  /\ newest = received + (IF loop = "swap" THEN 1 ELSE 0)
  /\ received - handler <= IF swapper = "store" THEN 1 ELSE 0

MainKnows ==
  /\ main \in {"prepare", "start", "open"} => serve = "none" /\ requests = 0
  /\ watcher \in {"cancelled", "left"} => cancelled
  /\ main \in {"close", "shutdown"} => cancelled \/ early
  /\ main \notin {"collect", "exited"} => ~timedOut
  /\ main = "collect" /\ requests > 0 => timedOut

Inv == TypeOK /\ HandOver /\ MainKnows

USE ProcessAssumption DEF vars, mainVars, restVars, watcherVars, loopVars, swapVars,
                          serveVars, discoveryVars, Discovery!TypeOK, Discovery!Listing

-----------------------------------------------------------------------------
(* The invariant                                                           *)

LEMMA InitInv == Init => Inv
<1> SUFFICES ASSUME Init
             PROVE  Inv
  OBVIOUS
<1>1. TypeOK
  <2>1. newest \in 0 .. MaxUpdates /\ received \in 0 .. newest /\ handler \in 0 .. received
        /\ requests \in 0 .. MaxRequests
    BY DEF Init
  <2> QED
    BY <2>1 DEF Init, TypeOK
<1>2. HandOver
  BY DEF Init, HandOver
<1>3. MainKnows
  BY DEF Init, MainKnows
<1> QED
  BY <1>1, <1>2, <1>3 DEF Inv

(* From the preparation to the wait, or to a failure.                      *)
LEMMA StartKeeps ==
  ASSUME Inv, ~Gone,
         PreRunRouter \/ PreRunXds \/ PreRunFails \/ PreRunPanics
         \/ StartLoop \/ ListenPanics \/ OpenFails \/ Open
  PROVE  Inv'
<1> USE DEF Inv, TypeOK, HandOver, MainKnows, Gone
<1>1. CASE PreRunRouter
  BY <1>1 DEF PreRunRouter, RootPreRun
<1>2. CASE PreRunXds
  BY <1>2 DEF PreRunXds, RootPreRun, Discovery!Start
<1>3. CASE PreRunFails
  BY <1>3 DEF PreRunFails, MainAt
<1>4. CASE PreRunPanics
  BY <1>4 DEF PreRunPanics, Panics
<1>5. CASE StartLoop
  BY <1>5 DEF StartLoop
<1>6. CASE ListenPanics
  BY <1>6 DEF ListenPanics, Panics
<1>7. CASE OpenFails
  BY <1>7 DEF OpenFails, MainAt
<1>8. CASE Open
  BY <1>8 DEF Open
<1> QED
  BY <1>1, <1>2, <1>3, <1>4, <1>5, <1>6, <1>7, <1>8

(* From the wait to the end.                                               *)
LEMMA ShutdownKeeps ==
  ASSUME Inv, ~Gone,
         WaitClose \/ CloseHandler \/ GracefulStop \/ GracefulStopPanics \/ Shutdown
         \/ Drained \/ DrainTimesOut \/ CloseFails \/ WaitCloseChannel
  PROVE  Inv'
<1> USE DEF Inv, TypeOK, HandOver, MainKnows, Gone
<1>1. CASE WaitClose
  <2> USE <1>1 DEF WaitClose, Counted
  <2>1. TypeOK'
    OBVIOUS
  <2>2. HandOver'
    OBVIOUS
  <2>3. watcher # "starting" => cancelled'
    OBVIOUS
  <2>4. early' = (watcher = "starting")
    BY Zenon
  <2>5. cancelled' \/ early'
    <3>1. CASE watcher = "starting"
      BY <2>4, <3>1, Zenon
    <3>2. CASE watcher # "starting"
      BY <2>3, <3>2, Zenon
    <3> QED
      BY <3>1, <3>2, Zenon
  <2>6. MainKnows'
    BY <2>5
  <2> QED
    BY <2>1, <2>2, <2>6
<1>2. CASE Close
  BY <1>2 DEF Close
<1>3. CASE GracefulStopPanics
  BY <1>3 DEF GracefulStopPanics, Panics
<1>4. CASE Shutdown
  BY <1>4 DEF Shutdown, MainAt
<1>5. CASE Drained
  BY <1>5 DEF Drained, MainAt
<1>6. CASE DrainTimesOut
  BY <1>6 DEF DrainTimesOut
<1>7. CASE CloseFails
  BY <1>7 DEF CloseFails
<1>8. CASE WaitCloseChannel
  BY <1>8 DEF WaitCloseChannel
<1> QED
  BY <1>1, <1>2, <1>3, <1>4, <1>5, <1>6, <1>7, <1>8 DEF CloseHandler, GracefulStop

(* The watcher, and those who tell it of an error.                         *)
LEMMA WatcherKeeps ==
  ASSUME Inv, ~Gone, WatcherAdds \/ Signal \/ WatcherDone \/ Kill \/ AlarmKills
  PROVE  Inv'
<1> USE DEF Inv, TypeOK, HandOver, MainKnows, Gone
<1>1. CASE WatcherAdds
  BY <1>1 DEF WatcherAdds
<1>2. CASE Signal
  BY <1>2 DEF Signal, Receive
<1>3. CASE WatcherDone
  BY <1>3 DEF WatcherDone
<1>4. CASE Kill
  BY <1>4 DEF Kill, Receive
<1>5. CASE AlarmKills
  BY <1>5 DEF AlarmKills, Receive
<1> QED
  BY <1>1, <1>2, <1>3, <1>4, <1>5

(* The loop that makes each update a router.                               *)
LEMMA LoopKeeps ==
  ASSUME Inv, ~Gone, LoopCancelled \/ ReceiveError \/ ReceiveUpdate \/ GetRoutesPanics
         \/ BuildRouter \/ Swap \/ SwapPanics
  PROVE  Inv'
<1> USE DEF Inv, TypeOK, HandOver, MainKnows, Gone
<1>1. CASE LoopCancelled
  BY <1>1 DEF LoopCancelled, LoopAt
<1>2. CASE ReceiveError
  BY <1>2 DEF ReceiveError, LoopAt
<1>3. CASE ReceiveUpdate
  BY <1>3 DEF ReceiveUpdate, LoopAt
<1>4. CASE GetRoutesPanics \/ SwapPanics
  BY <1>4 DEF GetRoutesPanics, SwapPanics, Panics
<1>5. CASE BuildRouter
  BY <1>5 DEF BuildRouter
<1>6. CASE Swap
  BY <1>6 DEF Swap, Hand
<1> QED
  BY <1>1, <1>2, <1>3, <1>4, <1>5, <1>6

(* The other goroutines.                                                   *)
LEMMA ServerKeeps ==
  ASSUME Inv, ~Gone, DiscoveryStep \/ StoreHandler \/ SwapperEnds
         \/ ServeReturns \/ BeginRequest \/ EndRequest
  PROVE  Inv'
<1> USE DEF Inv, TypeOK, HandOver, MainKnows, Gone
<1>1. CASE DiscoveryStep
  BY <1>1 DEF DiscoveryStep, Discovery!Sync, Discovery!SendError,
     Discovery!ListNamespaces, Discovery!ListServices, Discovery!ListInstances,
     Discovery!SyncFails, Discovery!Flush, Discovery!TimerFires, Discovery!Cancelled
<1>2. CASE StoreHandler
  BY <1>2 DEF StoreHandler
<1>3. CASE SwapperEnds
  BY <1>3 DEF SwapperEnds
<1>4. CASE ServeReturns
  BY <1>4 DEF ServeReturns
<1>5. CASE BeginRequest
  BY <1>5 DEF BeginRequest
<1>6. CASE EndRequest
  BY <1>6 DEF EndRequest
<1> QED
  BY <1>1, <1>2, <1>3, <1>4, <1>5, <1>6

LEMMA NextInv == Inv /\ [Next]_vars => Inv'
<1> SUFFICES ASSUME Inv, [Next]_vars
             PROVE  Inv'
  OBVIOUS
<1>1. CASE UNCHANGED vars
  BY <1>1 DEF Inv, TypeOK, HandOver, MainKnows
<1>2. CASE ~Gone /\ Next
  BY <1>2, StartKeeps, ShutdownKeeps, WatcherKeeps, LoopKeeps, ServerKeeps
  DEF Next, MainStep, LoopStep, Halted
<1> QED
  BY <1>1, <1>2 DEF Next, Halted

LEMMA InvAlways == Spec => []Inv
BY InitInv, NextInv, PTL DEF Spec

(* The types of the variables, and that no more than MaxUpdates routers    *)
(* are built, in whatever order the goroutines run.                        *)
THEOREM TypeCorrect == Spec => []TypeOK
<1>1. Inv => TypeOK
  BY DEF Inv
<1> QED
  BY <1>1, InvAlways, PTL

(* swap_handler.go:10-22.  Requests find the router of the last Swap that  *)
(* returned, or the one before it, for any number of routers.              *)
THEOREM SwapsInTime == Spec => []AtMostOneBehind
<1>1. Inv => AtMostOneBehind
  BY DEF Inv, TypeOK, HandOver, AtMostOneBehind
<1> QED
  BY <1>1, InvAlways, PTL

-----------------------------------------------------------------------------
(* The refinement                                                          *)

Asked == cancelled \/ early

(* What those outside see does not change.                                 *)
Unseen == UNCHANGED <<Phase, Asked, requests, timedOut>>

(* What does not touch what the phase and the promise are read from.       *)
LEMMA InsideUnseen ==
  ASSUME UNCHANGED <<main, panicked, cancelled, early, requests, timedOut>>
  PROVE  Unseen
BY DEF Unseen, Phase, Asked

LEMMA PanicCrashes ==
  ASSUME Inv, ~Gone, NEW reason, reason # "no", Panics(reason)
  PROVE  Server!Crash
<1>1. Phase # "down" /\ Phase' = "crashed"
  BY DEF Gone, Panics, Phase, Inv, TypeOK
<1>2. UNCHANGED <<Asked, requests, timedOut>>
  BY DEF Panics, Asked
<1> QED
  BY <1>1, <1>2 DEF Server!Crash, Asked

(* A signal, or an error that kills.                                       *)
LEMMA ReceiveAsks ==
  ASSUME Receive
  PROVE  Server!Ask
<1>1. UNCHANGED Phase
  BY DEF Receive, Phase
<1> QED
  BY <1>1 DEF Receive, Server!Ask

(* The main goroutine opens the server or fails to.                        *)
LEMMA StartRefines ==
  ASSUME Inv, ~Gone,
         PreRunRouter \/ PreRunXds \/ PreRunFails \/ PreRunPanics
         \/ StartLoop \/ ListenPanics \/ OpenFails \/ Open
  PROVE  Server!Next \/ Unseen
<1>1. CASE PreRunRouter \/ PreRunXds \/ StartLoop
  <2>1. /\ main \in {"prepare", "start", "open"} /\ main' \in {"prepare", "start", "open"}
        /\ UNCHANGED <<panicked, cancelled, early, requests, timedOut>>
    BY <1>1 DEF PreRunRouter, PreRunXds, RootPreRun, StartLoop
  <2> QED
    BY <2>1 DEF Unseen, Phase, Asked
<1>2. CASE PreRunPanics \/ ListenPanics
  BY <1>2, PanicCrashes DEF PreRunPanics, ListenPanics, Server!Next
<1>3. CASE PreRunFails \/ OpenFails
  <2>1. /\ main \in {"prepare", "open"} /\ main' = "exited" /\ panicked = "no"
        /\ UNCHANGED <<panicked, cancelled, early, requests, timedOut>>
    BY <1>3 DEF PreRunFails, OpenFails, MainAt, Gone
  <2> QED
    BY <2>1 DEF Phase, Server!FailToStart, Server!Next
<1>4. CASE Open
  <2>1. /\ main = "open" /\ main' = "wait" /\ panicked = "no"
        /\ UNCHANGED <<panicked, cancelled, early, requests, timedOut>>
    BY <1>4 DEF Open, Gone
  <2> QED
    BY <2>1 DEF Phase, Server!Serve, Server!Next
<1> QED
  BY <1>1, <1>2, <1>3, <1>4

(* It does not leave the wait, nor drain, before somebody asked it to.     *)
LEMMA ShutdownRefines ==
  ASSUME Inv, ~Gone,
         WaitClose \/ CloseHandler \/ GracefulStop \/ GracefulStopPanics \/ Shutdown
         \/ Drained \/ DrainTimesOut \/ CloseFails \/ WaitCloseChannel
  PROVE  Server!Next \/ Unseen
<1>1. CASE WaitClose
  <2>1. UNCHANGED Phase
    BY <1>1 DEF WaitClose, restVars, Phase
  <2>2. cancelled' \/ early'
    <3>1. CASE watcher = "starting"
      BY <1>1, <3>1, Zenon DEF WaitClose
    <3>2. CASE watcher # "starting"
      BY <1>1, <3>2 DEF WaitClose, Counted, restVars, watcherVars, Inv, TypeOK, MainKnows
    <3> QED
      BY <3>1, <3>2, Zenon
  <2>3. (cancelled \/ early)' = TRUE
    BY <2>2, Zenon
  <2>4. UNCHANGED <<requests, timedOut>>
    BY <1>1 DEF WaitClose, restVars, serveVars
  <2> QED
    BY <2>1, <2>3, <2>4, Zenon DEF Server!Ask, Server!Next
<1>2. CASE Close
  <2>1. /\ main \in {"wait", "close", "shutdown"} /\ main' \in {"wait", "close", "shutdown"}
        /\ UNCHANGED <<panicked, cancelled, early, requests, timedOut>>
    BY <1>2 DEF Close, watcherVars, serveVars
  <2> QED
    BY <2>1 DEF Unseen, Phase, Asked
<1>3. CASE GracefulStopPanics
  BY <1>3, PanicCrashes DEF GracefulStopPanics, Server!Next
<1>4. CASE Shutdown
  <2>1. /\ Phase = "serving" /\ Phase' = "draining"
        /\ UNCHANGED <<cancelled, early, requests, timedOut>>
    BY <1>4 DEF Shutdown, MainAt, restVars, watcherVars, serveVars, Gone, Phase
  <2>2. cancelled \/ early
    BY <1>4 DEF Shutdown, MainAt, Inv, MainKnows
  <2> QED
    BY <2>1, <2>2, Zenon DEF Server!Drain, Server!Next
<1>5. CASE Drained
  <2>1. UNCHANGED <<Phase, cancelled, early, requests, timedOut>>
    BY <1>5 DEF Drained, MainAt, restVars, watcherVars, serveVars, Phase
  <2> QED
    BY <2>1 DEF Unseen, Asked
<1>6. CASE DrainTimesOut
  <2>1. /\ Phase = "draining" /\ requests > 0 /\ timedOut' = TRUE
        /\ UNCHANGED <<Phase, cancelled, early, requests>>
    BY <1>6 DEF DrainTimesOut, watcherVars, Gone, Phase
  <2> QED
    BY <2>1 DEF Server!Deadline, Server!Next
<1>7. CASE CloseFails
  <2>1. /\ Phase = "draining" /\ Phase' = "down"
        /\ timedOut' = (requests > 0) /\ ~timedOut
        /\ UNCHANGED <<cancelled, early, requests>>
    BY <1>7 DEF CloseFails, watcherVars, Gone, Phase, Inv, MainKnows
  <2> QED
    BY <2>1, Zenon DEF Server!Stop, Server!Next
<1>8. CASE WaitCloseChannel
  <2>1. /\ Phase = "draining" /\ Phase' = "down"
        /\ requests > 0 => timedOut
        /\ UNCHANGED <<cancelled, early, requests, timedOut>>
    BY <1>8 DEF WaitCloseChannel, watcherVars, Gone, Phase, Inv, MainKnows
  <2> QED
    BY <2>1, Zenon DEF Server!Stop, Server!Next
<1> QED
  BY <1>1, <1>2, <1>3, <1>4, <1>5, <1>6, <1>7, <1>8 DEF CloseHandler, GracefulStop

(* No request before the server is open, and none once it drains.          *)
LEMMA RequestsRefine ==
  ASSUME Inv, ~Gone, BeginRequest \/ EndRequest
  PROVE  Server!Next
<1>1. CASE BeginRequest
  <2>1. /\ Phase = "serving" /\ requests' = requests + 1
        /\ UNCHANGED <<Phase, cancelled, early, timedOut>>
    BY <1>1 DEF BeginRequest, mainVars, watcherVars, Gone, Phase, Inv, TypeOK, MainKnows
  <2> QED
    BY <2>1 DEF Server!Accept, Server!Next
<1>2. CASE EndRequest
  <2>1. /\ Phase \in {"serving", "draining"} /\ requests > 0 /\ requests' = requests - 1
        /\ UNCHANGED <<Phase, cancelled, early, timedOut>>
    BY <1>2 DEF EndRequest, mainVars, watcherVars, Gone, Phase, Inv, TypeOK, MainKnows
  <2> QED
    BY <2>1 DEF Server!Finish, Server!Next
<1> QED
  BY <1>1, <1>2

LEMMA NextRefines == Inv /\ [Next]_vars => [Server!Next]_(Server!vars)
<1> SUFFICES ASSUME Inv, [Next]_vars
             PROVE  Server!Next \/ Unseen
  BY DEF Server!vars, Unseen, Asked
<1>1. CASE UNCHANGED vars
  BY <1>1, InsideUnseen
<1>2. CASE ~Gone /\ (Signal \/ Kill \/ AlarmKills)
  BY <1>2, ReceiveAsks DEF Signal, Kill, AlarmKills, Server!Next
<1>3. CASE ~Gone /\ (GetRoutesPanics \/ SwapPanics)
  BY <1>3, PanicCrashes DEF GetRoutesPanics, SwapPanics, Server!Next
<1>4. CASE ~Gone /\ (WatcherAdds \/ WatcherDone \/ LoopCancelled \/ ReceiveError
                     \/ ReceiveUpdate \/ BuildRouter \/ Swap)
  BY <1>4, InsideUnseen
  DEF WatcherAdds, WatcherDone, LoopCancelled, ReceiveError, ReceiveUpdate, LoopAt,
      BuildRouter, Swap, Hand
<1>5. CASE ~Gone /\ (DiscoveryStep \/ StoreHandler \/ SwapperEnds \/ ServeReturns)
  BY <1>5, InsideUnseen DEF DiscoveryStep, StoreHandler, SwapperEnds, ServeReturns
<1>6. CASE ~Gone /\ (MainStep \/ PreRunFails \/ PreRunPanics)
  BY <1>6, StartRefines, ShutdownRefines DEF MainStep
<1>7. CASE ~Gone /\ (BeginRequest \/ EndRequest)
  BY <1>7, RequestsRefine
<1> QED
  BY <1>1, <1>2, <1>3, <1>4, <1>5, <1>6, <1>7 DEF Next, LoopStep, Halted

LEMMA InitRefines == Init => Server!Init
<1> SUFFICES ASSUME Init
             PROVE  Server!Init
  OBVIOUS
<1>1. Phase = "starting" /\ requests = 0
  BY DEF Init, Phase
<1>2. cancelled = FALSE /\ early = FALSE /\ timedOut = FALSE
  BY DEF Init
<1> QED
  BY <1>1, <1>2, Zenon DEF Server!Init

(* root.go:134-152, router.go:115-130, xds.go:121-135, server.go:36-207.   *)
(* Both commands are servers as Lifecycle describes them, for any number   *)
(* of routers and of requests; that takes no fairness.                     *)
THEOREM ProcessImplementsLifecycle == Spec => ImplementsLifecycle
<1>1. Inv /\ [Next]_vars => [Server!Next]_(Server!vars)
  BY NextRefines
<1>2. Init => Server!Init
  BY InitRefines
<1> QED
  BY <1>1, <1>2, InvAlways, PTL DEF Spec, ImplementsLifecycle, Server!Spec

-----------------------------------------------------------------------------
(* Who waits, and for whom                                                 *)

(* root.go:134-152, router.go:58-130, xds.go:66-135.  Whoever has to hear  *)
(* is there: main, once the context is cancelled, waits for a watcher that *)
(* is about to leave, and later for a Serve that has not reported yet; the *)
(* loop waits with its router for a swapper that will come back; the error *)
(* of the discovery has its receiver; and a kill that no watcher receives  *)
(* any more comes after the context was cancelled.                         *)
SomebodyListens ==
  /\ main = "wait" /\ cancelled => watcher \in {"cancelled", "left"}
  /\ main = "collect" => serve \in {"serving", "returned"}
  /\ loop = "swap" /\ ~closed => swapper \in {"waiting", "store"}
  /\ discovery = "failed" => alarm = "listening"
  /\ (loop = "kill" \/ alarm = "kill") /\ watcher \in {"cancelled", "left"} => cancelled

(* What each goroutine leaves behind tells how far it has come.            *)
Traces ==
  /\ cancelled => watcher \in {"cancelled", "left"}
  /\ main \in {"wait", "close", "shutdown", "drain", "collect"}
     => serve \in {"serving", "returned"}
  /\ loop \in {"build", "swap"} => command = "router"
  /\ command = "router" /\ (main = "start" \/ loop # "none") => swapper # "none"
  /\ main = "prepare" => loop = "none"
  /\ swapper = "ended" => closed
  /\ discovery \in Discovery!Listing \union {"flush", "wait", "failed"} => alarm = "listening"

LEMMA InitTraces == Init => Traces
BY DEF Init, Traces

LEMMA MainTraces ==
  ASSUME Traces, MainStep \/ PreRunFails \/ PreRunPanics
  PROVE  Traces'
<1> USE DEF Traces
<1>1. CASE PreRunRouter \/ PreRunXds \/ PreRunFails \/ PreRunPanics
  BY <1>1 DEF PreRunRouter, PreRunXds, RootPreRun, Discovery!Start, PreRunFails, MainAt,
              PreRunPanics, Panics
<1>2. CASE StartLoop \/ ListenPanics \/ OpenFails \/ Open
  BY <1>2 DEF StartLoop, ListenPanics, Panics, OpenFails, MainAt, Open
<1>3. CASE WaitClose
  BY <1>3 DEF WaitClose
<1>4. CASE CloseHandler \/ GracefulStop \/ GracefulStopPanics
  BY <1>4 DEF CloseHandler, GracefulStop, Close, GracefulStopPanics, Panics
<1>5. CASE Shutdown \/ Drained \/ DrainTimesOut \/ CloseFails \/ WaitCloseChannel
  BY <1>5 DEF Shutdown, Drained, MainAt, DrainTimesOut, CloseFails, WaitCloseChannel
<1> QED
  BY <1>1, <1>2, <1>3, <1>4, <1>5 DEF MainStep

LEMMA OtherTraces ==
  ASSUME Traces,
         \/ WatcherAdds \/ Signal \/ WatcherDone \/ AlarmKills
         \/ LoopStep \/ ReceiveError \/ ReceiveUpdate
         \/ DiscoveryStep \/ StoreHandler \/ SwapperEnds
         \/ ServeReturns \/ BeginRequest \/ EndRequest
  PROVE  Traces'
<1> USE DEF Traces
<1>1. CASE WatcherAdds \/ Signal \/ WatcherDone \/ AlarmKills \/ Kill
  BY <1>1 DEF WatcherAdds, Signal, WatcherDone, AlarmKills, Kill, Receive
<1>2. CASE LoopCancelled \/ ReceiveError \/ ReceiveUpdate \/ GetRoutesPanics
  BY <1>2 DEF LoopCancelled, ReceiveError, ReceiveUpdate, LoopAt, GetRoutesPanics, Panics
<1>3. CASE BuildRouter \/ Swap \/ SwapPanics
  BY <1>3 DEF BuildRouter, Swap, Hand, SwapPanics, Panics
<1>4. CASE DiscoveryStep
  BY <1>4 DEF DiscoveryStep, Discovery!Sync, Discovery!SendError,
     Discovery!ListNamespaces, Discovery!ListServices, Discovery!ListInstances,
     Discovery!SyncFails, Discovery!Flush, Discovery!TimerFires, Discovery!Cancelled
<1>5. CASE StoreHandler \/ SwapperEnds \/ ServeReturns \/ BeginRequest \/ EndRequest
  BY <1>5 DEF StoreHandler, SwapperEnds, ServeReturns, BeginRequest, EndRequest
<1> QED
  BY <1>1, <1>2, <1>3, <1>4, <1>5 DEF LoopStep

(* In neither command does a goroutine of the shutdown wait for one that   *)
(* has left, in whatever order they run, signals and errors come: what     *)
(* CancelStops and ErrorStops need besides that goroutines are scheduled.  *)
THEOREM NobodyWaitsInVain == Spec => []SomebodyListens
<1>1. Traces /\ [Next]_vars => Traces'
  <2> SUFFICES ASSUME Traces, [Next]_vars
               PROVE  Traces'
    OBVIOUS
  <2>1. CASE UNCHANGED vars
    BY <2>1 DEF Traces
  <2>2. CASE Next /\ ~Halted
    BY <2>2, MainTraces, OtherTraces DEF Next
  <2> QED
    BY <2>1, <2>2 DEF Halted
<1>2. Inv /\ Traces => SomebodyListens
  BY DEF Inv, TypeOK, MainKnows, Traces, SomebodyListens
<1> QED
  BY <1>1, <1>2, InitTraces, InvAlways, PTL DEF Spec
=============================================================================
