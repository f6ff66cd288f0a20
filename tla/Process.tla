------------------------------ MODULE Process ------------------------------
(***************************************************************************)
(* The life of a cruiser process, "router start" or "xds start": Execute   *)
(* and the start of src/cmd/root.go, the commands of src/cmd/router.go and *)
(* xds.go, the HTTP server of src/pkg/server/server.go and the handler of  *)
(* swap_handler.go.                                                        *)
(*                                                                         *)
(* The watcher of Execute takes one signal and cancels the context.  The   *)
(* main goroutine prepares the command, opens the server, waits for the    *)
(* watcher, closes what answers the requests and then the server.  The     *)
(* loop hears of the state manager, of which it is arbitrary what it sends *)
(* and when.  For the router the loop makes each update a router and hands *)
(* it to the swapper, which stores it where the requests find it; for the  *)
(* xDS server it only acknowledges, which is no step here, and the service *)
(* discovery goes on beside it.                                            *)
(***************************************************************************)
EXTENDS Naturals

CONSTANTS MaxUpdates,  \* bound on the routers that are built
          MaxRequests  \* bound on the requests in flight

ASSUME ProcessAssumption == MaxUpdates \in Nat /\ MaxRequests \in Nat

VARIABLES
  command,    \* "router" or "xds"
  protocol,   \* "http2" with TLS, "h2c" without, and at first
  main,       \* control point of the main goroutine
  early,      \* waitClose.Wait found nothing to wait for
  watcher,    \* control point of the goroutine of Execute
  cancelled,  \* the context of the command is cancelled
  loop,       \* control point of the loop of the command
  newest,     \* the last router built; routers are numbered
  closed,     \* PostRunE closed handlerCh, or stopped the gRPC server
  swapper,    \* control point of watchSwap
  received,   \* the router it received last
  handler,    \* the router that requests find; 0 for none
  serve,      \* control point of the goroutine of http.Server.Serve
  requests,   \* the number of requests, of streams for Envoy, in flight
  timedOut,   \* Shutdown gave up at its deadline
  discovery,  \* control point of the service discovery
  alarm,      \* control point of the receiver of its error
  panicked    \* what killed the process

mainVars == <<command, protocol, main, early>>
watcherVars == <<watcher, cancelled>>
loopVars == <<loop, newest>>
swapVars == <<closed, swapper, received, handler>>
serveVars == <<serve, requests, timedOut>>
discoveryVars == <<discovery, alarm>>
restVars == <<watcherVars, loopVars, swapVars, serveVars, discoveryVars, panicked>>
vars == <<mainVars, restVars>>

Discovery == INSTANCE ServiceDiscovery

Init ==
  /\ command \in {"router", "xds"} /\ protocol = "h2c"
  /\ main = "prepare" /\ early = FALSE
  /\ watcher = "starting" /\ cancelled = FALSE
  /\ loop = "none" /\ newest = 0
  /\ closed = FALSE /\ swapper = "none" /\ received = 0 /\ handler = 0
  /\ serve = "none" /\ requests = 0 /\ timedOut = FALSE
  /\ discovery = "none" /\ alarm = "none"
  /\ panicked = "no"

Gone == main = "exited" \/ panicked # "no"

(* The main goroutine goes on, and nothing else happens.                   *)
MainAt(from, to) ==
  /\ main = from /\ main' = to
  /\ UNCHANGED <<command, protocol, early, restVars>>

Panics(reason) ==
  /\ panicked' = reason
  /\ UNCHANGED <<mainVars, watcherVars, loopVars, swapVars, serveVars, discoveryVars>>

-----------------------------------------------------------------------------
(* The main goroutine: PersistentPreRunE, RunE and PostRunE of the command *)

(* With TLS, or without if it is disabled.                                 *)
RootPreRun ==
  /\ main = "prepare" /\ main' = "start"
  /\ protocol' \in {"h2c", "http2"}
  /\ UNCHANGED <<command, early, watcherVars, loopVars, closed, received, handler,
                 serveVars, panicked>>

PreRunRouter ==
  /\ command = "router"
  /\ RootPreRun
  /\ swapper' = "waiting"
  /\ UNCHANGED discoveryVars

(* The discovery starts before the command, if there are namespaces.       *)
PreRunXds ==
  /\ command = "xds"
  /\ RootPreRun
  /\ Discovery!Start \/ UNCHANGED discoveryVars
  /\ UNCHANGED swapper

(* The certificate cannot be loaded or made, the source of tfstates has no *)
(* bucket, or there is none of that name.  No goroutine was started.       *)
PreRunFails == MainAt("prepare", "exited")

(* The configuration of the AWS clients cannot be loaded.                  *)
PreRunPanics == main = "prepare" /\ Panics("config")

StartLoop ==
  /\ main = "start" /\ main' = "open"
  /\ loop' = "listening"
  /\ UNCHANGED <<command, protocol, early, watcherVars, newest, swapVars, serveVars,
                 discoveryVars, panicked>>

(* Without TLS tlsConfig is a nil function, which listen calls.            *)
ListenPanics == main = "open" /\ protocol = "h2c" /\ Panics("tls")

(* No address is given, which is noticed first, or it is not free: the     *)
(* command returns the error, and its PostRunE is not run.                 *)
OpenFails == MainAt("open", "exited")

Open ==
  /\ main = "open" /\ protocol = "http2"
  /\ main' = "wait"
  /\ serve' = "serving"
  /\ UNCHANGED <<command, protocol, early, watcherVars, loopVars, swapVars, requests,
                 timedOut, discoveryVars, panicked>>

(* waitClose counts the watcher, from where it called Add.                 *)
Counted == watcher \in {"watching", "cancelled"}

(* Variant: nobody is waited for.                                          *)
NoWait == MainAt("wait", "close")

WaitClose ==
  /\ main = "wait" /\ ~Counted
  /\ early' = (watcher = "starting")
  /\ main' = "close"
  /\ UNCHANGED <<command, protocol, restVars>>

Close ==
  /\ main = "close" /\ main' = "shutdown"
  /\ closed' = TRUE
  /\ UNCHANGED <<command, protocol, early, watcherVars, loopVars, swapper, received,
                 handler, serveVars, discoveryVars, panicked>>

CloseHandler == command = "router" /\ Close

(* External: what grpc-go makes of a GracefulStop when its streams come    *)
(* from ServeHTTP.  It drains each of them, and their transport cannot be  *)
(* drained; streams that come later are refused.                           *)
GracefulStop == command = "xds" /\ requests = 0 /\ Close

GracefulStopPanics ==
  /\ command = "xds" /\ requests > 0
  /\ main = "close"
  /\ Panics("drain")

Shutdown == MainAt("shutdown", "drain")

Drained == requests = 0 /\ MainAt("drain", "collect")

(* At the deadline the connections are closed.                             *)
DrainTimesOut ==
  /\ main = "drain" /\ requests > 0
  /\ timedOut' = TRUE
  /\ main' = "collect"
  /\ UNCHANGED <<command, protocol, early, watcherVars, loopVars, swapVars, serve,
                 requests, discoveryVars, panicked>>

(* The listener could not be closed, by Shutdown once all is drained, or   *)
(* by Close: the error is returned, and Serve is not waited for.           *)
CloseFails ==
  /\ main = "drain" /\ main' = "exited"
  /\ timedOut' = (requests > 0)
  /\ UNCHANGED <<command, protocol, early, watcherVars, loopVars, swapVars, serve,
                 requests, discoveryVars, panicked>>

(* closeChannel is unbuffered.                                             *)
WaitCloseChannel ==
  /\ main = "collect" /\ serve = "returned"
  /\ main' = "exited" /\ serve' = "reported"
  /\ UNCHANGED <<command, protocol, early, watcherVars, loopVars, swapVars, requests,
                 timedOut, discoveryVars, panicked>>

MainStep ==
  \/ PreRunRouter \/ PreRunXds \/ StartLoop
  \/ ListenPanics \/ OpenFails \/ Open \/ WaitClose
  \/ CloseHandler \/ GracefulStop \/ GracefulStopPanics
  \/ Shutdown \/ Drained \/ DrainTimesOut \/ CloseFails \/ WaitCloseChannel

-----------------------------------------------------------------------------
(* The watcher.  It alone cancels the context.  signal.Notify drops a      *)
(* signal for which signalCh, unbuffered, has no receiver.                 *)

WatcherAdds ==
  /\ watcher = "starting"
  /\ watcher' = "watching"
  /\ UNCHANGED <<mainVars, cancelled, loopVars, swapVars, serveVars, discoveryVars,
                 panicked>>

Receive ==
  /\ watcher = "watching"
  /\ cancelled' = TRUE
  /\ watcher' = "cancelled"
  /\ UNCHANGED <<mainVars, newest, swapVars, serveVars, discovery, panicked>>

Signal == Receive /\ UNCHANGED <<loop, alarm>>

(* Variant: waitClose.Done is not called.                                  *)
WatcherNotDone ==
  /\ watcher = "cancelled"
  /\ UNCHANGED vars

WatcherDone ==
  /\ watcher = "cancelled"
  /\ watcher' = "left"
  /\ UNCHANGED <<mainVars, cancelled, loopVars, swapVars, serveVars, discoveryVars,
                 panicked>>

-----------------------------------------------------------------------------
(* The loop of the command                                                 *)

LoopAt(from, to) ==
  /\ loop = from /\ loop' = to
  /\ UNCHANGED <<mainVars, watcherVars, newest, swapVars, serveVars, discoveryVars,
                 panicked>>

LoopCancelled == cancelled /\ LoopAt("listening", "stopped")

ReceiveError == LoopAt("listening", "kill")

(* Variant: the loop returns at an error, and nobody is told.              *)
KillNobody == LoopAt("kill", "stopped")

(* The kill is received by the watcher, if that is still there.            *)
Kill == loop = "kill" /\ loop' = "stopped" /\ Receive /\ UNCHANGED alarm

ReceiveUpdate ==
  command = "router" /\ newest < MaxUpdates /\ LoopAt("listening", "build")

(* The topological sort of any route at all panics, see DependencyGraph.   *)
GetRoutesPanics == loop = "build" /\ Panics("sort")

(* A router of no routes is built; for those with routes see Router.       *)
BuildRouter ==
  /\ loop = "build" /\ loop' = "swap"
  /\ newest' = newest + 1
  /\ UNCHANGED <<mainVars, watcherVars, swapVars, serveVars, discoveryVars, panicked>>

Hand(router) ==
  /\ loop = "swap" /\ ~closed /\ swapper = "waiting"
  /\ swapper' = "store" /\ received' = router
  /\ loop' = "listening"
  /\ UNCHANGED <<mainVars, watcherVars, newest, closed, handler, serveVars,
                 discoveryVars, panicked>>

(* Variant: Swap does not wait for the swapper.                            *)
SwapOrDrop ==
  \/ Hand(newest)
  \/ swapper # "waiting" /\ ~closed /\ LoopAt("swap", "listening")

(* Variant: the number of the next router is handed over.                  *)
SwapNext == Hand(newest + 1)

(* handlerCh is unbuffered.                                                *)
Swap == Hand(newest)

(* A send on a closed channel, also one that waits while it is closed.     *)
SwapPanics == loop = "swap" /\ closed /\ Panics("swap")

LoopStep ==
  LoopCancelled \/ Kill \/ GetRoutesPanics \/ BuildRouter \/ Swap \/ SwapPanics

-----------------------------------------------------------------------------
(* The service discovery, which knows of the process by its context and by *)
(* the receiver of its error.                                              *)

DiscoveryStep ==
  /\ Discovery!Sync \/ Discovery!SendError
  /\ UNCHANGED <<mainVars, watcherVars, loopVars, swapVars, serveVars, panicked>>

AlarmKills == alarm = "kill" /\ alarm' = "left" /\ Receive /\ UNCHANGED loop

-----------------------------------------------------------------------------
(* The swapper, the server and its requests.  A request that finds no      *)
(* router panics, and net/http recovers it.  Connections that are open     *)
(* bring requests when Serve has returned, until Shutdown closes them.     *)

StoreHandler ==
  /\ swapper = "store" /\ swapper' = "waiting"
  /\ handler' = received
  /\ UNCHANGED <<mainVars, watcherVars, loopVars, closed, received, serveVars,
                 discoveryVars, panicked>>

SwapperEnds ==
  /\ swapper = "waiting" /\ closed
  /\ swapper' = "ended"
  /\ UNCHANGED <<mainVars, watcherVars, loopVars, closed, received, handler, serveVars,
                 discoveryVars, panicked>>

(* Serve returns when Shutdown has begun, or when it cannot accept.        *)
ServeReturns ==
  /\ serve = "serving" /\ serve' = "returned"
  /\ UNCHANGED <<mainVars, watcherVars, loopVars, swapVars, requests, timedOut,
                 discoveryVars, panicked>>

(* A gRPC server that was stopped refuses new streams at once.             *)
BeginRequest ==
  /\ serve \in {"serving", "returned"} /\ main \notin {"drain", "collect"}
  /\ command = "xds" => ~closed
  /\ requests < MaxRequests
  /\ requests' = requests + 1
  /\ UNCHANGED <<mainVars, watcherVars, loopVars, swapVars, serve, timedOut,
                 discoveryVars, panicked>>

EndRequest ==
  /\ requests > 0
  /\ requests' = requests - 1
  /\ UNCHANGED <<mainVars, watcherVars, loopVars, swapVars, serve, timedOut,
                 discoveryVars, panicked>>

-----------------------------------------------------------------------------
Halted == Gone /\ UNCHANGED vars

Next ==
  \/ /\ ~Gone
     /\ \/ MainStep \/ PreRunFails \/ PreRunPanics
        \/ WatcherAdds \/ Signal \/ WatcherDone
        \/ LoopStep \/ ReceiveError \/ ReceiveUpdate
        \/ DiscoveryStep \/ AlarmKills
        \/ StoreHandler \/ SwapperEnds
        \/ ServeReturns \/ BeginRequest \/ EndRequest
  \/ Halted

Spec == Init /\ [][Next]_vars

(* Goroutines are scheduled.  Nothing forces a signal, an error, an update *)
(* or the end of a request, and a flush may wait for a lock for ever.      *)
FairSpec ==
  /\ Spec
  /\ WF_vars(~Gone /\ MainStep)
  /\ WF_vars(~Gone /\ (WatcherAdds \/ WatcherDone))
  /\ WF_vars(~Gone /\ LoopStep)
  /\ WF_vars(~Gone /\ discovery = "failed" /\ DiscoveryStep)
  /\ WF_vars(~Gone /\ AlarmKills)
  /\ WF_vars(~Gone /\ (StoreHandler \/ SwapperEnds))
  /\ WF_vars(~Gone /\ main \in {"drain", "collect"} /\ ServeReturns)

-----------------------------------------------------------------------------
(* The types of the variables.                                             *)
TypeOK ==
  /\ command \in {"router", "xds"}
  /\ protocol \in {"http2", "h2c"}
  /\ main \in {"prepare", "start", "open", "wait", "close", "shutdown", "drain",
               "collect", "exited"}
  /\ early \in BOOLEAN
  /\ watcher \in {"starting", "watching", "cancelled", "left"}
  /\ cancelled \in BOOLEAN
  /\ loop \in {"none", "listening", "kill", "build", "swap", "stopped"}
  /\ newest \in 0 .. MaxUpdates
  /\ closed \in BOOLEAN
  /\ swapper \in {"none", "waiting", "store", "ended"}
  /\ received \in 0 .. newest
  /\ handler \in 0 .. received
  /\ serve \in {"none", "serving", "returned", "reported"}
  /\ requests \in 0 .. MaxRequests
  /\ timedOut \in BOOLEAN
  /\ Discovery!TypeOK
  /\ panicked \in {"no", "config", "tls", "drain", "sort", "swap"}

(* What the process is to those outside of it.  To have been asked is to   *)
(* have been cancelled, or to have met no watcher to wait for.             *)
Phase ==
  IF panicked # "no" THEN "crashed" ELSE
  CASE main \in {"prepare", "start", "open"} -> "starting"
    [] main \in {"wait", "close", "shutdown"} -> "serving"
    [] main \in {"drain", "collect"} -> "draining"
    [] main = "exited" -> "down"

Server == INSTANCE Lifecycle WITH
  phase <- Phase, asked <- cancelled \/ early, inFlight <- requests,
  overdue <- timedOut

(* root.go:134-152, router.go:115-130, xds.go:121-135, server.go:36-207.   *)
(* Both commands are servers as Lifecycle describes them: once its watcher *)
(* is counted a process does not stop before it was asked to, and a        *)
(* shutdown leaves no request in flight unless the deadline has passed.    *)
ImplementsLifecycle == Server!Spec

(* swap_handler.go:10-22.  Requests find the router of the last Swap that  *)
(* returned, or the one before it, and never an older one, although nobody *)
(* waits for the swapper to store what it received.                        *)
AtMostOneBehind ==
  newest - handler <= IF loop = "swap" THEN 2 ELSE 1

(* root.go:134-152, router.go:58-130, xds.go:92-135.  A cancelled context  *)
(* ends the process: no goroutine of the shutdown waits for one that has   *)
(* left, and requests that do not end hold it up until the deadline only.  *)
CancelStops == cancelled ~> Gone

(* router.go:78-83, xds.go:66-73 and 106-111.  An error of the state       *)
(* manager or of the service discovery ends the process, also one that     *)
(* comes before the watcher is there, before the command has begun, or     *)
(* when another was sent already.                                          *)
ErrorStops == loop = "kill" \/ discovery = "failed" ~> Gone

(* root.go:160 offers to run without TLS, and server.go:58 asks only HTTP2 *)
(* for a TLS configuration: a server without one opens.                    *)
OpensWithoutTLS == panicked # "tls"
=============================================================================
