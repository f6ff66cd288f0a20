# cruiser: a TLA+ verification of its control plane and its router

Cruiser reads the state that Terraform left in an S3 bucket and serves what it
finds there: `cruiser xds start` as an xDS control plane for Envoy proxies,
`cruiser router start` as an HTTP/gRPC router whose routes end in AWS lambda
functions. One program, one process at a time, and inside the process a handful
of goroutines that meet on unbuffered channels, two read-write locks, a wait
group, and a few fields that have no lock at all. Nothing is persisted: what a
restart finds is the bucket.

The modules here are translated from the Go source, TLC checks them on small
instances, and TLAPS proves every safety property they check, and the safety half of what
must end, for every value of their constants. Paths below are relative to `src/`.

## 1. Inventory

### Core components

| Component | Source | State | Operations |
|---|---|---|---|
| xDS state | `pkg/state/xds.go` | five staged maps, five maps of what to delete, five `LinearCache`s, `endpointsMap`, `rwLock`, `updateCh` | `ReadFromTfstate`, `Build`, `SetClusterEndpoints` |
| dependency graph | `pkg/state/dependency_graph.go` | `nodes`, their lists of dependencies; during a sort the visited set, the calls of `visit`, the list | `AddSingleNode`, `AddEdge`, `TopologicalSort` |
| routes state | `pkg/state/routes.go` | `routesMap`, the graph, `rwLock`, `updateCh` | `ReadFromTfstate`, `Build`, `GetRoutes` |
| state manager | `pkg/state/manager.go` | wait group, timer, `errCh` | `Start` / `periodicSync`, one goroutine per manager and round |
| S3 tfstate source | `pkg/providers/aws/s3/tfstate_source.go` | `etagMap`, `tfstateMap` | `GetTfstate` |
| gRPC handler | `pkg/server/grpc.go`, `pkg/providers/aws/lambda/grpc_backend.go` | per call: two channels, the fields of the backend, the stream | `Handle`, `grpcReceiveFrom`, `grpcSendFrom`, `Begin`, `Request`, `Response` |
| server, swap handler | `pkg/server/server.go`, `pkg/server/swap_handler.go` | the handler (a field without a lock), `handlerCh`, `closeChannel`, the requests in flight | `Open`, `Serve`, `Close`, `Swap`, `watchSwap` |
| commands | `cmd/root.go`, `cmd/router.go`, `cmd/xds.go` | the context, `signalCh`, `waitClose` | `Execute`; of each command `PersistentPreRunE`, `RunE`, `PostRunE` and its loop |
| router | `pkg/server/router.go` | the mux of one build | `parseProtoRoute`, `ServeHTTP` |
| lambda HTTP backend | `pkg/providers/aws/lambda/http_backend.go` | that of one request | `ServeHTTP` |
| health checks | `pkg/providers/aws/provider.go`, `.../lambda/healthcheck.go` | a stop channel, a timer, a wait group | `HealthCheckHandlers` |
| service discovery | `pkg/providers/aws/service_discovery/xds.go` | a timer, `errCh`, assignments that stay empty | `Start` / `periodicSync`, `sync`, `flush` |

### Around them

The construction of AWS clients, TLS certificates (`pkg/tls`), the gRPC codec,
generated messages (`pkg/proto`), the logger, and `pkg/hooks`, which is empty.
They keep no state that changes, or are I/O; the models have what their
failures do to the process.

### How they interact

    bucket <- polls - tfstate source <- state manager -> goroutine per manager
                                            | errCh         | updateCh
                                            v               v
    signals -> watcher of Execute <- kill - loop of the command
                  | cancels                 |  xds: acknowledges
                  v                         |  router: GetRoutes, build, Swap
               context -> main: closes swap handler, then server
                                            v
    Envoy <- caches <- xDS state       swapper -> handler <- requests -> backends
               ^
        service discovery (SetClusterEndpoints)
          | errCh -> its receiver - kill -> watcher of Execute

All channels are unbuffered. `Build` of either state sends its update *while it
holds its write lock*, so whoever wants that lock waits for the loop, and the
loop of the router wants that very lock (for reading) next.

### What is hard, and what makes each component correct

- **xDS state.** Five caches are brought up to date one after the other while
  Envoy reads them. Correct: a kind is replaced whole, in the order in which
  the kinds refer to each other; every resource published can be withdrawn
  later; lock and channel let everybody finish; discovered endpoints get out.
- **dependency graph.** Cycles, diamonds and repeated edges. Correct: the sort
  ends, lists every node once and in topological order.
- **routes state.** A graph without a lock under a state with one. Correct: no
  goroutine changes the graph during a sort, a sort has the whole of every build
  that went through, and of others nothing, unless the last one failed half way.
- **state manager.** Goroutines of two rounds must not overlap; a failed one
  must stop the rounds and the process; otherwise rounds go on, past the loop of
  either command.
- **tfstate source.** The object may change between head and download, and
  between pages. Correct: no change is lost, and the newest version wins.
- **gRPC handler.** Two goroutines share the backend without a lock, and
  `Handle` counts four events. Correct: success means a real and complete
  answer; `Handle` returns if the answer is there in time.
- **process.** Start, signal, error, update and shutdown race, and two senders
  compete for one receiver of kills. Correct: it stops when asked to and only
  then, requests are not cut before the deadline, an error ends it, whoever has
  it and whenever.
- **router.** A list of routes in any order becomes a tree, and mux matches the
  tree in its own way. Correct: a backend gets no request that the rules on its
  route and above do not all accept; a request that a route is meant for is not
  turned away.
- **lambda HTTP backend.** Any of six steps fails, some of them after the status
  is out. Correct: what the client takes for the function's answer is one.
- **service discovery.** It begins before the command does and ends it when it
  fails. Correct: its one error always gets through.

`PROJECT.json` lists each hazard at its line, with the properties that cover it.

## 2. Plan

1. *(done)* `SnapshotStore`, `XdsState`, its refinement and its proofs: the
   behaviour that proxies depend on most.
2. *(done)* `DependencyGraph` with proofs, then `RoutesState`, which composes it
   with the synchroniser and the loop of the router.
3. *(done)* `StateManager` and `TfstateSource` with proofs: where every update
   of both commands comes from.
4. *(done)* `GrpcHandler`: one gRPC call and its two goroutines.
5. *(done)* `HealthChecks`: the workers of `HealthCheckHandlers`, the wait group
   and the stop channel. It stands beside `Process`, whose loop makes the calls:
   today no router with a handler gets that far, since the sort panics.
6. *(done)* `Process`, both commands from start to shutdown, composed with
   `ServiceDiscovery`, and `Lifecycle`, which both implement.
7. *(done)* `Router`, the mux of a list of routes, composed with `HttpBackend`.
8. *(done)* Proofs about `Process` (that it implements `Lifecycle`,
   `AtMostOneBehind`), `RoutesState` (mutual exclusion under `rwLock`,
   `SortsWholeBuild`), `GrpcHandler` (`SuccessIsReal`), `HealthChecks`
   (`ChecksComplete`) and `Router` (`SoundDispatch`, `CompleteDispatch`).
9. *(done)* Proof of `RoutesResolve`, for syncs that read the clusters their routes
   name.
10. *(done)* What ends: for each property of liveness the part that is no matter of
   scheduling. Calls have finite work, and who waits waits for somebody.

An abstract specification is worth stating where a reader depends on a promise
and not on how it is kept: `SnapshotStore` for the caches (done), the sequential
graph for `RoutesState` (done: it is `DependencyGraph` itself), and the life of a
server for those who run it and those who call it, `Lifecycle` (done).

## 3. Modules and the code

Each variable is commented in its module; `PROJECT.json`, under `map`, gives for
every definition the lines it stands for. A definition whose comment starts with
"Variant:" is no part of any specification: it is what a plausible bug in the
next definition would look like, and the list of mutants in `PROJECT.json` says
which property finds it out.

### XdsState, SnapshotStore

The synchroniser has a control point `sync`: it reads resources one by one into
`staged` (`ReadResource`, no lock, as in the code), takes the lock
(`BuildLock`), brings one cache up to date per step (`TransactNext`), rotates the
maps, meets the loop (`SendUpdate`) and unlocks. `Leftover` and
`UpdateResources` are the in-place deletions of `transactXdsResource` and the
`LinearCache` of go-control-plane (external). `TransactFails` is the error of
`UpdateResources`, which comes *after* the cache has changed. `ReadRaces` is the
unlocked read of `endpointsMap` at a moment when `SetClusterEndpoints` writes
it: the Go runtime aborts the process.

`SnapshotStore` says what a proxy may rely on and nothing about maps, locks or
differences: a round takes a snapshot and replaces whole tables in order.
`XdsState` implements it (`ImplementsSnapshotStore`) with

    published <- cache,  snapshot <- staged while building,  turn <- step

### DependencyGraph, RoutesState

`DependencyGraph` has one step per call of `visit`, per look at a dependency and
per return; `stack` holds the calls. Roots are taken in any order, as the range
over a Go map does. `RoutesState` instantiates it with the routes as values, and
adds `rwLock`, the range over `routesMap` (again in any order), the errors, and
the loop. A reader waiting for a `sync.RWMutex` goes before the next writer:
that is why `BuildLock` has the guard `loop # "waiting"`.

### StateManager

`periodicSync`, one record per goroutine of a manager, the loop of a command and
the cancellation of the context. `SendsError` does not touch `wg`: the code calls
`wg.Done` only when all went well, which is what stops the rounds. `command` says
whose loop it is. That of xds is back at its channels when it has an update
(`XdsTakesUpdate`); that of router (`RouterTakesUpdate`) first asks the manager for
its routes, under the lock that `Build` still holds, builds a router and swaps it in
(`CallRLock` to `SwapRouter`), and receives neither updates nor errors meanwhile.
The lock has no variable: who holds it follows from where the goroutines and the
loop are (`Building`, `Reading`). `SetClusterEndpoints`, which takes the lock of the
xDS state too, is in `XdsState`; the swapper that `Swap` waits for is in `Process`.

### TfstateSource

The poll step by step (`NextPage`, `HeadKnown`/`HeadNew`, `Download`, `Decode`)
against an object that Terraform writes or deletes between any two of them. A
content stands for its etag. `AssumeRoleFails` is the refusal of temporary
credentials, which the client factory answers with a panic. `version` counts the writes: it is what the
properties compare, and the code cannot see it.

### GrpcHandler

Control points of both goroutines at the granularity at which one can see what
the other does: the nil answer, the empty one, the decoded one, half a body (a
slice is three words), the metadata. `events` and `watched` are the counter and
the channels of the loop in `Handle`. Payloads are left out. What `Router` has too
(`Init`, `Next`, `TypeOK`) is named after the call here (`CallInit`, ...), so that
one module of proofs extends both.

### Process, ServiceDiscovery, Lifecycle

The goroutines of `cruiser router start` or `cruiser xds start`; `command` says
which, and chooses between `PreRunRouter` and `PreRunXds`, and between
`CloseHandler` and `GracefulStop`. Main, the watcher of `Execute`, the loop, the
swapper and the goroutine of `Serve` have a control point each. The state
manager is what `ReceiveError` and `ReceiveUpdate` may bring at any moment;
`BuildRouter` and `GetRoutesPanics` stand for `GetRoutes` with and without
routes, for which see `RoutesState` and `DependencyGraph`. The loop of the xDS
command does nothing with an update, so that there is no step for it. Requests
are counted; for the xDS server they are the streams of Envoys. `Receive` is the
watcher taking a signal, from outside (`Signal`), from the loop (`Kill`) or from
the receiver of the discovery's error (`AlarmKills`): it takes one, and whoever
comes later waits for ever, or is dropped if it comes from outside.

`ServiceDiscovery` is instantiated with the variables of `Process`: it knows of
the process only that its context is cancelled. `DiscoveryStep` is its step.

`Lifecycle` is what the server promises, without goroutines and channels. Both
commands implement it (`ImplementsLifecycle`) with

    phase <- Phase (the control point of main),  inFlight <- requests,
    asked <- cancelled, or waitClose had nobody to wait for,  overdue <- timedOut

### Router, HttpBackend

`ParseRoute` makes one route of the list, whatever the order of the list:
`mux[i].line` is the route with those above it. A parent that has not been made
yet is a nil pointer (`NoParentYet`), a handler without a backend a panic of the
provider. What mux does with the routes is external, and modelled for gorilla/mux
1.8.0 from what `router.go` asks of it: a child's router is one more matcher of
its parent (`Tree`, `Matches`), handlers are found children first (`Before`), and
a handler that was found stays found when the match comes to nothing
(`LeftBehind`). A rule is the set of requests it says it accepts; `Accepted` is
what the code makes of it. Then one request is dispatched (`Candidates`), and
`HttpBackend` takes it, step by step, with every failure: the invocation, the
function, the payload, the status, the base64, the connection. Its `status`,
`headers` and `body` are what the client sees, so that what comes after the
first status is lost as in net/http.

### HealthChecks

A caller (the loop of the router command), one dispatcher for each call, one
worker for each handler a dispatcher sent. The workers are anonymous in the code:
here a worker is named by the handler it was started for, and `taken` says which
one it really got from the channel. A call may find that the dispatcher it wants
to stop has gone by its timer (`TooLate`).

## 4. What is checked

| Run | Instance | Shows |
|---|---|---|
| `xds_state` | 2 names, 6 contents, 5 inputs, 3 flushes | The caches follow `SnapshotStore` (`ImplementsSnapshotStore`), nothing published is lost track of (`PublishedIsTracked`), routes resolve to clusters seen with them except while clusters are withdrawn (`RoutesResolve`), `Build` and `SetClusterEndpoints` end (`SyncTerminates`, `DiscoveryServed`), published endpoints settle with the discovered ones (`EndpointsConverge`) |
| `dependency_graph` | 3 keys, one with 2 values, lists of 2 dependencies | Each node once (`EachNodeOnce`), dependents first but on cycles (`DependentsFirst`), the sort ends (`SortReturns`) |
| `sort_assertion` | the same | **Violated**: the type assertion on the list holds for no element, so every sort of a graph with a node panics |
| `state_manager` | 2 commands, 2 managers, 3 goroutines, 2 tfstates | Rounds do not overlap (`NoOverlap`), none begins after a failure (`FailStop`), errors cancel (`ErrorCancels`), otherwise rounds go on (`RoundsGoOn`), except for a loop of router that a round has overtaken |
| `no_source` | the same | **Violated**: a source is said to be disabled when none is selected, and it is called |
| `tfstate_source` | 4 contents, 2 pages, 4 writes | A poll that returns nothing missed nothing (`NothingMissed`), the newest version is last (`NewestLast`), the managers get what the object settles on (`Converges`) |
| `routes_state` | 3 route names, 7 inputs, 3 dependencies | The graph is used by one goroutine at a time (`GraphUsedSequentially`, a refinement of `DependencyGraph`), a sort has all of the builds that went through, and nothing else unless the last build failed half way (`SortsWholeBuild`), `Build` and `GetRoutes` end unless a round overtakes the loop (`BuildReturns`, `UpdateServed`) |
| `grpc_handler` | one call | Success is a complete 200 that was sent, with its header (`SuccessIsReal`); if the answer is stored in time `Handle` returns; if not it returns or the process panics, which is the only end of a call whose client sends nothing; after a 410 nothing is said; and both goroutines end unless the other one failed (`CallEnds`) |
| `process` | 2 commands, 3 routers, 2 requests | Both commands are servers as `Lifecycle` says: they stop only when asked, take nothing new while they drain, and cut no request before the deadline (`ImplementsLifecycle`); the handler is at most one behind (`AtMostOneBehind`); cancelled (`CancelStops`) or failed (`ErrorStops`), also by the discovery, they end |
| `router` | 3 names, 3 routes, 5 sets of rules, 3 requests | A backend gets only requests that all rules above it accept (`SoundDispatch`), a plain route is found (`CompleteDispatch`), what goes out as the function's answer is one (`RealAnswer`) |
| `health_checks` | 3 calls, 3 handlers, a channel of 2 | When a dispatcher is ready to be stopped every handler of its call was taken once and its check is through (`ChecksComplete`); a call gets past the one before it unless the timer was faster (`CallReturns`) |
| `no_tls` | that of `process` | **Violated**: with TLS disabled the server calls a nil function as it opens |

### Bounds, and why they are enough

- *XdsState*: two names make one resource replaced while another stays; two
  versions of a cluster make an update; the inputs have an empty one, a change
  of route, an overwritten resource, a malformed one. A flush with an empty list
  in front is there for the early return. Syncs and flushes are not bounded.
- *DependencyGraph*: three nodes are the least with a diamond-like shape and with
  a cycle that does not hold all nodes; two entries per list allow a repeated
  edge. All graphs within that bound are built and sorted.
- *StateManager*: each command has one manager, the code allows for more; two managers, with a third
  goroutine so that a round that starts too early would show. Rounds are not bounded,
  so one may go by while the loop of router is on its way to `RLock`.
- *TfstateSource*: two pages are two looks at the object in one poll; four
  writes are enough for the object to change between any of the requests of
  both and to come back to an earlier content. The number of polls is not bounded.
- *RoutesState*: two routes give a tree, a cycle and a route that is its own
  parent; a third name, which no route has, is the parent that is missing beside a
  good route, so that a build fails after it added something, or before. `MaxDependencies` stops a `Build` that would add a
  fourth edge to a node; deadlock is checked, and the sort of any graph with a
  route panics before that is reached.
- *GrpcHandler*: messages are counted up to 3; the loop after a 410 goes on.
- *Process*: three routers let a handler fall two behind; two requests let one
  end and the other not. Rounds of the discovery are not bounded.
- *Router*: three routes are a chain of parents, two siblings, or two trees; all
  lists of up to three routes are built. The sets of rules are one for paths, one
  for methods, one for headers (which the code pads), one for gRPC with a path,
  and none; the three requests are told apart by them.
- *HealthChecks*: with room for two handlers in the channel the third waits for a
  worker; three calls stop two dispatchers, the second of which has stopped one.

### Fairness

Weak fairness of a goroutine's steps: the Go scheduler runs what can run,
polls and invocations return, timers fire. Strong fairness only for taking a lock
(`BuildLock`, `DiscoveryLock`, `RLock`): a `sync.RWMutex` hands over to a waiter,
so one that is overtaken again and again still gets it (in `StateManager`, where a
reader or writer that waits is always the next, weak fairness is enough). In `Process` a send of the discovery is fair, its rounds
are not: its flush may wait for the lock of the xDS state. Nothing is assumed of
signals, errors, updates, writes to the bucket, clients, flushes, or new syncs,
except the premises that the properties state themselves. Deadlock is checked in
all runs; where a process may come to rest for good (it panicked, it is shutting
down, the loop has left or is overtaken) a step `Halted` says so.

## 5. What is proved

Every proof is checked to the last leaf, with no bound on the constants.

- `XdsStateProofs`, from `XdsAssumption` (the marks for absence and for
  malformed content are no contents, inputs are sequences of resources).
  `PublishedIsTracked` is not inductive: in the middle of a `Build` the maps and
  the caches differ. `Inv` adds `ControlOK` (where the synchroniser is tells who
  has the lock and how far it is) and `ReplacedSoFar` (the caches before `step`
  are what is staged, those after it are what is to be deleted). From it follow
  `TypeCorrect`, `Tracked`, and `Refinement`, the theorem that every step is a
  step of `SnapshotStore` or a stutter: the differences that
  `transactXdsResource` computes amount to replacing a table, *because* what is
  to be deleted is what the cache holds. `RoutesAlwaysResolve` has a hypothesis,
  that each sync reads the clusters its routes name (`SelfContained`, in any order;
  TLC evaluates it for the instance). Half of a sync does not resolve yet, so
  `StagedResolves` says that what is staged or to be read routes to clusters that are
  staged or to be read. When `Build` replaces the clusters, the routes of the
  last round are still there: they resolve as long as nothing is left to be deleted
  in the cluster map, which is what `WithdrawingCluster` excludes. `CallsAreFinite`
  counts the steps a sync and a call of `SetClusterEndpoints` have left
  (`SyncLeft`, `SetLeft`): each of their steps makes it less, failures included, and
  who waits for `rwLock` waits for the other to use it (`LockIsInUse`).
- `DependencyGraphProofs`, from `GraphAssumption`. `SearchInv` says of a search in
  progress that what was visited is listed or on the stack, and not both
  (`VisitedOK`), that calls further down reach those further up (`StackChain`),
  that no node is on the stack twice, and that the dependencies that were looked
  at are visited. When a node leaves the stack each dependency is listed behind
  it or still on the stack, and then it reaches the node: a cycle. From it
  `TopologicalOrder`, `ListedExactlyOnce`, `GraphTypeCorrect`, for graphs of any
  size. Reachability is by closed sets, so there is no recursion. That a sort ends
  is no matter of fairness alone: `Work` is what a search has still to do (the nodes
  to visit, the dependencies to look at, the nodes to list), and `SearchEnds` that it
  is finite and that every step takes from it, on cyclic graphs too.
- `StateManagerProofs`, from `ManagerAssumption` (there are more goroutines than
  managers). `RoundInv`: the wait group is the number of goroutines that did not
  call `Done`, failed ones included, so that it is zero only when there are none.
  From it `RoundsDoNotOverlap`, `FailureStopsRounds`, `ManagerTypeCorrect`, and
  `NoLostGoroutine`: while a round is not through there is a goroutine to start, one
  at work, or one that failed (so also that the identities of goroutines, which the
  model has finitely many of, never run out). `ErrorsAreHeard`: whoever failed has
  told the loop of it, and a loop that stopped leaves a cancelled context.
  `OnlyOvertakingBlocks`, from `LockOK` (a loop that reads under the lock has it
  alone): a round and the loop wait for each other over a lock in no other way than
  `Overtaken`, and the loop of xds never does.
- `TfstateSourceProofs`, from `SourceAssumption`. A remembered tfstate may be newer
  than the etag it is remembered under, never older: `Fresh` says that then the
  object is not back at that etag, unless a content was written again. With
  `Kept`, `Etags`, `Seen`, `Ages` this gives `NoChangeMissed` and
  `NewestReturnedLast`, and `SourceTypeCorrect`.
- `RoutesStateProofs`, from `RoutesAssumption`. `LockInv` says who holds `rwLock`
  and who is in the graph; from it `GraphIsUsedSequentially`, that every step is
  one of `DependencyGraph` or leaves the graph alone. By that refinement the
  theorems of `DependencyGraphProofs`, taken in by an instance, are true of the
  sort of the routes (`RoutesAreSorted`). `SortsWholeBuild` is not inductive: a
  sort begins long after the build. `BuildInv` adds that what a build has visited
  so far is in the graph, and stays there, as nothing is ever removed
  (`NothingRemoved`); `NothingElse`, that all in the graph is of builds that went
  through or was read by the one that has the lock, until one fails half way. From
  them `WholeBuildIsSorted`, and `TypeCorrect`. By the same
  refinement each sort of the routes ends (`SortsEnd`), and by `LockInv` the loop
  and the synchroniser wait for each other only as in `Overtaken`
  (`OnlyOvertakingBlocks`).
- `RequestProofs`, for the two ways a request may go. For the router, from
  `RouterAssumption` (routes have names, and a rule for gRPC accepts the gRPC
  calls): `Lines` says how the mux is linked, `LineIsAbove` that whoever goes from
  a route to parents comes by all of its line. So what a route is matched by is
  what the list says (`AboveIsLine`), and what is not found leaves its reason in
  `Dispatched`. From it `BackendsGetTheirOwn`, `PlainRoutesAreFound`, for lists of
  any length, `AnswersAreReal` and `TypeCorrect`. For a gRPC call, from
  `SentAssumption` (messages are counted up to some positive number): when `Handle` returns without an error it had
  four events, two of each goroutine (`Collected`); a goroutine that received and
  did not fail has stored the whole answer, since the status is stored once
  (`Stored`); and the one that sends acts on a status that cannot change any more
  (`Answered`). From it `SuccessNotClaimedEarly`, `CallTypeCorrect`, and
  `OnlyErrorsLeaveBehind`: a goroutine whose result is ready is listened to unless
  `Handle` returned an error. `StepsLeft` counts what both goroutines and `Handle`
  have still to do; `CallsAreShort` says that but for a 410 it is 20 at most and
  every step takes from it.
- `ProcessProofs`, from `ProcessAssumption` (the two bounds are numbers). `HandOver`
  relates loop and swapper: as `handlerCh` is unbuffered, the loop has no more than
  one router that the swapper has not stored. `MainKnows` is what main may conclude
  where it is: that it was asked, that the swapper has ended, that no request is
  left or the time is over. From them `SwapsInTime`, `TypeCorrect`, and
  `ProcessImplementsLifecycle`, step by step for both commands. `Traces` is what each
  goroutine leaves behind; from it `NobodyWaitsInVain`, that main, the loop, the
  discovery and whoever kills do not wait for a goroutine that has left.
- `HealthChecksProofs`, from `HealthAssumption`. Workers take handlers from a common
  channel, so that a worker has in general not the handler it was started for.
  The invariant counts: the wait group is the number of workers at work
  (`WorkersCounted`), only the last call has any (`OneDispatcher`), the channel has
  what was sent and not taken, in order (`ChannelInOrder`), and what was taken are
  the first handlers of a call, one worker each (`TakenOnce`). When the wait group
  is zero, as many are taken as were sent (`AllTaken`). From it `EachHandlerOnce`
  and `TypeCorrect`, which says that `Done` is never called too often.
  `NobodyWaitsForEver` has a hypothesis, that the channel has a place: then a worker
  always finds a handler, since one was sent for each before it was started, and a
  dispatcher that waits has workers of its call that do not.

Only model-checked: all liveness, since fairness and ENABLED are out of the prover's
reach. Of most of it the part that is not scheduling is proved: finite work for
`SyncTerminates`, `DiscoveryServed`, `SortReturns` and `CallEnds`, and that nobody
waits for what is gone for these, `BuildReturns`, `UpdateServed`, `RoundsGoOn`,
`CallReturns`, `CancelStops`, `ErrorStops` and, as far as `ErrorsAreHeard` goes,
`ErrorCancels`. What is left to TLC is that goroutines which can run do. `Converges`
and `EndpointsConverge` are TLC's alone. Every invariant and every refinement that a
run checks has its theorem.

The proofs found three places where a module said less than it meant, which no run
could show: a `CASE` whose arms overlapped, so that its value was left to the checker,
in `Process` (`Phase`) and in `Router` (`BackendOf`), and in `RouterAssumption` that a
rule for gRPC accepts the gRPC calls.

## 6. What was met on the way

Disagreements of the code with itself, each with a run that shows it: the type
assertion in `TopologicalSort` (`pkg/state/dependency_graph.go:86`), the source
that is "disabled" and called (`pkg/state/manager.go:30`), and the server without
TLS (`pkg/server/server.go:76`).

Behaviour that the models contain, and that their properties have to allow for:

- `ReadFromTfstate` of the xDS state reads `endpointsMap` without the lock; the
  process may abort (`ReadRaces`).
- `SetClusterEndpoints` returns at the first cluster without endpoints, and what
  is behind it in the list is dropped. Its only caller always passes an empty
  list, since it drops the assignments it makes; the model takes any list.
- A poll that finds no change returns nothing, and the managers build from
  nothing: the xDS state withdraws all it published until the next change.
- The tfstate source takes the name of the bucket for the key of an object, so
  that one object at most is ever read, once for each page.
- An object that gets an earlier content back between two requests may be missed
  (`reverted`). One that shrinks between head and download leaves zeros in the
  buffer, which do not decode, and ends the synchronisation.
- The sort puts a route before its parent, and the mux of a child is made below
  that of its parent: the order is the opposite of what `router.go:48` needs.
- The graph forgets nothing, keeps the first version of a route, and gets the
  edges of every round once more.
- A round of the routes state that goes by while the loop is between its update
  and `RLock` leaves `Build` and the loop waiting for each other (`Overtaken`), and
  no other round begins, nor does that loop hear of an error. Only a signal ends it.
- A `Build` that ends with `ErrNoParentFound` leaves what it added in the graph, and
  a loop that is between its update and `RLock` then sorts it (`HalfBuilt`). The error
  ends the rounds, so that it is the last such sort.
- In a gRPC call `Response` may read nil and panic, which it always does when the
  client sends nothing, or see status 200 before the
  body is there and send an empty message with success; a lambda client that
  returns an error dereferences nil; a goroutine whose result comes after the
  other's error stays behind; after a 410 the send loop does not end.
- `waitClose.Add` is called by the goroutine that is to be waited for, so that
  a process may stop as soon as it has started (`early`). A signal before the
  watcher receives is dropped. `Swap` after `Close` panics.
- `GracefulStop` of the xDS command panics while an Envoy has a stream open: the
  streams come through `ServeHTTP`, and grpc-go cannot drain their transport
  (`GracefulStopPanics`). The panic is a crash of `Lifecycle`.
- mux takes the router of each child for a matcher of its parent: a request has to
  match *all* the children of a route for any of them to get it, and a route with a
  handler and a child answers only what its child matches, with the child's
  handler. `CompleteDispatch` is about routes without such company (`Plain`).
- The lists of headers, of their regular expressions and of queries are appended
  to empty strings, so that no request matches a route with one of them.
- Only the rules of a route itself make its backend a gRPC one: a child of a route
  for gRPC calls gets an HTTP backend unless it says so again.
- The lambda HTTP backend dereferences nil when an invocation fails, panics when a
  response has no status, and sends its error text under the function's status
  when the body is not the base64 it says it is. net/http recovers the panics.
- Refused temporary credentials, at a poll, and a configuration of AWS that cannot
  be loaded, at the start, end the process with a panic.
- `HealthCheckHandlers` checks each handler once: its timer only ends the
  dispatcher, after which the next call, and the loop with it, waits for ever
  (`TooLate`). The parallelism is the capacity of a channel that workers empty
  before they invoke anything, so that it bounds no invocations; with a parallelism
  of 0, which the flag accepts (`cmd/root.go:171`), the channel has no place, and the
  first send to it waits for ever. A health check whose invocation fails, as it does when the context is cancelled meanwhile,
  dereferences nil and ends the process.

## 7. What is not modelled, and why

- Of the AWS clients and of TLS only what their failure does to the process: their
  construction keeps no state that changes.
- Flags and configuration files, beyond what they choose between (TLS, role,
  namespaces): they are read once, before any goroutine but the watcher runs.
- The codec (it passes bytes on), generated code but for the types of the rules,
  logging, and `pkg/hooks`, which is empty.
- In `Router`: requests with a query of an empty name, paths that mux redirects
  before it matches, and variables in paths. One request at a time is enough, as a
  router does not change once it is built.
- In `ServiceDiscovery`: pages, and data, since the assignments are dropped before
  any flush; what a flush may do to the xDS state is in `XdsState` for any list.
- Payloads, names, headers and wire formats are model values throughout.
