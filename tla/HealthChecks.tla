---------------------------- MODULE HealthChecks ----------------------------
(***************************************************************************)
(* The health checks of the AWS provider: HealthCheckHandlers and          *)
(* doHealthCheck of src/pkg/providers/aws/provider.go, and DoHealthcheck   *)
(* of lambda/healthcheck.go.                                               *)
(*                                                                         *)
(* The loop of the router command asks for the checks of each new router.  *)
(* A call stops the dispatcher of the call before it and starts one of its *)
(* own, which puts the handlers into a buffered channel and starts one     *)
(* worker for each of them.  Any worker takes any handler.  The dispatcher *)
(* waits for the workers and then for the next call, the end of the        *)
(* context or its timer, and returns: nothing is checked a second time.    *)
(*                                                                         *)
(* A call without handlers, or with an interval of zero, returns at once   *)
(* and is left out.                                                        *)
(***************************************************************************)
EXTENDS Naturals, Sequences, FiniteSets

CONSTANTS MaxCalls,     \* bound on the calls
          MaxHandlers,  \* bound on the handlers of a call
          Parallelism   \* the capacity of healthCheckCh

ASSUME HealthAssumption ==
  MaxCalls \in Nat /\ MaxHandlers \in Nat /\ Parallelism \in Nat

Calls == 1 .. MaxCalls
Handlers == Calls \X (1 .. MaxHandlers)
None == <<0, 0>>

VARIABLES
  caller,     \* "idle", or "stop" while it sends on stopHealthCheckCh
  call,       \* the calls that started a dispatcher
  size,       \* size[c]: the handlers of call c are <<c, 1>> .. <<c, size[c]>>
  dispatcher, \* dispatcher[c]: control point of the goroutine of call c
  sent,       \* sent[c]: how many handlers it has sent
  channel,    \* healthCheckCh
  worker,     \* worker[w]: control point of the worker started for handler w
  taken,      \* taken[w]: the handler it received, or None
  wg,         \* the counter of healthCheckWg
  panicked    \* a worker panicked, the process is dead

callVars == <<caller, call, size>>
dispatcherVars == <<dispatcher, sent>>
workerVars == <<worker, taken>>
vars == <<callVars, dispatcherVars, channel, workerVars, wg, panicked>>

Init ==
  /\ caller = "idle" /\ call = 0 /\ size = [c \in Calls |-> 0]
  /\ dispatcher = [c \in Calls |-> "none"] /\ sent = [c \in Calls |-> 0]
  /\ channel = <<>>
  /\ worker = [w \in Handlers |-> "none"] /\ taken = [w \in Handlers |-> None]
  /\ wg = 0
  /\ panicked = FALSE

-----------------------------------------------------------------------------
(* HealthCheckHandlers.  The first call makes stopHealthCheckCh, and has   *)
(* nobody to stop.                                                         *)

HealthCheckHandlers(n) ==
  /\ caller = "idle" /\ call < MaxCalls
  /\ size' = [size EXCEPT ![call + 1] = n]
  /\ \/ /\ call = 0
        /\ call' = 1
        /\ dispatcher' = [dispatcher EXCEPT ![1] = "send"]
        /\ UNCHANGED caller
     \/ /\ call > 0
        /\ caller' = "stop"
        /\ UNCHANGED <<call, dispatcher>>
  /\ UNCHANGED <<sent, channel, workerVars, wg, panicked>>

(* Variant: the call does not wait for the dispatcher to be stopped.       *)
StopNobody ==
  /\ caller = "stop"
  /\ dispatcher' = [dispatcher EXCEPT ![call + 1] = "send"]
  /\ call' = call + 1
  /\ caller' = "idle"
  /\ UNCHANGED <<size, sent, channel, workerVars, wg, panicked>>

(* stopHealthCheckCh is unbuffered: the call meets a dispatcher that is in *)
(* its select.                                                             *)
Stop ==
  /\ caller = "stop"
  /\ \E c \in Calls :
       /\ dispatcher[c] = "select"
       /\ dispatcher' = [dispatcher EXCEPT ![c] = "ended", ![call + 1] = "send"]
  /\ call' = call + 1
  /\ caller' = "idle"
  /\ UNCHANGED <<size, sent, channel, workerVars, wg, panicked>>

-----------------------------------------------------------------------------
(* The dispatcher of a call                                                *)

SendHandler(c) ==
  /\ dispatcher[c] = "send" /\ sent[c] < size[c]
  /\ Len(channel) < Parallelism
  /\ channel' = Append(channel, <<c, sent[c] + 1>>)
  /\ sent' = [sent EXCEPT ![c] = @ + 1]
  /\ dispatcher' = [dispatcher EXCEPT ![c] = "start"]
  /\ UNCHANGED <<callVars, workerVars, wg, panicked>>

StartWorker(c) ==
  /\ dispatcher[c] = "start"
  /\ wg' = wg + 1
  /\ worker' = [worker EXCEPT ![<<c, sent[c]>>] = "receive"]
  /\ dispatcher' = [dispatcher EXCEPT ![c] = "send"]
  /\ UNCHANGED <<callVars, sent, channel, taken, panicked>>

(* Variant: the workers are not waited for.                                *)
WaitForNobody(c) ==
  /\ dispatcher[c] = "send" /\ sent[c] = size[c]
  /\ dispatcher' = [dispatcher EXCEPT ![c] = "select"]
  /\ UNCHANGED <<callVars, sent, channel, workerVars, wg, panicked>>

WaitForWorkers(c) ==
  /\ dispatcher[c] = "send" /\ sent[c] = size[c]
  /\ wg = 0
  /\ dispatcher' = [dispatcher EXCEPT ![c] = "select"]
  /\ UNCHANGED <<callVars, sent, channel, workerVars, wg, panicked>>

(* The timer fires, or the context is cancelled.                           *)
SelectEnds(c) ==
  /\ dispatcher[c] = "select"
  /\ dispatcher' = [dispatcher EXCEPT ![c] = "ended"]
  /\ UNCHANGED <<callVars, sent, channel, workerVars, wg, panicked>>

DispatcherStep(c) ==
  SendHandler(c) \/ StartWorker(c) \/ WaitForWorkers(c) \/ SelectEnds(c)

-----------------------------------------------------------------------------
(* A worker: doHealthCheck                                                 *)

Receive(w) ==
  /\ worker[w] = "receive" /\ channel # <<>>
  /\ taken' = [taken EXCEPT ![w] = Head(channel)]
  /\ channel' = Tail(channel)
  /\ worker' = [worker EXCEPT ![w] = "invoke"]
  /\ UNCHANGED <<callVars, dispatcherVars, wg, panicked>>

(* Whatever the function answers, nothing is made of it.                   *)
Invoke(w) ==
  /\ worker[w] = "invoke"
  /\ worker' = [worker EXCEPT ![w] = "done"]
  /\ UNCHANGED <<callVars, dispatcherVars, channel, taken, wg, panicked>>

(* Invoke returns a nil result with its error, also when the context is    *)
(* cancelled while it runs, and the result is looked at first.             *)
InvokeFails(w) ==
  /\ worker[w] = "invoke"
  /\ panicked' = TRUE
  /\ UNCHANGED <<callVars, dispatcherVars, channel, workerVars, wg>>

(* Variant: Done is not called.                                            *)
NotDone(w) ==
  /\ worker[w] = "done"
  /\ UNCHANGED vars

(* Variant: Done is called once more, by a deferred call.                  *)
DoneTwice(w) ==
  /\ worker[w] = "done"
  /\ wg' = wg - 2
  /\ worker' = [worker EXCEPT ![w] = "ended"]
  /\ UNCHANGED <<callVars, dispatcherVars, channel, taken, panicked>>

Done(w) ==
  /\ worker[w] = "done"
  /\ wg' = wg - 1
  /\ worker' = [worker EXCEPT ![w] = "ended"]
  /\ UNCHANGED <<callVars, dispatcherVars, channel, taken, panicked>>

WorkerStep(w) == Receive(w) \/ Invoke(w) \/ InvokeFails(w) \/ Done(w)

-----------------------------------------------------------------------------
(* The dispatcher had gone when the call came to stop it, or went by its   *)
(* timer before it was stopped: the call, and the loop that made it, wait  *)
(* for ever.                                                               *)
TooLate ==
  /\ caller = "stop"
  /\ \A c \in Calls : dispatcher[c] \in {"none", "ended"}

(* Calls are bounded here, and a dispatcher that is through may be the     *)
(* last one.                                                               *)
Halted ==
  /\ \/ panicked \/ TooLate
     \/ call = MaxCalls /\ \A c \in Calls : dispatcher[c] = "ended"
  /\ UNCHANGED vars

Next ==
  \/ /\ ~panicked
     /\ \/ \E n \in 1 .. MaxHandlers : HealthCheckHandlers(n)
        \/ Stop
        \/ \E c \in Calls : DispatcherStep(c)
        \/ \E w \in Handlers : WorkerStep(w)
  \/ Halted

Spec == Init /\ [][Next]_vars

(* Goroutines are scheduled, functions answer and timers fire.  Nothing    *)
(* forces a call.                                                          *)
FairSpec ==
  /\ Spec
  /\ WF_vars(~panicked /\ Stop)
  /\ \A c \in Calls : WF_vars(~panicked /\ DispatcherStep(c))
  /\ \A w \in Handlers : WF_vars(~panicked /\ WorkerStep(w))

-----------------------------------------------------------------------------
(* The types of the variables; wg never counts below zero, where Done      *)
(* would panic (provider.go:101).                                          *)
TypeOK ==
  /\ caller \in {"idle", "stop"}
  /\ call \in 0 .. MaxCalls
  /\ size \in [Calls -> 0 .. MaxHandlers]
  /\ dispatcher \in [Calls -> {"none", "send", "start", "select", "ended"}]
  /\ sent \in [Calls -> 0 .. MaxHandlers]
  /\ channel \in Seq(Handlers) /\ Len(channel) <= Parallelism
  /\ worker \in [Handlers -> {"none", "receive", "invoke", "done", "ended"}]
  /\ taken \in [Handlers -> Handlers \cup {None}]
  /\ wg \in 0 .. MaxHandlers
  /\ panicked \in BOOLEAN

HandlersOf(c) == {c} \X (1 .. size[c])

(* provider.go:117-132.  When a dispatcher comes to its select, each of the*)
(* handlers of its call has been taken by one worker, whichever it was,    *)
(* and that worker is through: no check of one call runs into the next.    *)
ChecksComplete ==
  \A c \in Calls : dispatcher[c] \in {"select", "ended"} =>
    \A h \in HandlersOf(c) :
      Cardinality({w \in Handlers : taken[w] = h /\ worker[w] = "ended"}) = 1

(* provider.go:90-136.  A call that has to stop the dispatcher before it   *)
(* returns, although that one answers only when all its checks are done,   *)
(* unless the timer of that one is faster.                                 *)
CallReturns == caller = "stop" ~> caller = "idle" \/ TooLate \/ panicked
=============================================================================
