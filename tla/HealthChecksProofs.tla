------------------------- MODULE HealthChecksProofs -------------------------
(***************************************************************************)
(* Proofs about the health checks, for every number of calls, of handlers  *)
(* and of places in the channel: the types, that the wait group counts the *)
(* workers that are at work, and that a call that ended has checked each   *)
(* of its handlers once.                                                   *)
(***************************************************************************)
EXTENDS HealthChecks, FiniteSetTheorems, TLAPS

(* The workers of call c that received a handler, and those at work.       *)
Takers(c) == {w \in Handlers : w[1] = c /\ taken[w] # None}
Active == {w \in Handlers : worker[w] \in {"receive", "invoke", "done"}}

(* How many workers call c has started, and how many handlers they have.   *)
Started(c) == IF dispatcher[c] = "start" THEN sent[c] - 1 ELSE sent[c]
Got(c) == Cardinality(Takers(c))

(* The calls come one after the other: a dispatcher starts when all those  *)
(* before it have gone.                                                    *)
OneDispatcher ==
  /\ \A c \in Calls :
       /\ c < call => dispatcher[c] = "ended"
       /\ c = call => dispatcher[c] # "none"
       /\ c > call => dispatcher[c] = "none" /\ sent[c] = 0
       /\ dispatcher[c] # "none" => sent[c] <= size[c]
       /\ dispatcher[c] = "start" => sent[c] > 0
       /\ dispatcher[c] \in {"select", "ended"} => sent[c] = size[c]
  /\ caller = "stop" => call > 0 /\ call < MaxCalls

(* The wait group counts the workers at work, and only a call that is      *)
(* still dispatching has any.                                              *)
WorkersCounted ==
  /\ wg = Cardinality(Active)
  /\ \A w \in Active : dispatcher[w[1]] \in {"send", "start"}
  /\ \A w \in Handlers : /\ worker[w] = "none" <=> w[2] > Started(w[1])
                         /\ worker[w] \in {"none", "receive"} <=> taken[w] = None

(* The channel has the handlers that were sent and not received, in order. *)
ChannelInOrder ==
  /\ call = 0 => channel = <<>>
  /\ call > 0 => /\ Len(channel) = sent[call] - Got(call)
                 /\ \A k \in 1 .. Len(channel) : channel[k] = <<call, Got(call) + k>>

(* What was received is the first handlers of a call, and each of them has *)
(* one worker of that call.                                                *)
TakenOnce ==
  /\ \A w \in Handlers : taken[w] # None =>
       taken[w][1] = w[1] /\ taken[w][2] \in 1 .. Got(w[1])
  /\ \A c \in Calls : \A i \in 1 .. Got(c) : \E w \in Handlers : taken[w] = <<c, i>>
  /\ \A v, w \in Handlers : taken[v] = taken[w] /\ taken[v] # None => v = w

AllTaken ==
  \A c \in Calls : dispatcher[c] \in {"select", "ended"} => Got(c) = sent[c]

Inv == TypeOK /\ OneDispatcher /\ WorkersCounted /\ ChannelInOrder /\ TakenOnce /\ AllTaken

USE HealthAssumption DEF vars, callVars, dispatcherVars, workerVars

-----------------------------------------------------------------------------
(* Counting                                                                *)

(* The first n handlers of a call are n.                                   *)
LEMMA FirstHandlers ==
  ASSUME NEW c \in Calls, NEW n \in Nat
  PROVE  IsFiniteSet({c} \X (1 .. n)) /\ Cardinality({c} \X (1 .. n)) = n
<1>1. IsFiniteSet({c}) /\ Cardinality({c}) = 1
  BY FS_Singleton
<1>2. IsFiniteSet(1 .. n) /\ Cardinality(1 .. n) = n
  BY FS_Interval
<1>3. /\ IsFiniteSet({c} \X (1 .. n))
      /\ Cardinality({c} \X (1 .. n)) = Cardinality({c}) * Cardinality(1 .. n)
  BY <1>1, <1>2, FS_Product
<1>4. 1 * n = n
  OBVIOUS
<1> QED
  BY <1>1, <1>2, <1>3, <1>4, Zenon

(* There are finitely many workers.                                        *)
LEMMA HandlersFinite == IsFiniteSet(Handlers)
<1>1. IsFiniteSet(Calls) /\ IsFiniteSet(1 .. MaxHandlers)
  BY FS_Interval DEF Calls
<1> QED
  BY <1>1, FS_Product DEF Handlers

(* So those that are counted are finitely many.                            *)
LEMMA Finite ==
  /\ IsFiniteSet(Active) /\ Cardinality(Active) \in Nat
  /\ \A c : IsFiniteSet(Takers(c)) /\ Got(c) \in Nat
<1>1. IsFiniteSet(Active)
  BY HandlersFinite, FS_Subset DEF Active
<1>2. ASSUME NEW c
      PROVE  IsFiniteSet(Takers(c))
  BY HandlersFinite, FS_Subset DEF Takers
<1> QED
  BY <1>1, <1>2, FS_CardinalityType DEF Got

(* A handler is a pair.                                                    *)
LEMMA HandlerParts ==
  /\ \A w \in Handlers : w[1] \in Calls /\ w[2] \in 1 .. MaxHandlers /\ w = <<w[1], w[2]>>
  /\ \A c \in Calls, i \in 1 .. MaxHandlers : <<c, i>> \in Handlers
  /\ \A c \in Calls : c \in Nat /\ c >= 1
  /\ None \notin Handlers
BY DEF Handlers, Calls, None

(* What is counted changes with the workers only.                          *)
LEMMA TakersSame ==
  ASSUME UNCHANGED taken
  PROVE  \A c : Got(c)' = Got(c)
BY DEF Got, Takers

(* The same for the workers at work.                                       *)
LEMMA ActiveSame ==
  ASSUME UNCHANGED worker
  PROVE  Active' = Active
BY DEF Active

-----------------------------------------------------------------------------
(* The invariant                                                           *)

(* Nothing is sent, started or received at first.                          *)
LEMMA InitInv == Init => Inv
<1> SUFFICES ASSUME Init
             PROVE  Inv
  OBVIOUS
<1>1. TypeOK
  <2>1. caller \in {"idle", "stop"} /\ call \in 0 .. MaxCalls /\ wg \in 0 .. MaxHandlers
    BY DEF Init
  <2>2. /\ size \in [Calls -> 0 .. MaxHandlers]
        /\ sent \in [Calls -> 0 .. MaxHandlers]
    BY DEF Init
  <2>3. channel \in Seq(Handlers) /\ Len(channel) <= Parallelism
    BY DEF Init
  <2>4. /\ dispatcher \in [Calls -> {"none", "send", "start", "select", "ended"}]
        /\ worker \in [Handlers -> {"none", "receive", "invoke", "done", "ended"}]
        /\ taken \in [Handlers -> Handlers \cup {None}]
        /\ panicked \in BOOLEAN
    BY DEF Init
  <2> QED
    BY <2>1, <2>2, <2>3, <2>4 DEF TypeOK
<1>2. Active = {} /\ \A c : Takers(c) = {}
  BY DEF Init, Active, Takers
<1>3. Cardinality(Active) = 0 /\ \A c : Got(c) = 0
  BY <1>2, FS_EmptySet DEF Got
<1>4. OneDispatcher
  BY DEF Init, OneDispatcher, Calls
<1>5. WorkersCounted
  BY <1>2, <1>3, HandlerParts DEF Init, WorkersCounted, Started
<1>6. ChannelInOrder /\ TakenOnce /\ AllTaken
  BY <1>3 DEF Init, ChannelInOrder, TakenOnce, AllTaken
<1> QED
  BY <1>1, <1>4, <1>5, <1>6 DEF Inv

(* A dispatcher that is at work is that of the last call.                  *)
LEMMA CurrentCall ==
  ASSUME Inv, NEW c \in Calls, dispatcher[c] \in {"send", "start", "select"}
  PROVE  c = call /\ call \in Calls /\ call > 0 /\ sent[c] <= size[c]
<1>1. /\ c < call => dispatcher[c] = "ended"
      /\ c > call => dispatcher[c] = "none"
      /\ dispatcher[c] # "none" => sent[c] <= size[c]
  BY DEF Inv, OneDispatcher
<1>2. c \in Nat /\ c > 0 /\ call \in Nat
  BY HandlerParts DEF Inv, TypeOK
<1> QED
  BY <1>1, <1>2

(* A worker that is at work is one of the last call, too.                  *)
LEMMA CurrentWorker ==
  ASSUME Inv, NEW w \in Active
  PROVE  w \in Handlers /\ w[1] = call /\ call \in Calls /\ dispatcher[call] \in {"send", "start"}
<1>1. w \in Handlers /\ dispatcher[w[1]] \in {"send", "start"}
  BY DEF Inv, WorkersCounted, Active
<1> QED
  BY <1>1, CurrentCall, HandlerParts

(* A call to come has received nothing.                                    *)
LEMMA FreshCall ==
  ASSUME Inv, NEW c \in Calls, c > call
  PROVE  Got(c) = 0 /\ sent[c] = 0 /\ dispatcher[c] = "none"
<1>1. sent[c] = 0 /\ dispatcher[c] = "none"
  BY DEF Inv, OneDispatcher
<1>2. ASSUME NEW w \in Handlers, w[1] = c
      PROVE  taken[w] = None
  <2>1. w[2] > Started(w[1])
    BY <1>1, <1>2, HandlerParts DEF Started
  <2> QED
    BY <2>1 DEF Inv, WorkersCounted
<1>3. Takers(c) = {}
  BY <1>2 DEF Takers
<1> QED
  BY <1>1, <1>3, FS_EmptySet DEF Got

(* Only a worker that receives changes what was taken.                     *)
LEMMA TakenOnceKept ==
  ASSUME Inv, UNCHANGED taken
  PROVE  TakenOnce'
<1>1. \A c : Got(c)' = Got(c)
  BY TakersSame
<1> QED
  BY <1>1 DEF Inv, TakenOnce

(* A new call either starts its dispatcher or comes to stop another one.   *)
LEMMA CallInv ==
  ASSUME Inv, NEW n \in 1 .. MaxHandlers, HealthCheckHandlers(n)
  PROVE  Inv'
<1>1. TypeOK'
  <2>1. size' \in [Calls -> 0 .. MaxHandlers]
    BY n \in 0 .. MaxHandlers DEF Inv, TypeOK, HealthCheckHandlers
  <2>3. dispatcher' \in [Calls -> {"none", "send", "start", "select", "ended"}]
    BY DEF Inv, TypeOK, HealthCheckHandlers
  <2>2. caller' \in {"idle", "stop"} /\ call' \in 0 .. MaxCalls
    BY DEF Inv, TypeOK, HealthCheckHandlers
  <2> QED
    BY <2>1, <2>2, <2>3 DEF Inv, TypeOK, HealthCheckHandlers
<1>2. Active' = Active /\ \A c : Got(c)' = Got(c)
  BY ActiveSame, TakersSame DEF HealthCheckHandlers
<1>3. OneDispatcher'
  BY HandlerParts DEF Inv, TypeOK, OneDispatcher, HealthCheckHandlers
<1>4. \A c \in Calls : /\ Started(c)' = Started(c)
                       /\ dispatcher[c] # "none" => dispatcher'[c] = dispatcher[c]
                       /\ dispatcher'[c] \in {"select", "ended"} => dispatcher[c] = dispatcher'[c]
  BY HandlerParts DEF Inv, TypeOK, OneDispatcher, HealthCheckHandlers, Started
<1>5. WorkersCounted'
  BY <1>2, <1>4, HandlerParts DEF Inv, WorkersCounted, HealthCheckHandlers, Active
<1>6. ChannelInOrder'
  <2>1. CASE call = 0 /\ call' = 1
    <3>1. 1 \in Calls /\ Got(1) = 0 /\ sent[1] = 0
      BY <2>1, FreshCall DEF HealthCheckHandlers, Calls, Inv, TypeOK
    <3>2. channel' = <<>> /\ sent'[1] = 0 /\ Got(1)' = 0
      BY <1>2, <2>1, <3>1 DEF HealthCheckHandlers, Inv, ChannelInOrder
    <3>3. Got(call)' = 0
      BY <2>1, <3>2 DEF Got, Takers
    <3> QED
      BY <2>1, <3>2, <3>3 DEF ChannelInOrder
  <2>2. CASE call > 0 /\ UNCHANGED call
    <3>1. Got(call)' = Got(call)
      BY <2>2 DEF Got, Takers, HealthCheckHandlers
    <3> QED
      BY <2>2, <3>1 DEF HealthCheckHandlers, Inv, ChannelInOrder
  <2> QED
    BY <2>1, <2>2 DEF HealthCheckHandlers
<1>7. TakenOnce'
  BY TakenOnceKept DEF HealthCheckHandlers
<1>8. AllTaken'
  BY <1>2, <1>4 DEF Inv, AllTaken, HealthCheckHandlers
<1> QED
  BY <1>1, <1>3, <1>5, <1>6, <1>7, <1>8 DEF Inv

(* The dispatcher that is stopped has nothing left, so the next call finds *)
(* an empty channel.                                                       *)
LEMMA StopInv ==
  ASSUME Inv, Stop
  PROVE  Inv'
<1>1. /\ call \in Calls /\ call + 1 \in Calls /\ call > 0 /\ dispatcher[call] = "select"
      /\ dispatcher' = [dispatcher EXCEPT ![call] = "ended", ![call + 1] = "send"]
  <2>1. PICK c \in Calls :
          /\ dispatcher[c] = "select"
          /\ dispatcher' = [dispatcher EXCEPT ![c] = "ended", ![call + 1] = "send"]
    BY DEF Stop
  <2>2. c = call /\ call > 0
    BY <2>1, CurrentCall
  <2>3. call + 1 \in Calls
    BY <2>2 DEF Inv, OneDispatcher, Stop, Calls
  <2> QED
    BY <2>1, <2>2, <2>3
<1>2. TypeOK'
  <2>1. dispatcher' \in [Calls -> {"none", "send", "start", "select", "ended"}]
    BY <1>1 DEF Inv, TypeOK
  <2>2. call' \in 0 .. MaxCalls
    BY <1>1 DEF Stop, Calls
  <2> QED
    BY <2>1, <2>2 DEF Inv, TypeOK, Stop
<1>3. Active' = Active /\ \A c : Got(c)' = Got(c)
  BY ActiveSame, TakersSame DEF Stop
<1>4. OneDispatcher'
  BY <1>1, HandlerParts DEF Inv, TypeOK, OneDispatcher, Stop
<1>5. WorkersCounted'
  <2>1. /\ dispatcher[call] = "select" /\ dispatcher[call + 1] = "none"
        /\ dispatcher'[call] = "ended" /\ dispatcher'[call + 1] = "send"
        /\ \A c \in Calls \ {call, call + 1} : dispatcher'[c] = dispatcher[c]
    BY <1>1, FreshCall, HandlerParts DEF Inv, TypeOK
  <2>4. \A c \in Calls : Started(c)' = Started(c)
    BY <2>1 DEF Stop, Started
  <2>2. \A w \in Active : w \in Handlers /\ dispatcher[w[1]] \in {"send", "start"}
    BY DEF Inv, WorkersCounted, Active
  <2>3. Active = {}
    BY <1>1, <2>2, CurrentWorker
  <2> QED
    BY <1>3, <2>3, <2>4, HandlerParts DEF Inv, WorkersCounted, Stop
<1>6. ChannelInOrder'
  <2>1. Got(call) = sent[call]
    BY <1>1 DEF Inv, AllTaken
  <2>2. channel = <<>>
    BY <1>1, <2>1 DEF Inv, TypeOK, ChannelInOrder
  <2>3. Got(call + 1) = 0 /\ sent[call + 1] = 0
    BY <1>1, FreshCall, HandlerParts
  <2>4. Got(call)' = Got(call + 1)
    BY DEF Stop, Got, Takers
  <2> QED
    BY <1>1, <2>2, <2>3, <2>4, HandlerParts DEF Stop, ChannelInOrder
<1>7. TakenOnce'
  BY TakenOnceKept DEF Stop
<1>8. AllTaken'
  <2>1. ASSUME NEW c \in Calls, dispatcher'[c] \in {"select", "ended"}
        PROVE  dispatcher[c] \in {"select", "ended"}
    BY <1>1, <2>1 DEF Inv, TypeOK
  <2> QED
    BY <1>3, <2>1 DEF Inv, AllTaken, Stop
<1> QED
  BY <1>2, <1>4, <1>5, <1>6, <1>7, <1>8 DEF Inv

(* The handler that is sent is the next one of its call.                   *)
LEMMA SendHandlerInv ==
  ASSUME Inv, NEW c \in Calls, SendHandler(c)
  PROVE  Inv'
<1>1. c = call /\ call > 0 /\ sent[c] \in Nat /\ sent[c] < size[c] /\ size[c] \in 0 .. MaxHandlers
  BY CurrentCall DEF SendHandler, Inv, TypeOK
<1>2. TypeOK'
  <2>1. <<c, sent[c] + 1>> \in Handlers
    BY <1>1, HandlerParts
  <2>2. channel' \in Seq(Handlers) /\ Len(channel') <= Parallelism
    BY <2>1 DEF Inv, TypeOK, SendHandler
  <2>3. sent' \in [Calls -> 0 .. MaxHandlers]
    BY <1>1 DEF Inv, TypeOK, SendHandler
  <2> QED
    BY <2>2, <2>3 DEF Inv, TypeOK, SendHandler
<1>3. Active' = Active /\ \A d : Got(d)' = Got(d)
  BY ActiveSame, TakersSame DEF SendHandler
<1>4. OneDispatcher'
  BY <1>1, HandlerParts DEF Inv, TypeOK, OneDispatcher, SendHandler
<1>5. WorkersCounted'
  <2>1. \A d \in Calls : Started(d)' = Started(d)
    BY <1>1 DEF Inv, TypeOK, SendHandler, Started
  <2>2. \A w \in Active' : w \in Handlers /\ dispatcher'[w[1]] \in {"send", "start"}
    BY <1>3, CurrentWorker, HandlerParts DEF Inv, TypeOK, WorkersCounted, SendHandler
  <2> QED
    BY <1>3, <2>1, <2>2, HandlerParts DEF Inv, WorkersCounted, SendHandler
<1>6. ChannelInOrder'
  <2>1. Got(call)' = Got(call) /\ Got(call) \in Nat
    BY Finite DEF SendHandler, Got, Takers
  <2>2. Len(channel) = sent[call] - Got(call)
    BY <1>1 DEF Inv, ChannelInOrder
  <2>3. Len(channel') = Len(channel) + 1
    BY DEF Inv, TypeOK, SendHandler
  <2>4. ASSUME NEW k \in 1 .. Len(channel')
        PROVE  channel'[k] = <<call, Got(call) + k>>
    <3>1. CASE k \in 1 .. Len(channel)
      BY <1>1, <3>1 DEF Inv, TypeOK, ChannelInOrder, SendHandler
    <3>2. CASE k = Len(channel) + 1
      <4>1. channel'[k] = <<c, sent[c] + 1>>
        BY <3>2 DEF Inv, TypeOK, SendHandler
      <4> QED
        BY <1>1, <2>1, <2>2, <3>2, <4>1
    <3> QED
      BY <2>3, <3>1, <3>2 DEF Inv, TypeOK
  <2>5. UNCHANGED call /\ sent'[call] = sent[call] + 1
    BY <1>1 DEF Inv, TypeOK, SendHandler
  <2> QED
    BY <1>1, <2>1, <2>2, <2>3, <2>4, <2>5 DEF ChannelInOrder
<1>7. TakenOnce'
  BY TakenOnceKept DEF SendHandler
<1>8. AllTaken'
  BY <1>3 DEF Inv, TypeOK, AllTaken, SendHandler
<1> QED
  BY <1>2, <1>4, <1>5, <1>6, <1>7, <1>8 DEF Inv

(* The worker that is started was not there, and is counted.               *)
LEMMA StartWorkerInv ==
  ASSUME Inv, NEW c \in Calls, StartWorker(c)
  PROVE  Inv'
<1> DEFINE h == <<c, sent[c]>>
<1>1. /\ c = call /\ call > 0 /\ dispatcher[c] = "start"
      /\ sent[c] \in 1 .. MaxHandlers /\ sent[c] <= size[c]
  BY CurrentCall DEF StartWorker, Inv, TypeOK, OneDispatcher
<1>2. h \in Handlers /\ h[1] = c /\ h[2] = sent[c]
  BY <1>1, HandlerParts
<1>3. worker[h] = "none"
  <2>1. h[2] > Started(h[1])
    BY <1>1, <1>2 DEF Started
  <2> QED
    BY <1>2, <2>1 DEF Inv, WorkersCounted
<1>4. /\ worker' = [worker EXCEPT ![h] = "receive"]
      /\ dispatcher' = [dispatcher EXCEPT ![c] = "send"]
      /\ wg' = wg + 1 /\ UNCHANGED <<callVars, sent, channel, taken, panicked>>
  BY DEF StartWorker
<1> HIDE DEF h
<1>5. Active' = Active \cup {h} /\ h \notin Active
  BY <1>2, <1>3, <1>4 DEF Inv, TypeOK, Active
<1>6. wg' = Cardinality(Active')
  BY <1>4, <1>5, Finite, FS_AddElement DEF Inv, WorkersCounted
<1>7. \A d : Got(d)' = Got(d)
  BY <1>4, TakersSame
<1>8. TypeOK'
  <2>1. wg' \in 0 .. MaxHandlers
    <3>1. Active' \subseteq {call} \X (1 .. MaxHandlers)
      BY <1>1, <1>2, <1>5, CurrentWorker, HandlerParts
    <3>2. /\ IsFiniteSet({call} \X (1 .. MaxHandlers))
          /\ Cardinality({call} \X (1 .. MaxHandlers)) = MaxHandlers
      BY <1>1, FirstHandlers
    <3>3. Cardinality(Active') \in Nat /\ Cardinality(Active') <= MaxHandlers
      BY <3>1, <3>2, FS_Subset, FS_CardinalityType
    <3> QED
      BY <1>6, <3>3
  <2> QED
    BY <1>4, <2>1 DEF Inv, TypeOK
<1>9. OneDispatcher'
  BY <1>1, <1>4 DEF Inv, TypeOK, OneDispatcher
<1>10. WorkersCounted'
  <2>1. \A w \in Active' : dispatcher'[w[1]] \in {"send", "start"}
    BY <1>1, <1>2, <1>4, <1>5, CurrentWorker DEF Inv, TypeOK
  <2>2. ASSUME NEW w \in Handlers
        PROVE  worker'[w] = "none" <=> w[2] > Started(w[1])'
    <3>1. worker[w] = "none" <=> w[2] > Started(w[1])
      BY DEF Inv, WorkersCounted
    <3>2. CASE w[1] # c
      <4>1. w # h /\ Started(w[1])' = Started(w[1])
        BY <1>2, <1>4, <3>2, HandlerParts DEF Inv, TypeOK, Started
      <4> QED
        BY <1>4, <3>1, <4>1 DEF Inv, TypeOK
    <3>3. CASE w[1] = c
      <4>1. Started(w[1]) = sent[c] - 1 /\ Started(w[1])' = sent[c]
        BY <1>1, <1>4, <3>3 DEF Inv, TypeOK, Started
      <4>2. w = h <=> w[2] = sent[c]
        BY <1>2, <3>3, HandlerParts
      <4>3. worker'[w] = IF w = h THEN "receive" ELSE worker[w]
        BY <1>4 DEF Inv, TypeOK
      <4> QED
        BY <1>1, <3>1, <4>1, <4>2, <4>3, HandlerParts
    <3> QED
      BY <3>2, <3>3
  <2>3. \A w \in Handlers : worker'[w] \in {"none", "receive"} <=> taken'[w] = None
    BY <1>3, <1>4 DEF Inv, TypeOK, WorkersCounted
  <2> QED
    BY <1>6, <2>1, <2>2, <2>3 DEF WorkersCounted
<1>11. ChannelInOrder'
  <2>1. Got(call)' = Got(call)
    BY <1>4 DEF callVars, Got, Takers
  <2> QED
    BY <1>4, <2>1 DEF Inv, ChannelInOrder
<1>12. TakenOnce'
  BY <1>4, TakenOnceKept
<1>13. AllTaken'
  BY <1>4, <1>7 DEF Inv, TypeOK, AllTaken
<1> QED
  BY <1>8, <1>9, <1>10, <1>11, <1>12, <1>13 DEF Inv

(* When no worker is left at work, each of those started has taken one.    *)
LEMMA WaitForWorkersInv ==
  ASSUME Inv, NEW c \in Calls, WaitForWorkers(c)
  PROVE  Inv'
<1>1. c = call /\ call > 0 /\ sent[c] \in Nat /\ sent[c] = size[c] /\ dispatcher[c] = "send"
  BY CurrentCall DEF WaitForWorkers, Inv, TypeOK
<1>2. TypeOK'
  BY DEF Inv, TypeOK, WaitForWorkers
<1>3. Active' = Active /\ \A d : Got(d)' = Got(d)
  BY ActiveSame, TakersSame DEF WaitForWorkers
<1>4. OneDispatcher'
  BY <1>1 DEF Inv, TypeOK, OneDispatcher, WaitForWorkers
<1>5. Active = {}
  BY Finite, FS_EmptySet DEF Inv, WorkersCounted, WaitForWorkers
<1>6. WorkersCounted'
  <2>1. \A d \in Calls : Started(d)' = Started(d)
    BY DEF Inv, TypeOK, WaitForWorkers, Started
  <2> QED
    BY <1>3, <1>5, <2>1, HandlerParts DEF Inv, WorkersCounted, WaitForWorkers
<1>7. Got(c) = sent[c]
  <2>1. ASSUME NEW w \in Handlers, w[1] = c
        PROVE  taken[w] # None <=> w[2] <= sent[c]
    <3>1. worker[w] \in {"none", "ended"}
      BY <1>5 DEF Active, Inv, TypeOK
    <3>2. worker[w] = "none" <=> w[2] > sent[c]
      BY <1>1, <2>1 DEF Inv, WorkersCounted, Started
    <3>3. worker[w] \in {"none", "receive"} <=> taken[w] = None
      BY DEF Inv, WorkersCounted
    <3> QED
      BY <1>1, <3>1, <3>2, <3>3, HandlerParts
  <2>2. sent[c] <= MaxHandlers
    BY DEF Inv, TypeOK
  <2>3. Takers(c) = {c} \X (1 .. sent[c])
    <3>1. ASSUME NEW w \in Takers(c)
          PROVE  w \in {c} \X (1 .. sent[c])
      BY <1>1, <2>1, <3>1, HandlerParts DEF Takers
    <3>2. ASSUME NEW w \in {c} \X (1 .. sent[c])
          PROVE  w \in Takers(c)
      <4>1. w \in Handlers /\ w[1] = c /\ w[2] <= sent[c]
        BY <1>1, <2>2 DEF Handlers
      <4> QED
        BY <2>1, <4>1 DEF Takers
    <3> QED
      BY <3>1, <3>2
  <2> QED
    BY <1>1, <2>3, FirstHandlers DEF Got
<1>8. ChannelInOrder'
  <2>1. Got(call)' = Got(call)
    BY DEF WaitForWorkers, Got, Takers
  <2> QED
    BY <2>1 DEF Inv, ChannelInOrder, WaitForWorkers
<1>9. TakenOnce'
  BY TakenOnceKept DEF WaitForWorkers
<1>10. AllTaken'
  BY <1>3, <1>7 DEF Inv, TypeOK, AllTaken, WaitForWorkers
<1> QED
  BY <1>2, <1>4, <1>6, <1>8, <1>9, <1>10 DEF Inv

(* A dispatcher that ends by its timer has nothing left.                   *)
LEMMA SelectEndsInv ==
  ASSUME Inv, NEW c \in Calls, SelectEnds(c)
  PROVE  Inv'
<1>1. TypeOK'
  BY DEF Inv, TypeOK, SelectEnds
<1>2. Active' = Active /\ \A d : Got(d)' = Got(d)
  BY ActiveSame, TakersSame DEF SelectEnds
<1>3. c = call /\ dispatcher[c] = "select"
  BY CurrentCall DEF SelectEnds
<1>4. OneDispatcher'
  BY <1>3 DEF Inv, TypeOK, OneDispatcher, SelectEnds
<1>5. WorkersCounted'
  <2>1. \A d \in Calls : Started(d)' = Started(d)
    BY DEF Inv, TypeOK, SelectEnds, Started
  <2>2. Active = {}
    BY <1>3, CurrentWorker
  <2> QED
    BY <1>2, <2>1, <2>2, HandlerParts DEF Inv, WorkersCounted, SelectEnds
<1>6. ChannelInOrder'
  <2>1. Got(call)' = Got(call)
    BY DEF SelectEnds, Got, Takers
  <2> QED
    BY <2>1 DEF Inv, ChannelInOrder, SelectEnds
<1>7. TakenOnce'
  BY TakenOnceKept DEF SelectEnds
<1>8. AllTaken'
  BY <1>2, <1>3 DEF Inv, TypeOK, AllTaken, SelectEnds
<1> QED
  BY <1>1, <1>4, <1>5, <1>6, <1>7, <1>8 DEF Inv

(* The worker that receives takes the first handler nobody has taken.      *)
LEMMA ReceiveInv ==
  ASSUME Inv, NEW w \in Handlers, Receive(w)
  PROVE  Inv'
<1>1. w \in Active /\ w[1] = call /\ call \in Calls /\ call > 0
  BY CurrentWorker, HandlerParts DEF Receive, Active
<1>2. /\ channel # <<>> /\ channel \in Seq(Handlers) /\ worker[w] = "receive"
      /\ worker' = [worker EXCEPT ![w] = "invoke"]
      /\ taken' = [taken EXCEPT ![w] = Head(channel)]
      /\ channel' = Tail(channel)
      /\ UNCHANGED <<callVars, dispatcherVars, wg, panicked>>
  BY DEF Receive, Inv, TypeOK
<1>3. /\ Len(channel) \in Nat /\ Len(channel) > 0
      /\ Head(channel) = channel[1] /\ Head(channel) \in Handlers
      /\ Tail(channel) \in Seq(Handlers) /\ Len(Tail(channel)) = Len(channel) - 1
      /\ \A k \in 1 .. Len(Tail(channel)) : Tail(channel)[k] = channel[k + 1]
  BY <1>2
<1>4. /\ Got(call) \in Nat /\ Head(channel) = <<call, Got(call) + 1>>
      /\ Len(channel) = sent[call] - Got(call)
  BY <1>1, <1>3, Finite DEF Inv, ChannelInOrder
<1>5. taken[w] = None /\ taken'[w] = <<call, Got(call) + 1>> /\ taken'[w] # None
  BY <1>2, <1>3, <1>4, HandlerParts DEF Inv, TypeOK, WorkersCounted
<1>6. \A v \in Handlers \ {w} : taken'[v] = taken[v] /\ worker'[v] = worker[v]
  BY <1>2 DEF Inv, TypeOK
<1>7. ASSUME NEW d, d = call
      PROVE  Got(d)' = Got(d) + 1
  <2>1. Takers(d)' = Takers(d) \cup {w} /\ w \notin Takers(d)
    BY <1>1, <1>5, <1>6, <1>7 DEF Takers
  <2> QED
    BY <2>1, Finite, FS_AddElement DEF Got
<1>8. ASSUME NEW d, d # call
      PROVE  Got(d)' = Got(d)
  <2>1. Takers(d)' = Takers(d)
    BY <1>1, <1>6, <1>8 DEF Takers
  <2> QED
    BY <2>1 DEF Got
<1>9. Active' = Active
  BY <1>1, <1>2, <1>6 DEF Inv, TypeOK, Active
<1>10. TypeOK'
  <2>1. channel' \in Seq(Handlers) /\ Len(channel') <= Parallelism
    BY <1>2, <1>3 DEF Inv, TypeOK
  <2>2. /\ worker' \in [Handlers -> {"none", "receive", "invoke", "done", "ended"}]
        /\ taken' \in [Handlers -> Handlers \cup {None}]
    BY <1>2, <1>3 DEF Inv, TypeOK
  <2> QED
    BY <1>2, <2>1, <2>2 DEF Inv, TypeOK
<1>11. OneDispatcher'
  BY <1>2 DEF Inv, OneDispatcher
<1>12. WorkersCounted'
  <2>1. \A c : Started(c)' = Started(c)
    BY <1>2 DEF Started
  <2>2. worker'[w] = "invoke"
    BY <1>2 DEF Inv, TypeOK
  <2>3. ASSUME NEW v \in Handlers
        PROVE  /\ worker'[v] = "none" <=> v[2] > Started(v[1])'
               /\ worker'[v] \in {"none", "receive"} <=> taken'[v] = None
    <3>1. CASE v = w
      BY <1>2, <1>5, <2>1, <2>2, <3>1 DEF Inv, WorkersCounted
    <3>2. CASE v # w
      BY <1>6, <2>1, <3>2 DEF Inv, WorkersCounted
    <3> QED
      BY <3>1, <3>2
  <2> QED
    BY <1>2, <1>9, <2>3 DEF Inv, WorkersCounted
<1>13. ChannelInOrder'
  <2>1. Got(call)' = Got(call) + 1 /\ UNCHANGED <<call, sent>>
    <3>1. PICK d : d = call
      OBVIOUS
    <3>2. Got(call)' = Got(d)'
      BY <1>2, <3>1 DEF Got, Takers
    <3> QED
      BY <1>2, <1>7, <3>1, <3>2
  <2>2. Len(channel') = sent[call] - (Got(call) + 1)
    BY <1>1, <1>2, <1>3, <1>4 DEF Inv, TypeOK
  <2>3. ASSUME NEW k \in 1 .. Len(channel')
        PROVE  channel'[k] = <<call, (Got(call) + 1) + k>>
    <3>1. channel'[k] = channel[k + 1] /\ k + 1 \in 1 .. Len(channel)
      BY <1>2, <1>3
    <3>2. channel[k + 1] = <<call, Got(call) + (k + 1)>>
      BY <1>1, <3>1 DEF Inv, ChannelInOrder
    <3>3. Got(call) + (k + 1) = (Got(call) + 1) + k
      BY <1>3, <1>4
    <3> QED
      BY <3>1, <3>2, <3>3
  <2> QED
    BY <1>1, <2>1, <2>2, <2>3 DEF ChannelInOrder
<1>14. TakenOnce'
  <2>1. ASSUME NEW v \in Handlers, taken'[v] # None
        PROVE  taken'[v][1] = v[1] /\ taken'[v][2] \in 1 .. Got(v[1])'
    <3>1. CASE v = w
      <4>1. Got(w[1])' = Got(w[1]) + 1 /\ Got(w[1]) = Got(call)
        BY <1>1, <1>7
      <4> QED
        BY <1>1, <1>4, <1>5, <3>1, <4>1
    <3>2. CASE v # w
      <4>1. taken'[v] = taken[v] /\ taken[v][1] = v[1] /\ taken[v][2] \in 1 .. Got(v[1])
        BY <1>6, <2>1, <3>2 DEF Inv, TakenOnce
      <4>2. CASE v[1] = call
        <5>1. Got(v[1])' = Got(v[1]) + 1 /\ Got(v[1]) \in Nat
          BY <1>7, <4>2, Finite
        <5> QED
          BY <4>1, <5>1
      <4>3. CASE v[1] # call
        BY <1>8, <4>1, <4>3
      <4> QED
        BY <4>2, <4>3
    <3> QED
      BY <3>1, <3>2
  <2>2. ASSUME NEW c \in Calls, NEW i \in 1 .. Got(c)'
        PROVE  \E v \in Handlers : taken'[v] = <<c, i>>
    <3>1. CASE c = call /\ i = Got(call) + 1
      BY <1>5, <3>1
    <3>2. CASE ~(c = call /\ i = Got(call) + 1)
      <4>1. i \in 1 .. Got(c)
        <5>1. CASE c = call
          <6>1. Got(c)' = Got(c) + 1 /\ Got(c) = Got(call)
            BY <1>7, <5>1
          <6> QED
            BY <1>4, <2>2, <3>2, <5>1, <6>1
        <5>2. CASE c # call
          BY <1>8, <2>2, <5>2
        <5> QED
          BY <5>1, <5>2
      <4>2. PICK v \in Handlers : taken[v] = <<c, i>>
        BY <4>1 DEF Inv, TakenOnce
      <4>3. v # w
        BY <1>5, <4>1, <4>2 DEF None
      <4> QED
        BY <1>6, <4>2, <4>3
    <3> QED
      BY <3>1, <3>2
  <2>3. ASSUME NEW u \in Handlers, NEW v \in Handlers, taken'[u] = taken'[v], taken'[u] # None
        PROVE  u = v
    <3>1. ASSUME NEW x \in Handlers, x # w, taken'[x] = taken'[w]
          PROVE  FALSE
      <4>1. taken[x] = <<call, Got(call) + 1>> /\ taken[x] # None
        BY <1>5, <1>6, <3>1
      <4>2. taken[x][1] = x[1] /\ taken[x][2] \in 1 .. Got(x[1])
        BY <4>1 DEF Inv, TakenOnce
      <4> QED
        BY <1>4, <4>1, <4>2
    <3>2. CASE u = w \/ v = w
      BY <2>3, <3>1, <3>2
    <3>3. CASE u # w /\ v # w
      BY <1>6, <2>3, <3>3 DEF Inv, TakenOnce
    <3> QED
      BY <3>2, <3>3
  <2> QED
    BY <2>1, <2>2, <2>3 DEF TakenOnce
<1>15. AllTaken'
  <2>1. dispatcher[call] \in {"send", "start"}
    BY <1>1, CurrentWorker
  <2> QED
    BY <1>2, <1>8, <2>1 DEF Inv, AllTaken
<1> QED
  BY <1>10, <1>11, <1>12, <1>13, <1>14, <1>15 DEF Inv

(* What the function answers changes nothing that is counted.              *)
LEMMA InvokeInv ==
  ASSUME Inv, NEW w \in Handlers, Invoke(w)
  PROVE  Inv'
<1>1. /\ worker[w] = "invoke" /\ worker' = [worker EXCEPT ![w] = "done"]
      /\ UNCHANGED <<callVars, dispatcherVars, channel, taken, wg, panicked>>
  BY DEF Invoke
<1>2. TypeOK'
  BY <1>1 DEF Inv, TypeOK
<1>3. Active' = Active
  BY <1>1 DEF Inv, TypeOK, Active
<1>4. \A c : Got(c)' = Got(c) /\ Started(c)' = Started(c)
  BY <1>1 DEF Got, Takers, Started
<1>5. OneDispatcher'
  BY <1>1 DEF Inv, OneDispatcher
<1>6. WorkersCounted'
  BY <1>1, <1>3, <1>4 DEF Inv, TypeOK, WorkersCounted
<1>7. ChannelInOrder'
  <2>1. Got(call)' = Got(call)
    BY <1>1 DEF Got, Takers
  <2> QED
    BY <1>1, <2>1 DEF Inv, ChannelInOrder
<1>8. TakenOnce'
  BY <1>1, TakenOnceKept
<1>9. AllTaken'
  BY <1>1, <1>4 DEF Inv, AllTaken
<1> QED
  BY <1>2, <1>5, <1>6, <1>7, <1>8, <1>9 DEF Inv

(* The worker that is done is counted no longer.                           *)
LEMMA DoneInv ==
  ASSUME Inv, NEW w \in Handlers, Done(w)
  PROVE  Inv'
<1>1. /\ worker[w] = "done" /\ worker' = [worker EXCEPT ![w] = "ended"] /\ wg' = wg - 1
      /\ UNCHANGED <<callVars, dispatcherVars, channel, taken, panicked>>
  BY DEF Done
<1>2. Active' = Active \ {w} /\ w \in Active
  BY <1>1 DEF Inv, TypeOK, Active
<1>3. wg' = Cardinality(Active')
  BY <1>1, <1>2, Finite, FS_RemoveElement DEF Inv, WorkersCounted
<1>4. wg' \in Nat
  BY <1>2, <1>3, Finite, FS_RemoveElement, FS_CardinalityType
<1>5. TypeOK'
  BY <1>1, <1>4 DEF Inv, TypeOK
<1>6. \A c : Got(c)' = Got(c) /\ Started(c)' = Started(c)
  BY <1>1 DEF Got, Takers, Started
<1>7. OneDispatcher'
  BY <1>1 DEF Inv, OneDispatcher
<1>8. WorkersCounted'
  BY <1>1, <1>2, <1>3, <1>6 DEF Inv, TypeOK, WorkersCounted
<1>9. ChannelInOrder'
  <2>1. Got(call)' = Got(call)
    BY <1>1 DEF Got, Takers
  <2> QED
    BY <1>1, <2>1 DEF Inv, ChannelInOrder
<1>10. TakenOnce'
  BY <1>1, TakenOnceKept
<1>11. AllTaken'
  BY <1>1, <1>6 DEF Inv, AllTaken
<1> QED
  BY <1>5, <1>7, <1>8, <1>9, <1>10, <1>11 DEF Inv

(* A panic, and a process that stands still, leave all of it alone.        *)
LEMMA StandStill ==
  ASSUME Inv, panicked' \in BOOLEAN,
         UNCHANGED <<callVars, dispatcherVars, channel, workerVars, wg>>
  PROVE  Inv'
<1>1. \A c : Got(c)' = Got(c) /\ Started(c)' = Started(c)
  BY DEF Got, Takers, Started
<1>2. Active' = Active
  BY DEF Active
<1>3. Got(call)' = Got(call)
  BY DEF Got, Takers
<1>4. TypeOK' /\ OneDispatcher'
  BY DEF Inv, TypeOK, OneDispatcher
<1>5. WorkersCounted' /\ ChannelInOrder'
  BY <1>1, <1>2, <1>3 DEF Inv, WorkersCounted, ChannelInOrder
<1>6. TakenOnce' /\ AllTaken'
  BY <1>1 DEF Inv, TakenOnce, AllTaken
<1> QED
  BY <1>4, <1>5, <1>6 DEF Inv

(* Every step of a router's loop, a dispatcher or a worker keeps Inv.      *)
LEMMA NextInv == Inv /\ [Next]_vars => Inv'
<1> SUFFICES ASSUME Inv, [Next]_vars
             PROVE  Inv'
  OBVIOUS
<1>1. ASSUME NEW n \in 1 .. MaxHandlers, HealthCheckHandlers(n)
      PROVE  Inv'
  BY <1>1, CallInv
<1>2. CASE Stop
  BY <1>2, StopInv
<1>3. ASSUME NEW c \in Calls, DispatcherStep(c)
      PROVE  Inv'
  BY <1>3, SendHandlerInv, StartWorkerInv, WaitForWorkersInv, SelectEndsInv DEF DispatcherStep
<1>4. ASSUME NEW w \in Handlers, WorkerStep(w)
      PROVE  Inv'
  <2>1. CASE InvokeFails(w)
    <3>1. /\ panicked' \in BOOLEAN
          /\ UNCHANGED <<callVars, dispatcherVars, channel, workerVars, wg>>
      BY <2>1 DEF InvokeFails
    <3> QED
      BY <3>1, StandStill
  <2> QED
    BY <1>4, <2>1, ReceiveInv, InvokeInv, DoneInv DEF WorkerStep
<1>5. CASE UNCHANGED vars
  <2>1. panicked' \in BOOLEAN /\ UNCHANGED <<callVars, dispatcherVars, channel, workerVars, wg>>
    BY <1>5 DEF Inv, TypeOK
  <2> QED
    BY <2>1, StandStill
<1> QED
  BY <1>1, <1>2, <1>3, <1>4, <1>5 DEF Next, Halted

-----------------------------------------------------------------------------
(* The theorems                                                            *)

(* The checks of a call that came to its select: all of its handlers are   *)
(* taken, none of its workers is at work, so the one that took a handler   *)
(* has ended.                                                              *)
LEMMA InvComplete == Inv => ChecksComplete
<1> SUFFICES ASSUME Inv, NEW c \in Calls, dispatcher[c] \in {"select", "ended"},
                    NEW h \in HandlersOf(c)
             PROVE  Cardinality({w \in Handlers : taken[w] = h /\ worker[w] = "ended"}) = 1
  BY DEF ChecksComplete
<1>1. Got(c) = size[c]
  BY DEF Inv, AllTaken, OneDispatcher
<1>2. PICK i \in 1 .. Got(c) : h = <<c, i>>
  BY <1>1 DEF HandlersOf
<1>3. PICK w \in Handlers : taken[w] = h
  BY <1>2 DEF Inv, TakenOnce
<1>4. h # None
  BY <1>2 DEF None
<1>5. w[1] = c
  BY <1>2, <1>3, <1>4 DEF Inv, TakenOnce
<1>6. worker[w] = "ended"
  <2>1. w \notin Active
    BY <1>5 DEF Inv, WorkersCounted
  <2>2. worker[w] # "none"
    BY <1>3, <1>4 DEF Inv, WorkersCounted
  <2> QED
    BY <2>1, <2>2 DEF Active, Inv, TypeOK
<1>7. {v \in Handlers : taken[v] = h /\ worker[v] = "ended"} = {w}
  BY <1>3, <1>4, <1>6 DEF Inv, TakenOnce
<1> QED
  BY <1>7, FS_Singleton

(* The types of the variables, and that the wait group is never negative,  *)
(* whatever the order in which workers start, receive and end.             *)
THEOREM TypeCorrect == Spec => []TypeOK
<1>1. Inv => TypeOK
  BY DEF Inv
<1> QED
  BY InitInv, NextInv, <1>1, PTL DEF Spec

(* A dispatcher that left its wait has had each handler of its call        *)
(* checked, by one worker that is through (provider.go:117-132).           *)
THEOREM EachHandlerOnce == Spec => []ChecksComplete
<1> QED
  BY InitInv, NextInv, InvComplete, PTL DEF Spec

-----------------------------------------------------------------------------
(* Nobody waits for ever                                                   *)

(* A worker that was started and has no handler yet finds one.             *)
NoWorkerWaits == \A w \in Handlers : worker[w] = "receive" => channel # <<>>

(* And a dispatcher that cannot go on has workers that can.                *)
DispatcherIsFreed ==
  \A c \in Calls : dispatcher[c] = "send" =>
    \/ sent[c] < size[c] /\ Len(channel) < Parallelism
    \/ sent[c] = size[c] /\ wg = 0
    \/ Active # {}

(* Of the workers of a call that were started those that took a handler    *)
(* are as many as there are handlers taken, and one that did not is left.  *)
LEMMA OneIsLeft ==
  ASSUME Inv, NEW c \in Calls
  PROVE  /\ Takers(c) \subseteq {c} \X (1 .. Started(c))
         /\ Got(c) < Started(c) => \E w \in Handlers : w[1] = c /\ worker[w] = "receive"
         /\ (\E w \in Handlers : w[1] = c /\ worker[w] = "receive") => Got(c) < Started(c)
<1>1. Started(c) \in 0 .. MaxHandlers
  BY DEF Inv, TypeOK, OneDispatcher, Started
<1> DEFINE S == {c} \X (1 .. Started(c))
<1>2. IsFiniteSet(S) /\ Cardinality(S) = Started(c)
  BY <1>1, FirstHandlers
<1>3. S = {w \in Handlers : w[1] = c /\ worker[w] # "none"}
  <2>1. \A w \in Handlers : w[1] = c => (worker[w] # "none" <=> w[2] <= Started(c))
    BY <1>1, HandlerParts DEF Inv, WorkersCounted
  <2>2. S \subseteq Handlers
    BY <1>1 DEF Handlers
  <2>3. \A w \in S : w[1] = c /\ w[2] <= Started(c)
    BY <1>1
  <2>4. \A w \in Handlers : w[1] = c /\ w[2] <= Started(c) => w \in S
    BY <1>1, HandlerParts
  <2> HIDE DEF S
  <2> QED
    BY <2>1, <2>2, <2>3, <2>4
<1> HIDE DEF S
<1>4. Takers(c) \subseteq S
  BY <1>3 DEF Takers, Inv, WorkersCounted
<1>5. Takers(c) # S <=> \E w \in Handlers : w[1] = c /\ worker[w] = "receive"
  BY <1>3, <1>4 DEF Takers, Inv, WorkersCounted
<1>6. Takers(c) # S => Got(c) < Started(c)
  <2> SUFFICES ASSUME Takers(c) # S PROVE Got(c) < Started(c)
    OBVIOUS
  <2>1. Cardinality(Takers(c)) < Cardinality(S)
    <3>1. Cardinality(Takers(c)) <= Cardinality(S)
      BY <1>2, <1>4, FS_Subset
    <3>2. Cardinality(Takers(c)) # Cardinality(S)
      BY <1>2, <1>4, FS_Subset
    <3>3. Cardinality(Takers(c)) \in Nat /\ Cardinality(S) \in Nat
      BY <1>1, <1>2, Finite DEF Got
    <3> QED
      BY <3>1, <3>2, <3>3
  <2> QED
    BY <1>2, <2>1 DEF Got
<1>7. Takers(c) = S => Got(c) = Started(c)
  BY <1>2 DEF Got
<1>8. Got(c) \in Nat /\ Started(c) \in Nat
  BY <1>1, Finite
<1> QED
  BY <1>4, <1>5, <1>6, <1>7, <1>8 DEF S

(* A worker that goes to the channel finds a handler there.                *)
LEMMA WorkersDoNotWait ==
  ASSUME Inv
  PROVE  NoWorkerWaits
<1> SUFFICES ASSUME NEW w \in Handlers, worker[w] = "receive"
             PROVE  channel # <<>>
  BY DEF NoWorkerWaits
<1>1. w \in Active
  BY DEF Active
<1>2. w[1] = call /\ call \in Calls /\ dispatcher[call] \in {"send", "start"} /\ call > 0
  BY <1>1, CurrentWorker, HandlerParts
<1>3. Got(call) < Started(call)
  BY <1>2, OneIsLeft
<1>4. Started(call) <= sent[call] /\ sent[call] \in Nat /\ Started(call) \in Int
  BY <1>2 DEF Started, Inv, TypeOK
<1>5. Len(channel) = sent[call] - Got(call) /\ Got(call) \in Nat
  BY <1>2, Finite DEF Inv, ChannelInOrder
<1>6. Len(channel) > 0
  BY <1>3, <1>4, <1>5
<1> QED
  BY <1>6

(* With all workers through, what was sent was taken.                      *)
LEMMA DispatchersAreFreed ==
  ASSUME Inv, Parallelism > 0
  PROVE  DispatcherIsFreed
<1> SUFFICES ASSUME NEW c \in Calls, dispatcher[c] = "send", Active = {}
             PROVE  \/ sent[c] < size[c] /\ Len(channel) < Parallelism
                    \/ sent[c] = size[c] /\ wg = 0
  BY DEF DispatcherIsFreed
<1>1. c = call /\ call > 0 /\ sent[c] <= size[c]
  BY CurrentCall
<1>2. wg = 0
  BY FS_EmptySet DEF Inv, WorkersCounted
<1>3. Started(c) = sent[c] /\ sent[c] \in Nat /\ size[c] \in Nat
  BY DEF Started, Inv, TypeOK
<1>4. ~ (Got(c) < Started(c))
  BY OneIsLeft DEF Active
<1>5. Len(channel) = sent[c] - Got(c) /\ Got(c) \in Nat /\ Len(channel) \in Nat
  BY <1>1, Finite DEF Inv, TypeOK, ChannelInOrder
<1>6. Len(channel) = 0
  BY <1>3, <1>4, <1>5
<1> QED
  BY <1>1, <1>2, <1>3, <1>6

(* provider.go:90-156.  The dispatcher and its workers do not wait for each*)
(* other, if there is a place in the channel at all: a worker never waits  *)
(* for a handler, as that was sent before it was started, and a dispatcher *)
(* with a full channel, or at the wait group, has workers that go on.      *)
THEOREM NobodyWaitsForEver ==
  ASSUME Parallelism > 0
  PROVE  Spec => [](NoWorkerWaits /\ DispatcherIsFreed)
<1>1. Inv => NoWorkerWaits /\ DispatcherIsFreed
  BY WorkersDoNotWait, DispatchersAreFreed
<1> QED
  BY <1>1, InitInv, NextInv, PTL DEF Spec
=============================================================================
