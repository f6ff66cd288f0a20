---------------------------- MODULE RequestProofs ---------------------------
(***************************************************************************)
(* Proofs about what becomes of a request: by which route's backend it is  *)
(* taken, for any set of routes and lists of any length, what the HTTP     *)
(* backend makes of it, and what a gRPC backend does, whose call is a      *)
(* module of its own (GrpcHandler).                                        *)
(*                                                                         *)
(* Of a mux the invariant says how it is linked (Lines): a line holds the  *)
(* line of the parent, and nothing else but the route.  That one comes by  *)
(* all of it on the way up (LineIsAbove) is what makes the rules a route   *)
(* is matched by those that the list says it has, and no fewer.            *)
(*                                                                         *)
(* Of a gRPC call three things are needed.  The four events that Handle    *)
(* waits for are two of each flow, so that it knows of every result when   *)
(* it returns without an error (Collected).  The status is the last thing  *)
(* but two that is stored, and is stored once, so that a flow that         *)
(* received and did not fail has stored the rest of it too (Stored).  And  *)
(* the flow that sends read a status that cannot change any more, so that  *)
(* it sends one message if it ends without an error (Answered).  What a    *)
(* call has still to do is counted in steps (StepsLeft).                   *)
(***************************************************************************)
EXTENDS Router, GrpcHandler, WellFoundedInduction, TLAPS

Made == [name : {route.name : route \in Routes}, parent : {route.parent : route \in Routes},
         rules : SUBSET Rule, backend : {"none", "http", "grpc"}, line : SUBSET Nat]

(* A set of routes that has the parents of its members.                    *)
Closed(S) == \A j \in S : Named(mux[j].parent) \subseteq S

(* What was made of the list: names are not used twice, the line of a      *)
(* route is its own and its parent's, and starts at a top.                 *)
Lines ==
  /\ mux \in Seq(Made)
  /\ \A i, j \in DOMAIN mux : mux[i].name = mux[j].name => i = j
  /\ \A i \in DOMAIN mux :
       /\ mux[i].line \subseteq 1 .. i /\ i \in mux[i].line
       /\ \A j \in mux[i].line : mux[j].line \subseteq mux[i].line
       /\ mux[i].parent = NoName => mux[i].line = {i}
       /\ mux[i].parent # NoName =>
            \E p \in mux[i].line \ {i} :
              mux[p].name = mux[i].parent /\ mux[i].line = mux[p].line \union {i}
       /\ \E t \in mux[i].line : mux[t].line = {t}

(* Whoever goes from a route to parents comes by all of its line.          *)
LineIsAbove ==
  \A i \in DOMAIN mux : \A S \in SUBSET DOMAIN mux :
    i \in S /\ Closed(S) => mux[i].line \subseteq S

GrpcRules ==
  \A i \in DOMAIN mux :
    /\ \A rule \in mux[i].rules : rule.kind = "grpc" => rule.accepts = GrpcCalls
    /\ mux[i].backend = "grpc" => \E rule \in mux[i].rules : rule.kind = "grpc"

MuxOK == Lines /\ LineIsAbove /\ GrpcRules

(* Where the request is, and why.                                          *)
Dispatched ==
  /\ build \in {"parse", "panicked", "ready"}
  /\ request \subseteq Requests /\ \A r, s \in request : r = s
  /\ request # {} => build = "ready"
  /\ request = {} => chosen = 0
  /\ chosen # 0 => chosen \in Handled /\ \A req \in request : Fits(chosen, req)
  /\ chosen = 0 => \A req \in request : NotFound(req)
  /\ chosen \in Nat
  /\ at # "idle" => chosen # 0 /\ mux[chosen].backend = "http"

(* How far the HTTP backend is tells what went out.                        *)
Answering ==
  /\ at \in {"idle", "read", "invoke"} =>
       result = "none" /\ status = "none" /\ headers = "none" /\ body = "none"
  /\ at \in {"payload", "body"} => result = "payload" /\ body = "none"
  /\ at = "payload" => status = "none" /\ headers = "none"
  /\ at = "body" => status = "function" /\ headers = "function"

Inv == MuxOK /\ Dispatched /\ Backend!TypeOK /\ Backend!RealAnswer /\ Answering

USE DEF vars, backendVars

-----------------------------------------------------------------------------
(* Operators                                                               *)

(* A set of numbers that is not empty has a minimum.                       *)
LEMMA MinIn ==
  ASSUME NEW S \in SUBSET Nat, S # {}
  PROVE  Min(S) \in S
<1> DEFINE R == {ss \in Nat \X Nat : ss[1] < ss[2]}
<1>1. IsWellFoundedOn(R, Nat)
  BY NatLessThanWellFounded DEF OpToRel
<1>2. PICK x \in S : \A y \in S : ~ (<<y, x>> \in R)
  <2> HIDE DEF R
  <2> QED
    BY <1>1, WFMin
<1>3. ASSUME NEW y \in S, y < x
      PROVE  FALSE
  <2>1. <<y, x>> \in Nat \X Nat /\ <<y, x>>[1] < <<y, x>>[2]
    BY <1>3
  <2>2. <<y, x>> \in R
    BY <2>1
  <2> QED
    BY <1>2, <2>2
<1>4. \A y \in S : x =< y
  BY <1>3
<1> QED
  BY <1>4 DEF Min

(* No route has the name of no parent.                                     *)
LEMMA NamesAreNames ==
  ASSUME MuxOK
  PROVE  /\ \A i \in DOMAIN mux : mux[i] \in Made /\ mux[i].name # NoName
         /\ DOMAIN mux = 1 .. Len(mux) /\ Len(mux) \in Nat
<1>1. \A r \in Made : r.name # NoName
  BY RouterAssumption DEF Made
<1>2. /\ \A i \in DOMAIN mux : mux[i] \in Made
      /\ DOMAIN mux = 1 .. Len(mux) /\ Len(mux) \in Nat
  BY DEF MuxOK, Lines
<1> QED
  BY <1>1, <1>2

(* The routes above a route are its line.                                  *)
LEMMA AboveIsLine ==
  ASSUME MuxOK, NEW i \in DOMAIN mux
  PROVE  Above(i) = mux[i].line
<1>1. mux[i].line \subseteq DOMAIN mux
  BY DEF MuxOK, Lines
<1>2. Closed(mux[i].line)
  <2>1. ASSUME NEW j \in mux[i].line, NEW k \in Named(mux[j].parent)
        PROVE  k \in mux[i].line
    <3>1. j \in DOMAIN mux /\ k \in DOMAIN mux /\ mux[k].name = mux[j].parent
      BY <1>1, <2>1 DEF Named
    <3>2. mux[k].name # NoName
      BY <3>1, NamesAreNames
    <3>3. PICK p \in mux[j].line : mux[p].name = mux[j].parent
      BY <3>1, <3>2 DEF MuxOK, Lines
    <3>4. p \in DOMAIN mux /\ mux[j].line \subseteq mux[i].line
      BY <3>1, <3>3 DEF MuxOK, Lines
    <3> QED
      BY <3>1, <3>3, <3>4 DEF MuxOK, Lines
  <2> QED
    BY <2>1 DEF Closed
<1>3. Above(i) \subseteq mux[i].line
  BY <1>1, <1>2 DEF Above, Closed, MuxOK, Lines
<1>4. mux[i].line \subseteq Above(i)
  BY <1>1 DEF Above, Closed, MuxOK, LineIsAbove
<1> QED
  BY <1>3, <1>4

(* What mux accepts for a route the route is meant for.                    *)
LEMMA FitsMeant ==
  ASSUME MuxOK, NEW i \in DOMAIN mux, NEW req \in Requests, Fits(i, req)
  PROVE  /\ req \in MeantFor(i)
         /\ mux[i].backend = "grpc" => req \in GrpcCalls
<1>1. Above(i) = mux[i].line /\ mux[i].line \subseteq DOMAIN mux /\ i \in mux[i].line
  <2>1. Above(i) = mux[i].line
    BY AboveIsLine
  <2> QED
    BY <2>1 DEF MuxOK, Lines
<1>2. ASSUME NEW k \in mux[i].line, NEW rule \in mux[k].rules
      PROVE  /\ req \in rule.accepts
             /\ rule.kind = "grpc" => req \in GrpcCalls
  <2>1. req \in Accepted(rule)
    BY <1>2 DEF Fits
  <2>2. rule.kind = "grpc" => rule.accepts = GrpcCalls
    BY <1>1 DEF MuxOK, GrpcRules
  <2> QED
    BY <2>1, <2>2 DEF Accepted
<1> QED
  BY <1>1, <1>2 DEF MeantFor, MuxOK, GrpcRules

(* A backend that a request may get to is one of a route that fits.        *)
LEMMA CandidatesFit ==
  ASSUME MuxOK, NEW req \in Requests, NEW i \in Candidates(req)
  PROVE  i \in Handled /\ Fits(i, req)
<1>1. Matching(req) # {} /\ Matching(req) \subseteq DOMAIN mux
  BY DEF Candidates, Matching, Tops
<1>2. Min(Matching(req)) \in Matching(req)
  <2>1. DOMAIN mux \subseteq Nat
    BY DEF MuxOK, Lines
  <2> QED
    BY <1>1, <2>1, MinIn
<1>3. CASE i \in FirstHandled(Min(Matching(req)))
  BY <1>2, <1>3 DEF FirstHandled, Matching, Matches
<1>4. CASE i \in LeftBehind(Min(Matching(req)), req)
  <2>1. i \in Handled /\ Matches(i, req)
    BY <1>4 DEF LeftBehind
  <2>2. i \in Tree(i)
    BY <2>1 DEF Tree, Handled, MuxOK, Lines
  <2> QED
    BY <2>1, <2>2 DEF Matches
<1> QED
  BY <1>1, <1>3, <1>4 DEF Candidates

-----------------------------------------------------------------------------
(* The build                                                               *)

(* A route that is made extends the mux, below its parent if it has one.   *)
LEMMA NewRouteOK ==
  ASSUME MuxOK, NEW route \in Routes, ParseRoute(route)
  PROVE  MuxOK' /\ \A i \in DOMAIN mux : i \in DOMAIN mux' /\ mux'[i] = mux[i]
<1> DEFINE n == Len(mux) + 1
<1>1. PICK above \in SUBSET Nat :
        /\ mux' = NewRoute(route, above)
        /\ \/ route.parent = NoName /\ above = {}
           \/ \E p \in Named(route.parent) : above = mux[p].line
  BY DEF ParseRoute, Named, MuxOK, Lines, Made
<1> DEFINE new == [name |-> route.name, parent |-> route.parent,
                   rules |-> route.matchers, backend |-> BackendOf(route),
                   line |-> above \union {n}]
<1>2. new \in Made
  <2>1. route.matchers \in SUBSET Rule
    BY RouterAssumption
  <2>2. BackendOf(route) \in {"none", "http", "grpc"}
    BY DEF BackendOf
  <2>3. above \union {n} \in SUBSET Nat
    <3>1. n \in Nat
      BY NamesAreNames
    <3> QED
      BY <3>1
  <2>4. route.name \in {r.name : r \in Routes} /\ route.parent \in {r.parent : r \in Routes}
    OBVIOUS
  <2> HIDE DEF n
  <2> QED
    BY <2>1, <2>2, <2>3, <2>4 DEF Made
<1>3. mux' = Append(mux, new)
  BY <1>1 DEF NewRoute
<1>4. /\ n \in Nat /\ n > 0 /\ n \notin DOMAIN mux /\ DOMAIN mux = 1 .. (n - 1)
      /\ new.name = route.name /\ new.parent = route.parent /\ new.rules = route.matchers
      /\ new.backend = BackendOf(route) /\ new.line = above \union {n}
  BY NamesAreNames
<1> HIDE DEF n
<1>5. /\ mux' \in Seq(Made) /\ DOMAIN mux' = DOMAIN mux \union {n} /\ mux'[n] = new
      /\ \A i \in DOMAIN mux : mux'[i] = mux[i]
  BY <1>2, <1>3, <1>4 DEF MuxOK, Lines, n
<1> HIDE DEF new
<1>6. \A i \in DOMAIN mux : mux[i].name # route.name
  BY DEF ParseRoute, Named
<1>7. route.name # NoName
  BY RouterAssumption
<1>8. \A i \in DOMAIN mux : mux[i].line \subseteq DOMAIN mux /\ i \in mux[i].line
  BY DEF MuxOK, Lines
<1>9. above \subseteq DOMAIN mux
  BY <1>1, <1>8 DEF Named
<1>10. Lines'
  <2>1. \A i, j \in DOMAIN mux' : mux'[i].name = mux'[j].name => i = j
    BY <1>4, <1>5, <1>6 DEF MuxOK, Lines
  <2>2. ASSUME NEW i \in DOMAIN mux
        PROVE  /\ mux'[i].line \subseteq 1 .. i /\ i \in mux'[i].line
               /\ \A j \in mux'[i].line : mux'[j].line \subseteq mux'[i].line
               /\ mux'[i].parent = NoName => mux'[i].line = {i}
               /\ mux'[i].parent # NoName =>
                    \E p \in mux'[i].line \ {i} :
                      mux'[p].name = mux'[i].parent /\ mux'[i].line = mux'[p].line \union {i}
               /\ \E t \in mux'[i].line : mux'[t].line = {t}
    <3>1. mux'[i] = mux[i] /\ \A j \in mux[i].line : mux'[j] = mux[j]
      BY <1>5, <1>8
    <3>2. /\ mux[i].line \subseteq 1 .. i /\ i \in mux[i].line
          /\ \A j \in mux[i].line : mux[j].line \subseteq mux[i].line
          /\ mux[i].parent = NoName => mux[i].line = {i}
          /\ mux[i].parent # NoName =>
               \E p \in mux[i].line \ {i} :
                 mux[p].name = mux[i].parent /\ mux[i].line = mux[p].line \union {i}
          /\ \E t \in mux[i].line : mux[t].line = {t}
      BY DEF MuxOK, Lines
    <3> QED
      BY <3>1, <3>2
  <2>3. /\ mux'[n].line \subseteq 1 .. n /\ n \in mux'[n].line
        /\ \A j \in mux'[n].line : mux'[j].line \subseteq mux'[n].line
        /\ mux'[n].parent = NoName => mux'[n].line = {n}
        /\ mux'[n].parent # NoName =>
             \E p \in mux'[n].line \ {n} :
               mux'[p].name = mux'[n].parent /\ mux'[n].line = mux'[p].line \union {n}
        /\ \E t \in mux'[n].line : mux'[t].line = {t}
    <3>1. mux'[n].line = above \union {n} /\ mux'[n].parent = route.parent
      BY <1>4, <1>5
    <3>2. mux'[n].line \subseteq 1 .. n /\ n \in mux'[n].line
      <4>1. above \subseteq 1 .. n /\ n \in 1 .. n
        BY <1>4, <1>9
      <4> QED
        BY <3>1, <4>1
    <3>3. \A j \in above : mux'[j] = mux[j] /\ mux[j].line \subseteq above
      BY <1>1, <1>5, <1>8, <1>9 DEF Named, MuxOK, Lines
    <3>4. CASE route.parent = NoName /\ above = {}
      BY <3>1, <3>2, <3>4
    <3>5. CASE \E p \in Named(route.parent) : above = mux[p].line
      <4>1. PICK p \in DOMAIN mux : mux[p].name = route.parent /\ above = mux[p].line
        BY <3>5 DEF Named
      <4>2. route.parent # NoName /\ p \in above /\ p # n /\ mux'[p] = mux[p]
        BY <1>4, <1>5, <1>8, <4>1, NamesAreNames
      <4>3. PICK t \in above : mux[t].line = {t}
        BY <4>1 DEF MuxOK, Lines
      <4> QED
        BY <3>1, <3>2, <3>3, <4>1, <4>2, <4>3
    <3> QED
      BY <1>1, <3>4, <3>5
  <2> QED
    BY <1>5, <2>1, <2>2, <2>3 DEF Lines
<1>11. LineIsAbove'
  <2>1. ASSUME NEW i \in DOMAIN mux, NEW S \in SUBSET DOMAIN mux', i \in S, Closed(S)'
        PROVE  mux'[i].line \subseteq S
    <3>1. Closed(S \intersect DOMAIN mux)
      BY <1>5, <2>1 DEF Closed, Named
    <3>2. mux[i].line \subseteq S \intersect DOMAIN mux
      BY <2>1, <3>1 DEF MuxOK, LineIsAbove
    <3> QED
      BY <1>5, <3>2
  <2>2. ASSUME NEW S \in SUBSET DOMAIN mux', n \in S, Closed(S)'
        PROVE  mux'[n].line \subseteq S
    <3>1. mux'[n].line = above \union {n} /\ mux'[n].parent = route.parent
      BY <1>4, <1>5
    <3>2. CASE above = {}
      BY <2>2, <3>1, <3>2
    <3>3. CASE \E p \in Named(route.parent) : above = mux[p].line
      <4>1. PICK p \in DOMAIN mux : mux[p].name = route.parent /\ above = mux[p].line
        BY <3>3 DEF Named
      <4>2. p \in S
        BY <1>5, <2>2, <3>1, <4>1 DEF Closed, Named
      <4> QED
        BY <1>5, <2>1, <2>2, <3>1, <4>1, <4>2
    <3> QED
      BY <1>1, <3>2, <3>3
  <2> QED
    BY <1>5, <2>1, <2>2 DEF LineIsAbove
<1>12. GrpcRules'
  <2>1. /\ \A rule \in route.matchers : rule.kind = "grpc" => rule.accepts = GrpcCalls
        /\ BackendOf(route) = "grpc" => \E rule \in route.matchers : rule.kind = "grpc"
    BY RouterAssumption DEF BackendOf, IsGrpcCall
  <2> QED
    BY <1>4, <1>5, <2>1 DEF GrpcRules, MuxOK
<1> QED
  BY <1>5, <1>10, <1>11, <1>12 DEF MuxOK

-----------------------------------------------------------------------------
(* The invariant                                                           *)

LEMMA InitInv == Init => Inv
<1> SUFFICES ASSUME Init
             PROVE  Inv
  OBVIOUS
<1>1. MuxOK
  BY DEF Init, MuxOK, Lines, LineIsAbove, GrpcRules
<1>2. Dispatched
  BY DEF Init, Dispatched, Backend!Init
<1>3. Backend!TypeOK /\ Backend!RealAnswer /\ Answering
  BY DEF Init, Backend!Init, Backend!TypeOK, Backend!RealAnswer, Answering
<1> QED
  BY <1>1, <1>2, <1>3 DEF Inv

(* What mux finds depends on the mux only.                                 *)
LEMMA SameMux ==
  ASSUME UNCHANGED mux
  PROVE  /\ MuxOK => MuxOK'
         /\ Handled' = Handled
         /\ \A i, req : (Fits(i, req) <=> Fits(i, req)') /\ (NotFound(req) <=> NotFound(req)')
<1>1. MuxOK => MuxOK'
  BY DEF MuxOK, Lines, LineIsAbove, Closed, Named, GrpcRules
<1>2. Handled' = Handled /\ Tops' = Tops
  BY DEF Handled, Tops
<1>3. \A i, req : Fits(i, req) <=> Fits(i, req)'
  BY DEF Fits
<1>4. \A i : Tree(i)' = Tree(i)
  BY DEF Tree
<1>5. \A i, req : Matches(i, req) <=> Matches(i, req)'
  BY <1>3, <1>4 DEF Matches
<1>6. \A req : Matching(req)' = Matching(req)
  BY <1>2, <1>5 DEF Matching
<1>7. \A i, j : Before(i, j) <=> Before(i, j)'
  BY DEF Before
<1>8. \A i : FirstHandled(i)' = FirstHandled(i)
  BY <1>2, <1>4, <1>7 DEF FirstHandled
<1>9. \A req : NotFound(req) <=> NotFound(req)'
  BY <1>6, <1>8 DEF NotFound
<1> QED
  BY <1>1, <1>2, <1>3, <1>9

(* The build, before there is any request.                                 *)
LEMMA BuildKeeps ==
  ASSUME Inv
  PROVE  /\ \A route \in Routes : ParseRoute(route) \/ ParsePanics(route) => Inv'
         /\ Built => Inv'
<1>1. ASSUME build = "parse"
      PROVE  request = {} /\ chosen = 0 /\ at = "idle"
  BY <1>1 DEF Inv, Dispatched
<1>2. ASSUME NEW route \in Routes, ParseRoute(route)
      PROVE  Inv'
  <2>1. MuxOK'
    BY <1>2, NewRouteOK DEF Inv
  <2>2. build = "parse" /\ UNCHANGED <<build, request, chosen, backendVars>>
    BY <1>2 DEF ParseRoute
  <2>3. Dispatched'
    BY <1>1, <2>2 DEF Inv, Dispatched
  <2>4. (Backend!TypeOK /\ Backend!RealAnswer /\ Answering)'
    BY <2>2 DEF Inv, Backend!TypeOK, Backend!RealAnswer, Answering
  <2> QED
    BY <2>1, <2>3, <2>4 DEF Inv
<1>3. ASSUME build = "parse", build' \in {"panicked", "ready"},
             UNCHANGED <<mux, request, chosen, backendVars>>
      PROVE  Inv'
  <2>1. MuxOK'
    BY <1>3, SameMux DEF Inv
  <2>2. Dispatched'
    BY <1>1, <1>3 DEF Inv, Dispatched
  <2>3. (Backend!TypeOK /\ Backend!RealAnswer /\ Answering)'
    BY <1>3 DEF Inv, Backend!TypeOK, Backend!RealAnswer, Answering
  <2> QED
    BY <2>1, <2>2, <2>3 DEF Inv
<1>4. \A route \in Routes : ParsePanics(route) => Inv'
  BY <1>3 DEF ParsePanics
<1>5. Built => Inv'
  BY <1>3 DEF Built
<1> QED
  BY <1>2, <1>4, <1>5

(* The dispatch: the backend that gets the request is one that fits.       *)
LEMMA DispatchKeeps ==
  ASSUME Inv, NEW req \in Requests, ServeHTTP(req) \/ ServeNotFound(req)
  PROVE  Inv'
<1>1. /\ build = "ready" /\ request = {} /\ request' = {req} /\ UNCHANGED <<mux, build>>
      /\ chosen = 0 /\ at = "idle" /\ chosen \in Nat
  BY DEF ServeHTTP, ServeNotFound, Inv, Dispatched
<1>2. MuxOK' /\ Handled' = Handled /\ MuxOK
  BY <1>1, SameMux DEF Inv
<1>3. CASE ServeHTTP(req)
  <2>1. chosen' \in Candidates(req)
    BY <1>3 DEF ServeHTTP
  <2>2. chosen' \in Handled /\ \A r \in request' : Fits(chosen', r)
    <3>1. PICK i \in Candidates(req) : i = chosen'
      BY <2>1
    <3>2. i \in Handled /\ Fits(i, req)
      BY <1>2, CandidatesFit
    <3> QED
      BY <1>1, <3>1, <3>2
  <2>3. chosen' \in Nat /\ chosen' # 0
    BY <1>2, <2>2, NamesAreNames DEF Handled
  <2>4. \A r \in request' : Fits(chosen, r)'
    <3>1. Fits(chosen', req) = Fits(chosen, req)'
      BY <1>1 DEF Fits
    <3> QED
      BY <1>1, <2>2, <3>1
  <2>5. \/ at' = "idle"
        \/ at' = "read" /\ mux[chosen'].backend = "http"
    BY <1>1, <1>3 DEF ServeHTTP, Backend!Begin
  <2>6. Dispatched'
    BY <1>1, <1>2, <2>2, <2>3, <2>4, <2>5 DEF Dispatched
  <2>7. (Backend!TypeOK /\ Backend!RealAnswer /\ Answering)'
    BY <1>1, <1>3 DEF ServeHTTP, Inv, Backend!Begin, Backend!Unanswered,
                      Backend!TypeOK, Backend!RealAnswer, Answering
  <2> QED
    BY <1>2, <2>6, <2>7 DEF Inv
<1>4. CASE ServeNotFound(req)
  <2>1. NotFound(req) /\ UNCHANGED <<chosen, backendVars>>
    BY <1>4 DEF ServeNotFound
  <2>2. NotFound(req)'
    BY <1>1, <2>1, SameMux
  <2>3. Dispatched'
    BY <1>1, <2>1, <2>2 DEF Dispatched
  <2>4. (Backend!TypeOK /\ Backend!RealAnswer /\ Answering)'
    BY <2>1 DEF Inv, Backend!TypeOK, Backend!RealAnswer, Answering
  <2> QED
    BY <1>2, <2>3, <2>4 DEF Inv
<1> QED
  BY <1>3, <1>4

(* The HTTP backend: what went out so far, at each of its steps.           *)
LEMMA BackendKeeps ==
  ASSUME Inv, BackendStep
  PROVE  Inv'
<1> USE DEF Backend!WrapHttpError, Backend!Unanswered
<1> DEFINE Out == Backend!TypeOK /\ Backend!RealAnswer /\ Answering
<1>1. UNCHANGED <<mux, build, request, chosen>> /\ MuxOK' /\ Handled' = Handled
  BY SameMux DEF BackendStep, Inv
<1>2. at # "idle" /\ Out'
  <2> USE DEF Inv, Backend!TypeOK, Backend!RealAnswer, Answering
  <2>1. CASE Backend!ReadFails
    BY <2>1 DEF Backend!ReadFails
  <2>2. CASE Backend!ReadBody
    BY <2>2 DEF Backend!ReadBody
  <2>3. CASE Backend!InvokeFails
    BY <2>3 DEF Backend!InvokeFails
  <2>4. CASE Backend!FunctionFails
    BY <2>4 DEF Backend!FunctionFails
  <2>5. CASE Backend!FunctionReturns
    BY <2>5 DEF Backend!FunctionReturns
  <2>6. CASE Backend!UnmarshalFails
    BY <2>6 DEF Backend!UnmarshalFails
  <2>7. CASE Backend!NoStatusCode
    BY <2>7 DEF Backend!NoStatusCode
  <2>8. CASE Backend!WriteHeader
    BY <2>8 DEF Backend!WriteHeader
  <2>9. CASE Backend!DecodeFails
    BY <2>9 DEF Backend!DecodeFails
  <2>10. CASE Backend!WriteBody
    BY <2>10 DEF Backend!WriteBody
  <2>11. CASE Backend!WriteFails
    BY <2>11 DEF Backend!WriteFails
  <2> QED
    BY <2>1, <2>2, <2>3, <2>4, <2>5, <2>6, <2>7, <2>8, <2>9, <2>10, <2>11
    DEF BackendStep, Backend!Step
<1>3. Dispatched'
  <2>1. \A req : /\ Fits(chosen, req) <=> Fits(chosen, req)'
                 /\ NotFound(req) <=> NotFound(req)'
    <3>1. \A req : Fits(chosen, req) <=> Fits(chosen, req)'
      BY <1>1 DEF Fits
    <3>2. \A req : NotFound(req) <=> NotFound(req)'
      BY <1>1, SameMux
    <3> QED
      BY <3>1, <3>2
  <2> QED
    BY <1>1, <1>2, <2>1 DEF Inv, Dispatched
<1> QED
  BY <1>1, <1>2, <1>3 DEF Inv

(* Every step of a build, of the dispatch or of the backend keeps Inv.     *)
LEMMA NextInv == Inv /\ [Next]_vars => Inv'
<1> SUFFICES ASSUME Inv, [Next]_vars
             PROVE  Inv'
  OBVIOUS
<1>1. CASE UNCHANGED vars
  <2>1. MuxOK' /\ Handled' = Handled /\ \A req : NotFound(req) <=> NotFound(req)'
    BY <1>1, SameMux DEF Inv
  <2>2. \A req : Fits(chosen, req) <=> Fits(chosen, req)'
    BY <1>1 DEF Fits
  <2>3. Dispatched'
    BY <1>1, <2>1, <2>2 DEF Inv, Dispatched
  <2>4. (Backend!TypeOK /\ Backend!RealAnswer /\ Answering)'
    BY <1>1 DEF Inv, Backend!TypeOK, Backend!RealAnswer, Answering
  <2> QED
    BY <2>1, <2>3, <2>4 DEF Inv
<1> QED
  BY <1>1, BuildKeeps, DispatchKeeps, BackendKeeps DEF Next, Halted

(* So it always holds.                                                     *)
LEMMA InvAlways == Spec => []Inv
BY InitInv, NextInv, PTL DEF Spec

-----------------------------------------------------------------------------
(* The theorems                                                            *)

(* The types of the variables, and that a route is made below the one that *)
(* it names as its parent, which was made before.                          *)
THEOREM TypeCorrect == Spec => []TypeOK
<1>1. Inv => TypeOK
  <2> SUFFICES ASSUME Inv
               PROVE  TypeOK
    OBVIOUS
  <2>1. ASSUME NEW i \in DOMAIN mux
        PROVE  /\ mux[i].rules \subseteq Rule
               /\ mux[i].backend \in {"none", "http", "grpc"}
               /\ mux[i].line \subseteq 1 .. i /\ i \in mux[i].line
               /\ mux[i].parent = NoName <=> mux[i].line = {i}
    <3>1. mux[i].rules \subseteq Rule /\ mux[i].backend \in {"none", "http", "grpc"}
      BY NamesAreNames DEF Inv, Made
    <3>2. mux[i].line \subseteq 1 .. i /\ i \in mux[i].line
      BY DEF Inv, MuxOK, Lines
    <3>3. mux[i].parent = NoName <=> mux[i].line = {i}
      BY DEF Inv, MuxOK, Lines
    <3> QED
      BY <3>1, <3>2, <3>3
  <2>2. chosen \in 0 .. Len(mux)
    BY NamesAreNames DEF Inv, Dispatched, Handled
  <2> QED
    BY <2>1, <2>2 DEF TypeOK, Inv, Dispatched
<1> QED
  BY <1>1, InvAlways, PTL

(* router.go:31-178.  No backend gets a request that a rule on its route   *)
(* or above it refuses, for lists of any length and in any order, nor does *)
(* a gRPC backend get any other call.                                      *)
THEOREM BackendsGetTheirOwn == Spec => []SoundDispatch
<1>1. Inv => SoundDispatch
  <2> SUFFICES ASSUME Inv, chosen # 0, NEW req \in request
               PROVE  /\ req \in MeantFor(chosen)
                      /\ mux[chosen].backend = "grpc" => req \in GrpcCalls
    BY DEF SoundDispatch
  <2>1. chosen \in DOMAIN mux /\ req \in Requests /\ Fits(chosen, req)
    BY DEF Inv, Dispatched, Handled
  <2> QED
    BY <2>1, FitsMeant DEF Inv
<1> QED
  BY <1>1, InvAlways, PTL

(* router.go:43-164.  A request that is not found was not meant for a      *)
(* route with a handler, no pairs to match and no company, unless another  *)
(* tree without a handler takes it first.                                  *)
THEOREM PlainRoutesAreFound == Spec => []CompleteDispatch
<1>1. Inv => CompleteDispatch
  <2> SUFFICES ASSUME Inv, request # {}, chosen = 0,
                      NEW i \in Handled, Plain(i), request \subseteq MeantFor(i)
               PROVE  \E k \in Tops : FirstHandled(k) = {} /\ request \subseteq MeantFor(k)
    BY DEF CompleteDispatch
  <2>1. PICK req \in Requests : request = {req} /\ NotFound(req)
    BY DEF Inv, Dispatched
  <2>2. i \in DOMAIN mux /\ Above(i) = mux[i].line /\ mux[i].line \subseteq DOMAIN mux
    <3>1. i \in DOMAIN mux
      BY DEF Handled
    <3>2. Above(i) = mux[i].line
      BY <3>1, AboveIsLine DEF Inv
    <3> QED
      BY <3>1, <3>2 DEF Inv, MuxOK, Lines
  <2>3. PICK t \in mux[i].line : mux[t].line = {t}
    BY <2>2 DEF Inv, MuxOK, Lines
  <2>4. ASSUME NEW j \in Tree(t)
        PROVE  Fits(j, req)
    <3>1. j \in DOMAIN mux /\ t \in mux[j].line /\ Above(j) = mux[j].line
      BY AboveIsLine DEF Tree, Inv
    <3>2. j \in mux[i].line
      BY <2>2, <2>3, <3>1 DEF Plain
    <3>3. mux[j].line \subseteq mux[i].line
      BY <2>2, <3>2 DEF Inv, MuxOK, Lines
    <3>4. ASSUME NEW k \in mux[j].line, NEW rule \in mux[k].rules
          PROVE  req \in Accepted(rule)
      <4>1. k \in Above(i) /\ k \in DOMAIN mux
        BY <2>2, <3>3, <3>4
      <4>2. rule.kind # "pairs"
        BY <3>4, <4>1 DEF Plain
      <4>3. req \in rule.accepts
        BY <2>1, <3>4, <4>1 DEF MeantFor
      <4>4. rule.kind = "grpc" => rule.accepts = GrpcCalls
        BY <3>4, <4>1 DEF Inv, MuxOK, GrpcRules
      <4> QED
        BY <4>2, <4>3, <4>4 DEF Accepted
    <3> QED
      BY <3>4 DEF Fits
  <2>5. t \in Matching(req)
    BY <2>2, <2>3, <2>4 DEF Matching, Matches, Tops
  <2> DEFINE k == Min(Matching(req))
  <2>6. k \in Matching(req)
    <3>1. Matching(req) \in SUBSET Nat
      BY NamesAreNames DEF Matching, Tops, Inv
    <3> QED
      BY <2>5, <3>1, MinIn
  <2>7. FirstHandled(k) = {}
    BY <2>1, <2>5 DEF NotFound
  <2> HIDE DEF k
  <2>8. k \in Tops /\ k \in Tree(k) /\ k \in DOMAIN mux
    BY <2>6 DEF Matching, Tops, Tree, Inv, MuxOK, Lines
  <2>9. Fits(k, req)
    BY <2>6, <2>8 DEF Matching, Matches
  <2> QED
    BY <2>1, <2>7, <2>8, <2>9, FitsMeant DEF Inv
<1> QED
  BY <1>1, InvAlways, PTL

(* http_backend.go:44-122.  What the client takes for the function's       *)
(* answer is one, whichever step fails, and only a route with an HTTP      *)
(* backend has its function asked.                                         *)
THEOREM AnswersAreReal == Spec => []RealAnswer
<1>1. Inv => RealAnswer
  BY DEF Inv, RealAnswer, Dispatched, Answering
<1> QED
  BY <1>1, InvAlways, PTL

-----------------------------------------------------------------------------
(* A gRPC call.  It has variables of its own, and nothing of the router's. *)

Past(f) == pc[f] \in {"report", "close", "closed"}
Reported(f) == pc[f] \in {"close", "closed"}

(* The events that Handle has had of a flow.                               *)
EventsOf(f) ==
  (IF Reported(f) THEN 1 ELSE 0) + (IF f \in watched THEN 0 ELSE 1)

Collected ==
  /\ handle = "flow" <=> callResult = "none"
  /\ handle = "flow" =>
       /\ events = EventsOf("receive") + EventsOf("send")
       /\ \A f \in Flows : Reported(f) => ~failed[f]
       /\ \A f \in Flows : f \notin watched => pc[f] = "closed"
  /\ callResult = "ok" => watched = {} /\ \A f \in Flows : pc[f] = "closed" /\ ~failed[f]

Stored ==
  /\ pc["receive"] \in {"recv", "invoke"} => lambdaResponse = "none"
  /\ pc["receive"] = "unmarshal" => lambdaResponse = "empty"
  /\ pc["receive"] = "metadata" => responseBody = "whole"
  /\ Past("receive") /\ ~failed["receive"] /\ lambdaResponse # "none" =>
       responseBody = "whole" /\ outgoingMetadata = TRUE

Answered ==
  /\ reply.status \in {"ok", "gone"} => lambdaResponse = reply.status
  /\ pc["send"] \in {"readMetadata", "readBody"} => reply.status = "ok"
  /\ pc["send"] \in {"errorId", "header"} => reply.status # "none"
  /\ pc["send"] = "message" => reply.status \in {"ok", "gone"}
  /\ sent > 0 => lambdaResponse = "gone" \/ Past("send")
  /\ sent = 0 => first = TRUE
  /\ pc["send"] = "message" /\ reply.status = "ok" /\ reply.metadata = TRUE => header = TRUE
  /\ Past("send") /\ ~failed["send"] =>
       reply.status = "ok" /\ sent = 1 /\ (reply.metadata = TRUE => header = TRUE)

CallInv == CallTypeOK /\ Collected /\ Stored /\ Answered

USE SentAssumption
    DEF callVars, handleVars, answerVars, streamVars, At, Goto, Returns,
        Flows, Statuses, Points, Past, Reported, EventsOf

(* A call begins without events, without an answer and without a message.  *)
LEMMA CallBegins ==
  ASSUME CallInit
  PROVE  CallInv
<1>1. CallTypeOK
  <2>1. /\ pc \in [Flows -> Points] /\ failed \in [Flows -> BOOLEAN]
        /\ events \in 0 .. 4 /\ sent \in 0 .. MaxSent
    BY DEF CallInit
  <2>2. reply \in [status : Statuses \cup {"none"}, metadata : BOOLEAN,
                   body : {"none", "torn", "whole"}]
    BY DEF CallInit, NoReply
  <2> QED
    BY <2>1, <2>2 DEF CallInit, CallTypeOK
<1>2. Collected
  BY DEF CallInit, Collected
<1>3. Stored
  BY DEF CallInit, Stored
<1>4. Answered
  BY DEF CallInit, Answered, NoReply
<1> QED
  BY <1>1, <1>2, <1>3, <1>4 DEF CallInv

(* A flow that goes on, or that returns, is no event yet.                  *)
LEMMA NoEvent ==
  ASSUME CallInv, NEW f \in Flows, ~Past(f), UNCHANGED handleVars,
         pc'[f] \notin {"close", "closed"},
         \A g \in Flows \ {f} : pc'[g] = pc[g] /\ failed'[g] = failed[g]
  PROVE  Collected'
BY DEF CallInv, CallTypeOK, Collected

(* A panic stops everything, and changes nothing else.                     *)
LEMMA PanicKeeps ==
  ASSUME CallInv, panicked' = TRUE,
         UNCHANGED <<handleVars, pc, failed, answerVars, reply, streamVars>>
  PROVE  CallInv'
BY DEF CallInv, CallTypeOK, Collected, Stored, Answered

(* The flow that receives: it alone changes what the backend stores.       *)
LEMMA ReceiveKeeps ==
  ASSUME CallInv, RecvMessage \/ (\E error \in BOOLEAN : RecvEnds(error)) \/ ReceiveStep
  PROVE  CallInv'
<1> USE DEF CallInv, CallTypeOK, Collected, Stored, Answered
<1>1. CASE RecvMessage
  BY <1>1 DEF RecvMessage
<1>2. ASSUME NEW error \in BOOLEAN, RecvEnds(error) PROVE CallInv'
  BY <1>2 DEF RecvEnds
<1>3. CASE InvokeFails \/ FunctionFails
  <2>1. CASE InvokeFails
    BY <2>1, PanicKeeps DEF InvokeFails
  <2>2. CASE FunctionFails
    BY <2>2 DEF FunctionFails
  <2> QED
    BY <1>3, <2>1, <2>2
<1>4. CASE InvokeReturns
  BY <1>4 DEF InvokeReturns
<1>5. ASSUME NEW code \in Statuses, Unmarshal(code) PROVE CallInv'
  BY <1>5 DEF Unmarshal
<1>6. ASSUME NEW code \in Statuses \cup {"empty"}, UnmarshalFails(code)
      PROVE  CallInv'
  BY <1>6 DEF UnmarshalFails
<1>7. CASE DecodeFails
  BY <1>7 DEF DecodeFails
<1>8. CASE WriteBody
  BY <1>8 DEF WriteBody
<1>9. CASE BodyWritten
  BY <1>9 DEF BodyWritten
<1>10. CASE RequestReturns
  BY <1>10 DEF RequestReturns
<1> QED
  BY <1>1, <1>2, <1>3, <1>4, <1>5, <1>6, <1>7, <1>8, <1>9, <1>10
  DEF ReceiveStep

(* The flow that sends: it goes on to a point, or returns.                 *)
LEMMA SendGoesOn ==
  ASSUME CallInv, NEW point \in Points \ {"close", "closed"}, ~Past("send"),
         UNCHANGED <<handleVars, answerVars>>,
         \/ Goto("send", point) /\ UNCHANGED failed
         \/ \E error \in BOOLEAN : Returns("send", error)
  PROVE  /\ pc' \in [Flows -> Points] /\ failed' \in [Flows -> BOOLEAN]
         /\ Collected' /\ Stored'
<1>1. /\ pc \in [Flows -> Points] /\ failed \in [Flows -> BOOLEAN]
      /\ pc["send"] \notin {"close", "closed"}
  BY DEF CallInv, CallTypeOK
<1>2. /\ pc' \in [Flows -> Points] /\ failed' \in [Flows -> BOOLEAN]
      /\ pc'["receive"] = pc["receive"] /\ failed'["receive"] = failed["receive"]
      /\ pc'["send"] \notin {"close", "closed"}
  BY <1>1
<1>3. Collected'
  BY <1>2, NoEvent
<1>4. Stored'
  BY <1>2 DEF CallInv, Stored
<1> QED
  BY <1>2, <1>3, <1>4

(* A status of 200 or 410 that was read is the one that stays.             *)
LEMMA ReadStatusKeeps ==
  ASSUME CallInv, ReadStatus
  PROVE  CallInv'
<1>1. /\ pc' \in [Flows -> Points] /\ failed' \in [Flows -> BOOLEAN]
      /\ Collected' /\ Stored'
  BY SendGoesOn DEF ReadStatus
<1>2. /\ reply' = [status |-> IF lambdaResponse = "empty" THEN "error" ELSE lambdaResponse,
                    metadata |-> FALSE, body |-> "none"]
      /\ lambdaResponse \in Statuses \cup {"empty"}
  BY DEF ReadStatus, NoReply, CallInv, CallTypeOK
<1>3. reply' \in [status : Statuses \cup {"none"}, metadata : BOOLEAN,
                  body : {"none", "torn", "whole"}]
  BY <1>2
<1>4. CallTypeOK'
  BY <1>1, <1>3 DEF ReadStatus, CallInv, CallTypeOK
<1>5. Answered'
  BY <1>2 DEF ReadStatus, CallInv, CallTypeOK, Answered
<1> QED
  BY <1>1, <1>4, <1>5 DEF CallInv

(* The error is in the metadata, and the status stays what it was.         *)
LEMMA SetErrorIdKeeps ==
  ASSUME CallInv, SetErrorId
  PROVE  CallInv'
<1>1. /\ pc' \in [Flows -> Points] /\ failed' \in [Flows -> BOOLEAN]
      /\ Collected' /\ Stored'
  BY SendGoesOn DEF SetErrorId
<1>2. /\ reply' \in [status : Statuses \cup {"none"}, metadata : BOOLEAN,
                     body : {"none", "torn", "whole"}]
      /\ reply'.status = reply.status
  BY DEF SetErrorId, CallInv, CallTypeOK
<1>3. CallTypeOK'
  BY <1>1, <1>2 DEF SetErrorId, CallInv, CallTypeOK
<1>4. Answered'
  BY <1>2 DEF SetErrorId, CallInv, CallTypeOK, Answered
<1> QED
  BY <1>1, <1>3, <1>4 DEF CallInv

(* The header is set for the first message, and with a status that is not  *)
(* an error there is a message.                                            *)
LEMMA SetHeaderKeeps ==
  ASSUME CallInv, SetHeader
  PROVE  CallInv'
<1>1. /\ pc' \in [Flows -> Points] /\ failed' \in [Flows -> BOOLEAN]
      /\ Collected' /\ Stored'
  BY SendGoesOn DEF SetHeader
<1>2. header' = (header \/ (first /\ reply.metadata))
  BY Zenon DEF SetHeader
<1>3. header' \in BOOLEAN
  BY <1>2, Zenon
<1>4. CallTypeOK'
  BY <1>1, <1>3 DEF SetHeader, CallInv, CallTypeOK
<1>5. Answered'
  <2>1. CASE reply.status = "error"
    BY <2>1 DEF SetHeader, CallInv, CallTypeOK, Answered
  <2>2. CASE reply.status # "error"
    <3>1. reply.status \in {"ok", "gone"} /\ pc'["send"] = "message"
      BY <2>2 DEF SetHeader, CallInv, CallTypeOK, Answered
    <3>2. reply.status = "ok" => first = TRUE
      BY DEF SetHeader, CallInv, CallTypeOK, Answered
    <3>3. ASSUME reply.status = "ok", reply.metadata = TRUE
          PROVE  header' = TRUE
      BY <1>2, <3>2, <3>3, Zenon
    <3> QED
      BY <3>1, <3>3 DEF SetHeader, CallInv, Answered
  <2> QED
    BY <2>1, <2>2
<1> QED
  BY <1>1, <1>4, <1>5 DEF CallInv

(* A message after the first is one more of the 410s.                      *)
LEMMA SendMsgKeeps ==
  ASSUME CallInv, SendMsg
  PROVE  CallInv'
<1>1. /\ pc' \in [Flows -> Points] /\ failed' \in [Flows -> BOOLEAN]
      /\ Collected' /\ Stored'
  BY SendGoesOn DEF SendMsg
<1>2. sent \in 0 .. MaxSent /\ sent' \in 0 .. MaxSent /\ sent' > 0
  BY DEF SendMsg, CallInv, CallTypeOK
<1>3. CallTypeOK'
  <2>1. /\ UNCHANGED <<handleVars, answerVars, reply, header, panicked>>
        /\ first' = FALSE
    BY DEF SendMsg
  <2>2. first' \in BOOLEAN /\ header' \in BOOLEAN /\ panicked' \in BOOLEAN
    BY <2>1 DEF CallInv, CallTypeOK
  <2>3. reply' \in [status : Statuses \cup {"none"}, metadata : BOOLEAN,
                   body : {"none", "torn", "whole"}]
    BY <2>1 DEF CallInv, CallTypeOK
  <2> QED
    BY <1>1, <1>2, <2>1, <2>2, <2>3 DEF CallInv, CallTypeOK
<1>4. Answered'
  <2>1. CASE reply.status = "ok"
    <3>1. sent = 0 /\ sent' = 1
      BY <1>2, <2>1 DEF SendMsg, CallInv, Answered
    <3>2. pc'["send"] = "report" /\ (reply.metadata = TRUE => header' = TRUE)
      BY <2>1 DEF SendMsg, CallInv, CallTypeOK, Answered
    <3> QED
      BY <2>1, <3>1, <3>2 DEF SendMsg, CallInv, Answered
  <2>2. CASE reply.status # "ok"
    <3>1. reply.status = "gone" /\ pc'["send"] = "response"
      BY <2>2 DEF SendMsg, CallInv, CallTypeOK, Answered
    <3> QED
      BY <1>2, <3>1 DEF SendMsg, CallInv, Answered
  <2> QED
    BY <2>1, <2>2
<1> QED
  BY <1>1, <1>3, <1>4 DEF CallInv

(* All that the flow that sends does.                                      *)
LEMMA SendKeeps ==
  ASSUME CallInv, SendStep
  PROVE  CallInv'
<1> USE DEF CallInv, CallTypeOK, Collected, Stored, Answered
<1>1. CASE ReadMetadata
  BY <1>1 DEF ReadMetadata
<1>2. CASE ReadBody
  BY <1>2 DEF ReadBody
<1>3. CASE SetHeaderFails
  BY <1>3 DEF SetHeaderFails
<1>4. CASE SendMsgFails
  BY <1>4 DEF SendMsgFails
<1>5. CASE ReadStatusNil \/ SetErrorIdNil \/ SendTornBody
  BY <1>5, PanicKeeps DEF ReadStatusNil, SetErrorIdNil, SendTornBody
<1> QED
  BY <1>1, <1>2, <1>3, <1>4, <1>5, ReadStatusKeeps, SetErrorIdKeeps, SetHeaderKeeps, SendMsgKeeps
  DEF SendStep

(* Handle, and what the goroutines report to it.                           *)
LEMMA HandleKeeps ==
  ASSUME CallInv, HandleStep
  PROVE  CallInv'
<1> USE DEF CallInv, CallTypeOK, Collected, Stored, Answered
<1>1. ASSUME NEW f \in Flows, Report(f) PROVE CallInv'
  BY <1>1 DEF Report, Listening
<1>2. ASSUME NEW f \in Flows, Close(f) PROVE CallInv'
  BY <1>2 DEF Close, Listening
<1>3. ASSUME NEW f \in Flows, SeeClosed(f) PROVE CallInv'
  BY <1>3 DEF SeeClosed, Listening
<1>4. CASE HandleReturns
  BY <1>4 DEF HandleReturns
<1> QED
  BY <1>1, <1>2, <1>3, <1>4
  DEF HandleStep

(* Every step, also of those that the wrapped goroutines take alone.       *)
LEMMA CallGoesOn == CallInv /\ [CallNext]_callVars => CallInv'
<1> SUFFICES ASSUME CallInv, [CallNext]_callVars
             PROVE  CallInv'
  OBVIOUS
<1>1. CASE UNCHANGED callVars
  BY <1>1 DEF CallInv, CallTypeOK, Collected, Stored, Answered
<1> QED
  BY <1>1, ReceiveKeeps, SendKeeps, HandleKeeps DEF CallNext, CallHalted

(* So it always holds.                                                     *)
LEMMA CallAlways == CallSpec => []CallInv
<1>1. CallInit => CallInv
  BY CallBegins
<1> QED
  BY <1>1, CallGoesOn, PTL DEF CallSpec

(* The types of the variables; Handle counts no more than four events.     *)
THEOREM CallTypeCorrect == CallSpec => []CallTypeOK
<1>1. CallInv => CallTypeOK
  BY DEF CallInv
<1> QED
  BY <1>1, CallAlways, PTL

(* grpc.go:47-75.  The call succeeds only if the lambda function answered  *)
(* 200 and all of that was stored, and only when the one message of the    *)
(* answer has been sent, with the header for what metadata was read, and   *)
(* no goroutine of the call is left, in every order of the two goroutines. *)
THEOREM SuccessNotClaimedEarly == CallSpec => []SuccessIsReal
<1>1. CallInv => SuccessIsReal
  <2> SUFFICES ASSUME CallInv, callResult = "ok"
               PROVE  SuccessIsReal
    BY DEF SuccessIsReal
  <2>1. \A f \in Flows : pc[f] = "closed" /\ ~failed[f]
    BY DEF CallInv, Collected
  <2>2. /\ reply.status = "ok" /\ sent = 1 /\ lambdaResponse = "ok"
        /\ reply.metadata = TRUE => header = TRUE
    BY <2>1 DEF CallInv, Answered
  <2>3. responseBody = "whole" /\ outgoingMetadata = TRUE
    BY <2>1, <2>2 DEF CallInv, Stored
  <2> QED
    BY <2>1, <2>2, <2>3 DEF SuccessIsReal, CallInv, CallTypeOK
<1> QED
  BY <1>1, CallAlways, PTL

(* grpc.go:51-77.  Four events are enough.  A goroutine whose result is    *)
(* ready, or whose channel is closed and not yet seen to be, is listened   *)
(* to, unless Handle returned with an error: only then one is left behind. *)
LeftBehindByErrors ==
  \A f \in Flows :
    /\ At(f, "report") /\ ~Listening(f) => callResult = "error"
    /\ At(f, "closed") /\ f \in watched /\ ~Listening(f) => callResult = "error"

(* In no order of its two goroutines does a call leave one behind unless   *)
(* it returns an error.                                                    *)
THEOREM OnlyErrorsLeaveBehind == CallSpec => []LeftBehindByErrors
<1>1. CallInv => LeftBehindByErrors
  <2> SUFFICES ASSUME CallInv, NEW f \in Flows, ~Listening(f),
                      \/ pc[f] = "report"
                      \/ pc[f] = "closed" /\ f \in watched
               PROVE  callResult = "error"
    BY DEF LeftBehindByErrors
  <2>1. CASE handle = "flow"
    <3>1. f \in watched /\ events = EventsOf("receive") + EventsOf("send")
      BY <2>1 DEF CallInv, Collected
    <3>2. EventsOf(f) \in 0 .. 1 /\ \A g \in Flows : EventsOf(g) \in 0 .. 2
      BY <3>1
    <3>3. events < 4
      <4>1. CASE f = "receive"
        BY <3>1, <3>2, <4>1
      <4>2. CASE f = "send"
        BY <3>1, <3>2, <4>2
      <4> QED
        BY <4>1, <4>2
    <3> QED
      BY <2>1, <3>1, <3>3 DEF Listening
  <2>2. CASE handle # "flow"
    BY <2>2 DEF CallInv, CallTypeOK, Collected
  <2> QED
    BY <2>1, <2>2
<1> QED
  BY <1>1, CallAlways, PTL

-----------------------------------------------------------------------------
(* A call that is not answered 410 comes to its end.                       *)

(* How many steps a goroutine has to take at most.                         *)
Distance(point) ==
  CASE point \in {"recv", "response"} -> 8
    [] point \in {"invoke", "readMetadata"} -> 7
    [] point \in {"unmarshal", "readBody", "errorId"} -> 6
    [] point \in {"decode", "header"} -> 5
    [] point \in {"body", "message"} -> 4
    [] point = "metadata" -> 3
    [] point = "report" -> 2
    [] point = "close" -> 1
    [] point = "closed" -> 0

(* And with what Handle has still to do, and the panic that may come.      *)
StepsLeft ==
  Distance(pc["receive"]) + Distance(pc["send"])
    + (IF "receive" \in watched THEN 1 ELSE 0) + (IF "send" \in watched THEN 1 ELSE 0)
    + (IF handle = "flow" THEN 1 ELSE 0) + (IF panicked THEN 0 ELSE 1)

GetsCloser ==
  reply.status # "gone" => StepsLeft \in 1 .. 20 /\ StepsLeft' \in 0 .. StepsLeft - 1

(* All of it is bounded.                                                   *)
LEMMA DistanceBounds ==
  /\ \A point \in Points : Distance(point) \in 0 .. 8
  /\ CallTypeOK => /\ Distance(pc["receive"]) \in 0 .. 8 /\ Distance(pc["send"]) \in 0 .. 8
                   /\ StepsLeft \in 0 .. 20
  /\ CallTypeOK' => StepsLeft' \in 0 .. 20
<1>1. \A point \in Points : Distance(point) \in 0 .. 8
  BY DEF Distance
<1>2. /\ CallTypeOK => pc["receive"] \in Points /\ pc["send"] \in Points
      /\ CallTypeOK' => pc'["receive"] \in Points /\ pc'["send"] \in Points
  BY DEF CallTypeOK
<1> HIDE DEF Points
<1> QED
  BY <1>1, <1>2 DEF StepsLeft

(* A goroutine that goes ahead, whatever Handle does with its result.      *)
LEMMA GoesAhead ==
  ASSUME CallTypeOK, CallTypeOK', NEW f \in Flows, NEW point \in Points,
         Goto(f, point), Distance(point) < Distance(pc[f]),
         UNCHANGED <<watched, panicked>>, handle # "flow" => handle' = handle
  PROVE  GetsCloser
<1> DEFINE g == IF f = "send" THEN "receive" ELSE "send"
<1>1. /\ pc'[f] = point /\ pc'[g] = pc[g]
      /\ {f, g} = {"receive", "send"} /\ f # g
      /\ pc[f] \in Points /\ pc[g] \in Points
  BY DEF CallTypeOK
<1> HIDE DEF g, Points
<1>2. /\ Distance(pc[f]) \in 0 .. 8 /\ Distance(pc[g]) \in 0 .. 8
      /\ Distance(point) \in 0 .. 8
  BY <1>1, DistanceBounds
<1>3. StepsLeft \in 0 .. 20 /\ StepsLeft' \in 0 .. 20
  BY DistanceBounds
<1>4. StepsLeft' < StepsLeft
  <2>1. CASE f = "receive"
    BY <1>1, <1>2, <2>1 DEF StepsLeft, g
  <2>2. CASE f = "send"
    BY <1>1, <1>2, <2>2 DEF StepsLeft, g
  <2> QED
    BY <2>1, <2>2
<1> QED
  BY <1>3, <1>4 DEF GetsCloser

(* A panic is the last step.                                               *)
LEMMA PanicIsCloser ==
  ASSUME CallTypeOK, CallTypeOK', ~panicked, panicked' = TRUE,
         UNCHANGED <<handleVars, pc>>
  PROVE  GetsCloser
<1>1. StepsLeft \in 0 .. 20 /\ StepsLeft' \in 0 .. 20
  BY DistanceBounds
<1>2. Distance(pc["receive"]) \in Nat /\ Distance(pc["send"]) \in Nat
  BY DistanceBounds
<1>3. StepsLeft' < StepsLeft
  BY <1>2 DEF StepsLeft
<1> QED
  BY <1>1, <1>3 DEF GetsCloser

(* The flow that receives has no loop.                                     *)
LEMMA ReceiveAhead ==
  ASSUME CallInv, CallTypeOK', ~panicked,
         RecvMessage \/ (\E error \in BOOLEAN : RecvEnds(error)) \/ ReceiveStep
  PROVE  GetsCloser
<1>1. CASE InvokeFails
  BY <1>1, PanicIsCloser DEF InvokeFails, CallInv
<1>2. /\ Distance("recv") = 8 /\ Distance("invoke") = 7 /\ Distance("unmarshal") = 6
      /\ Distance("decode") = 5 /\ Distance("body") = 4 /\ Distance("metadata") = 3
      /\ Distance("report") = 2
  BY DEF Distance
<1>3. ASSUME ~InvokeFails
      PROVE  /\ UNCHANGED <<handle, watched, panicked>>
             /\ \E point \in Points : /\ Goto("receive", point)
                                     /\ Distance(point) < Distance(pc["receive"])
  BY <1>2, <1>3 DEF RecvMessage, RecvEnds, ReceiveStep, FunctionFails, InvokeReturns,
     Unmarshal, UnmarshalFails, DecodeFails, WriteBody, BodyWritten, RequestReturns
<1> QED
  BY <1>1, <1>3, GoesAhead DEF CallInv

(* To read the next answer after a message is no way ahead: this is 410.   *)
LEMMA SendAhead ==
  ASSUME CallInv, CallTypeOK', ~panicked, SendStep
  PROVE  GetsCloser
<1>1. CASE ReadStatusNil \/ SetErrorIdNil \/ SendTornBody
  BY <1>1, PanicIsCloser
  DEF ReadStatusNil, SetErrorIdNil, SendTornBody, CallInv
<1>2. /\ Distance("response") = 8 /\ Distance("readMetadata") = 7
      /\ Distance("readBody") = 6 /\ Distance("errorId") = 6 /\ Distance("header") = 5
      /\ Distance("message") = 4 /\ Distance("report") = 2
  BY DEF Distance
<1>3. ASSUME reply.status # "gone", ~(ReadStatusNil \/ SetErrorIdNil \/ SendTornBody)
      PROVE  /\ UNCHANGED <<handle, watched, panicked>>
             /\ \E point \in Points : /\ Goto("send", point)
                                     /\ Distance(point) < Distance(pc["send"])
  BY <1>2, <1>3 DEF SendStep, ReadStatus, ReadMetadata, ReadBody, SetErrorId,
     SetHeaderFails, SetHeader, SendMsgFails, SendMsg
<1> QED
  BY <1>1, <1>3, GoesAhead DEF CallInv, GetsCloser

(* Results are reported and taken, channels closed and seen to be, once.   *)
LEMMA HandleAhead ==
  ASSUME CallInv, CallTypeOK', ~panicked, HandleStep, ~UNCHANGED callVars
  PROVE  GetsCloser
<1>1. Distance("report") = 2 /\ Distance("close") = 1 /\ Distance("closed") = 0
  BY DEF Distance
<1>2. ASSUME NEW f \in Flows, Report(f) \/ Close(f)
      PROVE  GetsCloser
  <2>1. /\ UNCHANGED <<watched, panicked>>
        /\ handle # "flow" => handle' = handle
    BY <1>2 DEF Report, Close, Listening
  <2>2. PICK point \in Points : Goto(f, point) /\ Distance(point) < Distance(pc[f])
    BY <1>1, <1>2 DEF Report, Close
  <2> QED
    BY <2>1, <2>2, GoesAhead DEF CallInv
<1>3. StepsLeft \in 0 .. 20 /\ StepsLeft' \in 0 .. 20
  BY DistanceBounds DEF CallInv
<1>4. /\ Distance(pc["receive"]) \in Nat /\ Distance(pc["send"]) \in Nat
  BY DistanceBounds DEF CallInv
<1>5. ASSUME NEW f \in Flows, SeeClosed(f)
      PROVE  StepsLeft' < StepsLeft
  <2>1. f \in watched /\ watched' = watched \ {f} /\ UNCHANGED <<handle, pc, panicked>>
    BY <1>5 DEF SeeClosed, Listening
  <2> QED
    BY <1>4, <2>1 DEF StepsLeft
<1>6. CASE HandleReturns
  <2>1. handle = "flow" /\ handle' = "returned" /\ UNCHANGED <<watched, pc, panicked>>
    BY <1>6 DEF HandleReturns
  <2>2. StepsLeft' < StepsLeft
    BY <1>4, <2>1 DEF StepsLeft
  <2> QED
    BY <1>3, <2>2 DEF GetsCloser
<1> QED
  BY <1>2, <1>3, <1>5, <1>6 DEF HandleStep, GetsCloser

(* grpc.go:33-185, grpc_backend.go:95-198.  Every step of a call takes it  *)
(* closer to its end, in every order of its two goroutines, as long as it  *)
(* is not answered 410: it has at most 20, so that no loop in it goes on.  *)
THEOREM CallsAreShort == CallSpec => [][GetsCloser]_callVars
<1>1. CallInv /\ [CallNext]_callVars => [GetsCloser]_callVars
  <2> SUFFICES ASSUME CallInv, CallNext, ~UNCHANGED callVars
               PROVE  GetsCloser
    OBVIOUS
  <2>1. CallTypeOK'
    BY CallGoesOn DEF CallInv
  <2> QED
    BY <2>1, ReceiveAhead, SendAhead, HandleAhead DEF CallNext, CallHalted
<1> QED
  BY <1>1, CallAlways, PTL DEF CallSpec
=============================================================================
