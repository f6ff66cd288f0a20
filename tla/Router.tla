------------------------------- MODULE Router -------------------------------
(***************************************************************************)
(* One router of src/pkg/server/router.go: it is built from a list of      *)
(* routes, as WithRouterConfig of builder.go does, and then a request is   *)
(* dispatched to the backend of a route.  HttpBackend answers it, or the   *)
(* gRPC backend, for which see GrpcHandler.  A router does not change once *)
(* it is built, so that one request at a time shows all there is to see.   *)
(*                                                                         *)
(* The matching itself is that of gorilla/mux, modelled from what the code *)
(* asks of it.  What a rule says is a set of requests, for a rule on paths *)
(* that of the whole path below the parents.  Requests with a query of an  *)
(* empty name, and paths that mux redirects first, are left out.           *)
(***************************************************************************)
EXTENDS Naturals, Sequences, FiniteSetsExt

CONSTANTS
  Routes,     \* the routes that a list may have
  NoName,     \* the name of no parent
  Requests,
  GrpcCalls,  \* those by HTTP/2 with the content type of gRPC
  MaxRoutes   \* bound on the routes of a list

RuleKinds == {"pattern", "list", "pairs", "grpc"}
Rule == [kind : RuleKinds, accepts : SUBSET Requests]

ASSUME RouterAssumption ==
  /\ \A route \in Routes :
       /\ DOMAIN route = {"name", "parent", "matchers", "handler"}
       /\ route.name # NoName
       /\ route.matchers \subseteq Rule
       /\ \A rule \in route.matchers : rule.kind = "grpc" => rule.accepts = GrpcCalls
       /\ route.handler \in {"none", "empty", "lambda"}
  /\ GrpcCalls \subseteq Requests
  /\ MaxRoutes \in Nat

VARIABLES
  mux,      \* the routes made so far, in the order of their making
  build,    \* "parse", "panicked" or "ready"
  request,  \* the requests dispatched, one at most
  chosen,   \* the route whose backend has it; 0 for none
  at, result, status, headers, body  \* those of HttpBackend

Backend == INSTANCE HttpBackend

backendVars == <<at, result, status, headers, body>>
vars == <<mux, build, request, chosen, backendVars>>

Init ==
  /\ mux = <<>> /\ build = "parse"
  /\ request = {} /\ chosen = 0
  /\ Backend!Init

-----------------------------------------------------------------------------
(* The build                                                               *)

Named(name) == {i \in DOMAIN mux : mux[i].name = name}

(* A call to gRPC is a matcher like others, and decides on the backend.    *)
IsGrpcCall(route) == \E rule \in route.matchers : rule.kind = "grpc"

BackendOf(route) ==
  IF route.handler = "none" THEN "none"
  ELSE IF IsGrpcCall(route) THEN "grpc" ELSE "http"

(* line has the route itself and those it was made below of.               *)
NewRoute(route, above) ==
  Append(mux, [name |-> route.name, parent |-> route.parent,
               rules |-> route.matchers, backend |-> BackendOf(route),
               line |-> above \union {Len(mux) + 1}])

(* Variant: a child is made beside its parent.                             *)
ParseBeside(route) ==
  /\ build = "parse" /\ Len(mux) < MaxRoutes /\ Named(route.name) = {}
  /\ route.parent = NoName \/ Named(route.parent) # {}
  /\ route.handler # "empty"
  /\ mux' = NewRoute(route, {})
  /\ UNCHANGED <<build, request, chosen, backendVars>>

(* Variant: a parent that has not been made is ignored.                    *)
ParseOrphan(route) ==
  /\ build = "parse" /\ Len(mux) < MaxRoutes /\ Named(route.name) = {}
  /\ route.handler # "empty"
  /\ mux' = NewRoute(route, UNION {mux[i].line : i \in Named(route.parent)})
  /\ UNCHANGED <<build, request, chosen, backendVars>>

ParseRoute(route) ==
  /\ build = "parse" /\ Len(mux) < MaxRoutes /\ Named(route.name) = {}
  /\ route.handler # "empty"
  /\ \/ route.parent = NoName /\ mux' = NewRoute(route, {})
     \/ \E i \in Named(route.parent) : mux' = NewRoute(route, mux[i].line)
  /\ UNCHANGED <<build, request, chosen, backendVars>>

(* The mux has no route of the parent's name yet: a nil pointer.           *)
NoParentYet(route) == route.parent # NoName /\ Named(route.parent) = {}

(* A handler without a backend goes to the provider of AWS too, which      *)
(* panics.                                                                 *)
ParsePanics(route) ==
  /\ build = "parse" /\ Len(mux) < MaxRoutes /\ Named(route.name) = {}
  /\ NoParentYet(route) \/ route.handler = "empty"
  /\ build' = "panicked"
  /\ UNCHANGED <<mux, request, chosen, backendVars>>

(* The list is at its end, and the router is swapped in.                   *)
Built ==
  /\ build = "parse" /\ mux # <<>>
  /\ build' = "ready"
  /\ UNCHANGED <<mux, request, chosen, backendVars>>

-----------------------------------------------------------------------------
(* What mux makes of it                                                    *)

(* Variant: the names of methods and schemes are appended to a slice that  *)
(* has the empty names already, as the code does it for pairs.             *)
AcceptedUnlessListed(rule) ==
  CASE rule.kind \in {"pairs", "list"} -> {}
    [] rule.kind = "grpc" -> GrpcCalls
    [] OTHER -> rule.accepts

(* Headers, their regular expressions and queries are appended to a slice  *)
(* of as many empty strings: an odd number of them is an error of the      *)
(* route, an even one are pairs that no request has.                       *)
Accepted(rule) ==
  CASE rule.kind = "pairs" -> {}
    [] rule.kind = "grpc" -> GrpcCalls
    [] OTHER -> rule.accepts

(* A route has the matchers of those above it.                             *)
Fits(i, req) ==
  \A k \in mux[i].line : \A rule \in mux[k].rules : req \in Accepted(rule)

(* Each child makes a router of its own below the parent, as a matcher of  *)
(* the parent: what the parent matches has to match every child.           *)
Tree(i) == {j \in DOMAIN mux : i \in mux[j].line}
Matches(i, req) == \A j \in Tree(i) : Fits(j, req)

Tops == {i \in DOMAIN mux : mux[i].line = {i}}
Handled == {i \in DOMAIN mux : mux[i].backend # "none"}

(* Children are matched before their parent's handler is considered, and   *)
(* earlier children before later ones.                                     *)
Before(i, j) ==
  \/ j \in mux[i].line
  \/ /\ i \notin mux[j].line
     /\ Min(mux[i].line \ mux[j].line) < Min(mux[j].line \ mux[i].line)
FirstHandled(i) ==
  {j \in Tree(i) \intersect Handled :
     \A k \in (Tree(i) \intersect Handled) \ {j} : Before(j, k)}

(* A child that matched leaves its handler behind when its parent does not *)
(* match after all, and a later route has that one or its own, depending   *)
(* on whether it was for a method.                                         *)
LeftBehind(i, req) ==
  {j \in Handled : Matches(j, req) /\ \E t \in Tops : t < i /\ t \in mux[j].line}

Matching(req) == {i \in Tops : Matches(i, req)}

Candidates(req) ==
  IF Matching(req) = {} THEN {}
  ELSE FirstHandled(Min(Matching(req))) \union LeftBehind(Min(Matching(req)), req)

NotFound(req) ==
  Matching(req) # {} => FirstHandled(Min(Matching(req))) = {}

-----------------------------------------------------------------------------
(* A request                                                               *)

ServeHTTP(req) ==
  /\ build = "ready" /\ request = {}
  /\ request' = {req}
  /\ chosen' \in Candidates(req)
  /\ IF mux[chosen'].backend = "http"
       THEN Backend!Begin
       ELSE UNCHANGED backendVars
  /\ UNCHANGED <<mux, build>>

ServeNotFound(req) ==
  /\ build = "ready" /\ request = {}
  /\ NotFound(req)
  /\ request' = {req}
  /\ UNCHANGED <<mux, build, chosen, backendVars>>

BackendStep == Backend!Step /\ UNCHANGED <<mux, build, request, chosen>>

(* The request was answered, or the gRPC handler has it; or none was built *)
Halted ==
  /\ build = "panicked" \/ (request # {} /\ at \in {"idle", "answered", "aborted"})
  /\ UNCHANGED vars

Next ==
  \/ \E route \in Routes : ParseRoute(route) \/ ParsePanics(route)
  \/ Built
  \/ \E req \in Requests : ServeHTTP(req) \/ ServeNotFound(req)
  \/ BackendStep
  \/ Halted

Spec == Init /\ [][Next]_vars

-----------------------------------------------------------------------------
(* The types of the variables, and that a route was made after those above *)
(* it.                                                                     *)
TypeOK ==
  /\ \A i \in DOMAIN mux :
       /\ mux[i].rules \subseteq Rule
       /\ mux[i].backend \in {"none", "http", "grpc"}
       /\ mux[i].line \subseteq 1 .. i /\ i \in mux[i].line
       /\ mux[i].parent = NoName <=> mux[i].line = {i}
  /\ build \in {"parse", "panicked", "ready"}
  /\ request \subseteq Requests
  /\ chosen \in 0 .. Len(mux)
  /\ Backend!TypeOK

(* The routes above i and itself, by the names that the list gives.        *)
Above(i) ==
  {k \in DOMAIN mux :
     \A S \in SUBSET DOMAIN mux :
       (i \in S /\ \A j \in S : Named(mux[j].parent) \subseteq S) => k \in S}

(* What the list says that the handler of i is for.                        *)
MeantFor(i) ==
  {req \in Requests : \A k \in Above(i) : \A rule \in mux[k].rules : req \in rule.accepts}

(* router.go:31-178.  A backend has only requests that all the rules on    *)
(* its route and on its parents accept, however routes are nested and in   *)
(* whatever order they match, and a gRPC backend only gRPC calls.          *)
SoundDispatch ==
  chosen # 0 =>
    /\ request \subseteq MeantFor(chosen)
    /\ mux[chosen].backend = "grpc" => request \subseteq GrpcCalls

(* The router does what its list says for a route with no pairs to match,  *)
(* with no other route below its parents, nor any below itself.            *)
Plain(i) ==
  /\ \A j \in DOMAIN mux : Above(i) \intersect Above(j) # {} => j \in Above(i)
  /\ \A k \in Above(i) : \A rule \in mux[k].rules : rule.kind # "pairs"

(* router.go:43-164.  For such a route with a handler no request that it   *)
(* is meant for is not found, unless another takes it that has no handler, *)
(* nor has any below it.                                                   *)
CompleteDispatch ==
  request # {} /\ chosen = 0 =>
    \A i \in Handled :
      Plain(i) /\ request \subseteq MeantFor(i) =>
        \E k \in Tops : FirstHandled(k) = {} /\ request \subseteq MeantFor(k)

(* http_backend.go:44-122, see HttpBackend; and the function that speaks   *)
(* is that of a route with an HTTP backend.                                *)
RealAnswer ==
  /\ Backend!RealAnswer
  /\ result # "none" => chosen \in Handled /\ mux[chosen].backend = "http"
=============================================================================
