------------------------------ MODULE MCRouter ------------------------------
(* Three names, in every tree they can form and in every order of a list.  *)
(* The last name is no parent: two levels below a route show as much.      *)
EXTENDS Router, TLC

CONSTANTS a, b, c, getA, postA, callA, none

MCRequests == {getA, postA, callA}
MCGrpcCalls == {callA}

Prefix == [kind |-> "pattern", accepts |-> {getA, callA}]
Methods == [kind |-> "list", accepts |-> {getA, postA}]
Headers == [kind |-> "pairs", accepts |-> {getA}]
IsGrpc == [kind |-> "grpc", accepts |-> {callA}]

MCRoutes ==
  [name : {a, b, c}, parent : {a, b, none},
   matchers : {{}, {Prefix}, {Methods}, {Headers}, {Prefix, IsGrpc}},
   handler : {"none", "lambda"}]
  \union
  [name : {c}, parent : {a, none}, matchers : {{}}, handler : {"empty"}]
=============================================================================
