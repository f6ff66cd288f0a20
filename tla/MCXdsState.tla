----------------------------- MODULE MCXdsState -----------------------------
(* A small instance of XdsState: two names, two versions of a cluster.     *)
EXTENDS XdsState

CONSTANTS a, b,        \* names
          c1, c2,      \* two versions of a cluster
          ra, rb,      \* content that routes to a, and to b
          e1           \* endpoints

MCNames == {a, b}
MCVals == {c1, c2, ra, rb, e1, NoEndpoints}
MCRefs == [v \in MCVals |-> CASE v = ra -> {a} [] v = rb -> {b} [] OTHER -> {}]

Res(k, n, v) == [kind |-> k, name |-> n, val |-> v]

(* What a sync may read: nothing (the poll found no change), a route to a  *)
(* with its cluster assignment, its replacement by a route to b with a new *)
(* version of a, a virtual host and a listener, and a malformed state.     *)
MCInputs ==
  { <<>>,
    << Res("cluster", a, c1), Res("routeConfiguration", a, ra),
       Res("clusterLoadAssignment", a, NoEndpoints) >>,
    << Res("routeConfiguration", a, rb), Res("cluster", b, c1),
       Res("cluster", a, c1), Res("cluster", a, c2) >>,
    << Res("virtualHost", b, rb), Res("cluster", b, c1),
       Res("listener", a, rb), Res("clusterLoadAssignment", b, e1) >>,
    << Res("cluster", a, c1), Res("cluster", b, Malformed) >> }

ASSUME MCSelfContained == \A input \in MCInputs : SelfContained(input)

Ass(c, e) == [cluster |-> c, endpoints |-> e]

MCDiscoveries ==
  { <<>>, << Ass(a, e1) >>, << Ass(a, NoEndpoints), Ass(b, e1) >> }
=============================================================================
