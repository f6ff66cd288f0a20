------------------------- MODULE MCDependencyGraph -------------------------
(* A small instance of DependencyGraph: three nodes, one of which comes in *)
(* two versions.                                                           *)
EXTENDS DependencyGraph

CONSTANTS x, y, z,     \* keys
          xv, xw, yv, zv  \* values: xv and xw have the same key

MCKeys == {x, y, z}
MCVals == {xv, xw, yv, zv}
MCKeyOf == [v \in MCVals |-> CASE v = yv -> y [] v = zv -> z [] OTHER -> x]
=============================================================================
