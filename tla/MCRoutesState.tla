--------------------------- MODULE MCRoutesState ---------------------------
(* Two routes: a tree, a cycle, a route that is its own parent, one route  *)
(* alone and another beside one whose parent c is not there, nothing (the  *)
(* poll found no change), and a malformed route.                           *)
EXTENDS RoutesState

CONSTANTS a, b, c
MCNames == {a, b, c}

Route(n, p) == [name |-> n, parent |-> p]

MCInputs ==
  { <<>>,
    << Route(a, NoParent), Route(b, a) >>,
    << Route(a, b), Route(b, a) >>,
    << Route(a, NoParent) >>,
    << Route(b, NoParent), Route(a, c) >>,
    << Route(b, NoParent), Route(a, a) >>,
    << Route(a, NoParent), Malformed >> }
=============================================================================
