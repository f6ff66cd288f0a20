--------------------------- MODULE MCStateManager ---------------------------
(* Either command, with two managers, and one goroutine more than that, so *)
(* that a round that began too early would show.                           *)
EXTENDS StateManager

CONSTANTS g1, g2, g3
MCGoroutines == {g1, g2, g3}
=============================================================================
