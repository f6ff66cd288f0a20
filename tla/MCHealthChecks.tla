--------------------------- MODULE MCHealthChecks ---------------------------
(* Three calls of up to three handlers, and room for two in the channel:   *)
(* the third waits for a worker.                                           *)
EXTENDS HealthChecks
=============================================================================
