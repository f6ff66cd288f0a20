--------------------------- MODULE MCGrpcHandler ---------------------------
(* One call: there is at most one invocation in it, and one answer.        *)
EXTENDS GrpcHandler
=============================================================================
