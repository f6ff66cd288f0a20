----------------------------- MODULE MCProcess -----------------------------
(* Three routers, so that a handler may fall two behind, and two requests. *)
EXTENDS Process
=============================================================================
