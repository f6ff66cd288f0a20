----------------------------- MODULE Lifecycle -----------------------------
(***************************************************************************)
(* What a server process promises to those who run it and to those who     *)
(* call it: it stops because it was asked to or failed to start, takes no  *)
(* new requests once it drains, and does not come to the end of a shutdown *)
(* with requests in flight before the deadline.  A crash is never ruled    *)
(* out.  There are no goroutines, channels or protocols.                   *)
(***************************************************************************)
EXTENDS Naturals

VARIABLES
  phase,     \* "starting", "serving", "draining", "down" or "crashed"
  asked,     \* it was asked to stop
  inFlight,  \* the number of requests in flight
  overdue    \* the deadline for those in flight has passed

vars == <<phase, asked, inFlight, overdue>>

Init == phase = "starting" /\ asked = FALSE /\ inFlight = 0 /\ overdue = FALSE

Ask ==
  /\ asked' = TRUE
  /\ UNCHANGED <<phase, inFlight, overdue>>

Serve ==
  /\ phase = "starting" /\ phase' = "serving"
  /\ UNCHANGED <<asked, inFlight, overdue>>

FailToStart ==
  /\ phase = "starting" /\ phase' = "down"
  /\ UNCHANGED <<asked, inFlight, overdue>>

Accept ==
  /\ phase = "serving" /\ inFlight' = inFlight + 1
  /\ UNCHANGED <<phase, asked, overdue>>

Finish ==
  /\ phase \in {"serving", "draining"} /\ inFlight > 0
  /\ inFlight' = inFlight - 1
  /\ UNCHANGED <<phase, asked, overdue>>

Drain ==
  /\ phase = "serving" /\ asked
  /\ phase' = "draining"
  /\ UNCHANGED <<asked, inFlight, overdue>>

Deadline ==
  /\ phase = "draining" /\ inFlight > 0
  /\ overdue' = TRUE
  /\ UNCHANGED <<phase, asked, inFlight>>

(* Also at the very deadline, with an error.                               *)
Stop ==
  /\ phase = "draining" /\ phase' = "down"
  /\ inFlight > 0 => overdue'
  /\ overdue => overdue'
  /\ UNCHANGED <<asked, inFlight>>

Crash ==
  /\ phase # "down" /\ phase' = "crashed"
  /\ UNCHANGED <<asked, inFlight, overdue>>

Next ==
  Ask \/ Serve \/ FailToStart \/ Accept \/ Finish \/ Drain \/ Deadline \/ Stop \/ Crash

Spec == Init /\ [][Next]_vars
=============================================================================
