-------------------------- MODULE ServiceDiscovery --------------------------
(***************************************************************************)
(* The control of src/pkg/providers/aws/service_discovery/xds.go, one      *)
(* goroutine that lists and flushes in turns, and of the goroutine of      *)
(* src/cmd/xds.go that receives its only error.  The assignments that sync *)
(* makes are dropped there, so that no data passes from the lists to the   *)
(* flush: XdsState has the call that flush makes.  Pages are left out.     *)
(***************************************************************************)
VARIABLES
  discovery,  \* control point of periodicSync; "none" without namespaces
  alarm,      \* control point of the receiver of its error
  cancelled   \* the context of the command is cancelled

(* NewXds and Start, after the receiver was started.                       *)
Start ==
  /\ discovery' = "namespaces"
  /\ alarm' = "listening"

Listing == {"namespaces", "services", "instances"}

ListNamespaces ==
  /\ discovery = "namespaces"
  /\ discovery' = "services"

(* With the tags of each service.                                          *)
ListServices ==
  /\ discovery = "services"
  /\ discovery' = "instances"

(* Of the services that have a tag for the port.                           *)
ListInstances ==
  /\ discovery = "instances"
  /\ discovery' = "flush"

(* Any request fails, of the context too, or the port is no number.        *)
SyncFails ==
  /\ discovery \in Listing
  /\ discovery' = "failed"

(* SetClusterEndpoints waits for the lock of the xDS state.                *)
Flush ==
  /\ discovery = "flush"
  /\ discovery' = "wait"

TimerFires ==
  /\ discovery = "wait"
  /\ discovery' = "namespaces"

(* The cancellation is sent as an error.                                   *)
Cancelled ==
  /\ discovery = "wait" /\ cancelled
  /\ discovery' = "failed"

(* errCh is unbuffered, and received from once.                            *)
SendError ==
  /\ discovery = "failed" /\ alarm = "listening"
  /\ discovery' = "ended"
  /\ alarm' = "kill"

Sync ==
  /\ ListNamespaces \/ ListServices \/ ListInstances \/ SyncFails
     \/ Flush \/ TimerFires \/ Cancelled
  /\ UNCHANGED alarm

TypeOK ==
  /\ discovery \in Listing \union {"none", "flush", "wait", "failed", "ended"}
  /\ alarm \in {"none", "listening", "kill", "left"}
=============================================================================
