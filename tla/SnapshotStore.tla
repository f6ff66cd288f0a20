--------------------------- MODULE SnapshotStore ---------------------------
(***************************************************************************)
(* What the xDS state of cruiser promises to the Envoy proxies that read   *)
(* its caches, with nothing said about how it is done.                     *)
(*                                                                         *)
(* There is one published table per resource kind.  A round takes one      *)
(* snapshot of the desired configuration and replaces the tables one by    *)
(* one, whole, in the publication order: a table never mixes entries of    *)
(* two snapshots, and no kind is published before those that precede it.   *)
(* The store may give up for good, before a round or after any replacement *)
(* of one, and then nothing changes any more.                              *)
(***************************************************************************)
EXTENDS Naturals, Sequences

CONSTANTS Order,      \* the publication order: a sequence of resource kinds
          Table,      \* the set of tables a kind may have
          EmptyTable  \* the table of a kind nothing was published for

VARIABLES published, \* published[k]: the table that readers of kind k see
          snapshot,  \* snapshot[k]: the table of kind k in the current round
          turn       \* position in Order of the next kind to replace

storeVars == <<published, snapshot, turn>>

OrderedKinds == {Order[i] : i \in DOMAIN Order}

(* The values of turn that are not a position in Order.                    *)
NoRound == 0
AllReplaced == Len(Order) + 1
GivenUp == Len(Order) + 2

Init ==
  /\ published = [k \in OrderedKinds |-> EmptyTable]
  /\ snapshot = published
  /\ turn = NoRound

(* A round begins with any snapshot.                                       *)
Begin ==
  /\ turn = NoRound
  /\ snapshot' \in [OrderedKinds -> Table]
  /\ turn' = 1
  /\ UNCHANGED published

(* The next kind's table becomes the snapshot's.                           *)
ReplaceNext ==
  /\ turn \in DOMAIN Order
  /\ published' = [published EXCEPT ![Order[turn]] = snapshot[Order[turn]]]

Replace ==
  /\ ReplaceNext
  /\ turn' = turn + 1
  /\ UNCHANGED snapshot

ReplaceAndGiveUp ==
  /\ ReplaceNext
  /\ turn' = GivenUp
  /\ snapshot' = published'

(* A round ends with the whole snapshot published.                         *)
End ==
  /\ turn = AllReplaced
  /\ published = snapshot
  /\ turn' = NoRound
  /\ UNCHANGED <<published, snapshot>>

GiveUp ==
  /\ turn = NoRound
  /\ turn' = GivenUp
  /\ UNCHANGED <<published, snapshot>>

Next == Begin \/ Replace \/ ReplaceAndGiveUp \/ End \/ GiveUp

Spec == Init /\ [][Next]_storeVars
=============================================================================
