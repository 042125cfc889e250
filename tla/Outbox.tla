------------------------------- MODULE Outbox -------------------------------
(***************************************************************************)
(* What the delivery of usage promises, whatever is lost, repeated or      *)
(* interrupted on the way.  The collections of a source are numbered in    *)
(* the order they were made.  What the server shows of a source only ever  *)
(* moves on to later collections, and a collector error it shows is later  *)
(* than the usage it shows.                                                *)
(***************************************************************************)
EXTENDS Naturals

CONSTANT Source

VARIABLES
  made,     \* collections of each source so far
  shown,    \* the collection whose usage the server shows, 0: none
  failing   \* the failed collection the server reports, 0: none

vars == <<made, shown, failing>>

Init ==
  /\ made = [s \in Source |-> 0]
  /\ shown = [s \in Source |-> 0]
  /\ failing = [s \in Source |-> 0]

(* A batch: every source moves on, reports an error, or stays as it was.   *)
Shows(s) ==
  /\ shown'[s] \in shown[s] .. made[s]
  /\ \/ failing'[s] = 0
     \/ failing'[s] = failing[s] /\ shown'[s] = shown[s]
     \/ failing'[s] \in (shown[s] + 1) .. made[s] /\ shown'[s] = shown[s]

Deliver ==
  /\ shown' \in [Source -> Nat] /\ failing' \in [Source -> Nat]
  /\ \A s \in Source : Shows(s)
  /\ UNCHANGED made

Collect ==
  /\ made' \in [Source -> Nat]
  /\ \A s \in Source : made'[s] \in {made[s], made[s] + 1}
  /\ UNCHANGED <<shown, failing>>

Next == Deliver \/ Collect

Spec == Init /\ [][Next]_vars

=============================================================================
