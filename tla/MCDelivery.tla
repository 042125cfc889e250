----------------------------- MODULE MCDelivery -----------------------------
(* Instances of Delivery for TLC. *)
EXTENDS Delivery, TLC

Symmetry == Permutations(Source)

(* Every fault but the final compaction, which a run of its own is about. *)
FaultsSpec == Init /\ [][Next /\ UNCHANGED compact]_vars

=============================================================================
