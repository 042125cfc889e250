----------------------------- MODULE MCScheduler -----------------------------
(* Instances of Scheduler for TLC.  Sources are told apart by the source a *)
(* hook starts with, so only processes are interchangeable.                *)
EXTENDS Scheduler, TLC

Symmetry == Permutations(Hook) \cup Permutations(Child) \cup Permutations(Manual)

=============================================================================
