------------------------- MODULE MCSchedulerParts -------------------------
(***************************************************************************)
(* Four instances of Scheduler in one run, told apart by what may go       *)
(* wrong and by the processes that take part; a behaviour stays in the     *)
(* part it starts in.                                                      *)
(*   "ledger"     two hooks race with syncs that fail, without lifecycle   *)
(*                commands;                                                *)
(*   "lifecycle"  a lifecycle command and a revoked authorization;         *)
(*   "crash"      any process may die, a spawn or a handshake may fail;    *)
(*   "cleanup"    crashes together with the lifecycle command.             *)
(***************************************************************************)
EXTENDS Scheduler, TLC

CONSTANTS h2, l1  \* the second hook, the lifecycle command

ASSUME PartsAssumption == h2 \in Hook /\ Life = {l1}

VARIABLE part

Ledger == INSTANCE Scheduler
  WITH Faults <- {"network", "collector", "lockTimeout"}, MaxEvents <- 2, MaxManual <- 1
Lifecycle == INSTANCE Scheduler
  WITH Faults <- {"network", "revoked"}, MaxEvents <- 2, MaxManual <- 1
Crashes == INSTANCE Scheduler
  WITH Faults <- {"crash", "spawn", "handshake"}, MaxEvents <- 2, MaxManual <- 1
Cleanup == INSTANCE Scheduler
  WITH Faults <- {"network", "revoked", "crash"}, MaxEvents <- 1, MaxManual <- 2

partVars == <<part, vars>>

PartsInit == part \in {"ledger", "lifecycle", "crash", "cleanup"} /\ Init

PartsNext ==
  /\ part' = part
  /\ \/ part = "ledger" /\ Ledger!Next /\ pc'[l1] = "off"
     \/ part = "lifecycle" /\ Lifecycle!Next /\ pc'[h2] = "off"
     \/ part = "crash" /\ Crashes!Next /\ pc'[h2] = "off" /\ pc'[l1] = "off"
     \/ part = "cleanup" /\ Cleanup!Next /\ pc'[h2] = "off"

PartsSpec == PartsInit /\ [][PartsNext]_partVars

Symmetry == Permutations(Child)

=============================================================================
