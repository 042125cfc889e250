--------------------------- MODULE Scheduler_proofs ---------------------------
(***************************************************************************)
(* Proofs about Scheduler: its type invariant, that the generation ledger  *)
(* loses no event when a sync is its rolling range alone, that nothing is  *)
(* persisted after a disconnect, that a disconnect leaves no mark behind,  *)
(* and that a generation is attempted once.                                *)
(***************************************************************************)
EXTENDS Scheduler, TLAPS

(* A launcher that awaits a handshake has used up an attempt at most.      *)
TriesLeft == \A p \in Launcher : pc[p] = "handshake" => tries[p] > 0

TInv == TypeOK /\ TriesLeft

USE DEF Gen, Launcher, Syncer, Proc

(* The initial state is well typed. *)
LEMMA TypeInit ==
  ASSUME Init
  PROVE  TInv
<1> USE ConstantsAssumption DEF Init, Nothing
<1>1. (CHOOSE s \in Source : TRUE) \in Source
  OBVIOUS
<1>2. ControlOK
  BY <1>1 DEF ControlOK, PCs
<1>3. LocksOK
  BY DEF LocksOK
<1>4. LedgerOK
  BY DEF LedgerOK
<1>5. BatchOK
  BY DEF BatchOK
<1>6. TriesLeft
  BY DEF TriesLeft
<1> QED
  BY <1>2, <1>3, <1>4, <1>5, <1>6 DEF TInv, TypeOK

(* Clearing and merging generations yields generations. *)
LEMMA LedgerTypes ==
  ASSUME NEW f \in [Source -> Nat], NEW g \in [Source -> Nat]
  PROVE  /\ Cleared(f, g) \in [Source -> Nat]
         /\ Later(f, g) \in [Source -> Nat]
         /\ Nothing \in [Source -> Nat]
BY DEF Cleared, Later, Nothing

(* A sync that throws leaves the types alone. *)
LEMMA FailedTypes ==
  ASSUME TypeOK, NEW p \in Syncer, NEW from, Failed(p, from)
  PROVE  TypeOK'
<1> USE ConstantsAssumption DEF TypeOK, ControlOK, LocksOK, LedgerOK, BatchOK,
        PCs, Goto, locks, ledger, mode, launching, batch, syncing
<1>1. p \in Child => att[p] \in [Source -> Nat]
  OBVIOUS
<1>2. LedgerOK'
  BY <1>1, LedgerTypes DEF Failed
<1>3. (ControlOK /\ LocksOK /\ BatchOK)'
  BY DEF Failed
<1> QED
  BY <1>2, <1>3

(* Every step keeps the types. *)
LEMMA TypeStep ==
  ASSUME TInv, [Next]_vars
  PROVE  TypeOK'
<1> USE ConstantsAssumption DEF TInv, TypeOK, ControlOK, LocksOK, LedgerOK, BatchOK,
        PCs, TriesLeft, Goto, locks, ledger, mode, launching, batch, syncing
<1>0. CASE UNCHANGED vars
  BY <1>0 DEF vars
<1>1. ASSUME NEW h \in Hook, Event(h) \/ HookStep(h) PROVE TypeOK'
  <2>1. CASE Event(h)
    <3>1. ControlOK'  BY <2>1 DEF Event
    <3>2. (LocksOK /\ LedgerOK /\ BatchOK)'  BY <2>1 DEF Event
    <3> QED  BY <3>1, <3>2
  <2>2. CASE Check(h)
    <3>1. ControlOK'  BY <2>2 DEF Check
    <3>2. (LocksOK /\ LedgerOK /\ BatchOK)'  BY <2>2 DEF Check
    <3> QED  BY <3>1, <3>2
  <2>3. CASE Mark(h)
    <3>1. ControlOK'  BY <2>3 DEF Mark
    <3>2. LedgerOK'
      <4>1. need' \in [Source -> Nat]  BY <2>3 DEF Mark
      <4> QED  BY <2>3, <4>1 DEF Mark
    <3>3. (LocksOK /\ BatchOK)'  BY <2>3 DEF Mark
    <3> QED  BY <3>1, <3>2, <3>3
  <2> QED  BY <1>1, <2>1, <2>2, <2>3 DEF HookStep
<1>2. ASSUME NEW p \in Launcher, LaunchStep(p) PROVE TypeOK'
  <2>1. CASE Claim(p)
    <3>1. CASE Goto(p, "claim", "spawn") /\ launchLock' = p /\ tries' = [tries EXCEPT ![p] = 3]
      BY <2>1, <3>1 DEF Claim
    <3>2. CASE Goto(p, "claim", "off") /\ UNCHANGED <<launchLock, tries>>
      BY <2>1, <3>2 DEF Claim
    <3> QED  BY <2>1, <3>1, <3>2 DEF Claim
  <2>2. CASE Spawn(p)
    <3>1. ControlOK'
      <4>1. PICK c \in Child :
              /\ pc' = [pc EXCEPT ![p] = "handshake", ![c] = "start"]
              /\ child' = [child EXCEPT ![p] = c]
              /\ said' = [said EXCEPT ![c] = "nothing"]
        BY <2>2 DEF Spawn
      <4>2. pc' \in [Proc -> PCs]  BY <4>1
      <4>3. child' \in [Launcher -> Child \cup {None}]  BY <4>1
      <4>4. said' \in [Child -> {"nothing", "acquired", "lost", "exited"}]  BY <4>1
      <4> QED  BY <2>2, <4>2, <4>3, <4>4 DEF Spawn
    <3>2. (LocksOK /\ LedgerOK /\ BatchOK)'  BY <2>2 DEF Spawn
    <3> QED  BY <3>1, <3>2
  <2>3. CASE SpawnFails(p)
    <3>1. ControlOK'  BY <2>3 DEF SpawnFails
    <3>2. (LocksOK /\ LedgerOK /\ BatchOK)'  BY <2>3 DEF SpawnFails
    <3> QED  BY <3>1, <3>2
  <2>4. CASE SpawnStops(p)  BY <2>4 DEF SpawnStops
  <2>5. CASE Handshake(p)
    <3>1. CASE Goto(p, "handshake", "unlaunch") /\ UNCHANGED tries
      BY <2>5, <3>1 DEF Handshake
    <3>2. CASE Goto(p, "handshake", "spawn") /\ tries' = [tries EXCEPT ![p] = @ - 1]
      <4>1. tries[p] \in 1 .. 3  BY <3>2
      <4>2. tries' \in [Launcher -> 0 .. 3]  BY <3>2, <4>1
      <4>3. pc' \in [Proc -> PCs]  BY <3>2
      <4> QED  BY <2>5, <4>2, <4>3 DEF Handshake
    <3> QED  BY <2>5, <3>1, <3>2 DEF Handshake
  <2>6. CASE Unlaunch(p)  BY <2>6 DEF Unlaunch
  <2> QED  BY <1>2, <2>1, <2>2, <2>3, <2>4, <2>5, <2>6 DEF LaunchStep
<1>3. ASSUME NEW c \in Child, ChildStep(c) PROVE TypeOK'
  <2>1. CASE Start(c)
    <3>1. ControlOK'  BY <2>1 DEF Start
    <3>2. (LocksOK /\ LedgerOK)'  BY <2>1 DEF Start
    <3>3. BatchOK'  BY <2>1 DEF Start
    <3> QED  BY <3>1, <3>2, <3>3
  <2>2. CASE DueNothing(c)  BY <2>2 DEF DueNothing
  <2>8. CASE DueDisconnected(c)
    <3>1. BatchOK'  BY <2>8 DEF DueDisconnected
    <3>2. (ControlOK /\ LocksOK /\ LedgerOK)'  BY <2>8 DEF DueDisconnected
    <3> QED  BY <3>1, <3>2
  <2>3. CASE DueNow(c)
    <3>1. ControlOK'  BY <2>3 DEF DueNow
    <3>2. (LocksOK /\ LedgerOK /\ BatchOK)'  BY <2>3 DEF DueNow
    <3> QED  BY <3>1, <3>2
  <2>4. CASE Drop(c)
    <3>1. att[c] \in [Source -> Nat]  OBVIOUS
    <3>2. LedgerOK'  BY <2>4, <3>1, LedgerTypes DEF Drop
    <3>3. (ControlOK /\ LocksOK /\ BatchOK)'  BY <2>4 DEF Drop
    <3> QED  BY <3>2, <3>3
  <2>5. CASE Finish(c)
    <3>1. att[c] \in [Source -> Nat]  OBVIOUS
    <3>2. LedgerOK'  BY <2>5, <3>1, LedgerTypes DEF Finish
    <3>3. (ControlOK /\ LocksOK /\ BatchOK)'  BY <2>5 DEF Finish
    <3> QED  BY <3>2, <3>3
  <2>6. CASE Record(c) \/ Release(c)  BY <2>6 DEF Record, Release
  <2>7. CASE Remain(c)
    <3>1. ControlOK'  BY <2>7 DEF Remain
    <3>2. (LocksOK /\ LedgerOK /\ BatchOK)'  BY <2>7 DEF Remain
    <3> QED  BY <3>1, <3>2
  <2> QED  BY <1>3, <2>1, <2>2, <2>3, <2>4, <2>5, <2>6, <2>7, <2>8 DEF ChildStep
<1>4. ASSUME NEW m \in Manual, Begin(m) PROVE TypeOK'
  BY <1>4 DEF Begin
<1>5. ASSUME NEW p \in Syncer, SyncStep(p) PROVE TypeOK'
  <2>0. claims[p] \in [Source -> Nat] /\ obs[p] \in [Source -> Nat]
    OBVIOUS
  <2>1. CASE Enter(p) \/ Acquire(p) \/ Locked(p) \/ Deliver(p)
    BY <2>1 DEF Enter, Acquire, Locked, Deliver
  <2>2. ASSUME NEW from, NEW lifecycle, Skipped(p, from, lifecycle),
               syncLock' \in {syncLock, None}, UNCHANGED <<dirtyLock, launchLock, schedLock>>
        PROVE  TypeOK'
    <3>1. ControlOK'  BY <2>2 DEF Skipped
    <3>2. (LocksOK /\ LedgerOK)'  BY <2>2 DEF Skipped
    <3>3. BatchOK'  BY <2>2 DEF Skipped
    <3> QED  BY <3>1, <3>2, <3>3
  <2>3. CASE EnterSkipped(p) \/ WaitExpires(p) \/ LockedSkipped(p)
    BY <2>2, <2>3 DEF EnterSkipped, WaitExpires, LockedSkipped
  <2>4. CASE ReadLedger(p)
    <3>1. BatchOK'  BY <2>4 DEF ReadLedger
    <3>2. (ControlOK /\ LocksOK /\ LedgerOK)'  BY <2>4 DEF ReadLedger
    <3> QED  BY <3>1, <3>2
  <2>5. CASE Collect(p)
    <3>1. BatchOK'  BY <2>5 DEF Collect
    <3>2. LedgerOK'
      <4>1. PICK ok \in SUBSET Selected(p) :
              excused' = IF p \in Child /\ range[p] = 0
                         THEN Later(excused, [s \in Source |-> IF s \in ok THEN 0 ELSE att[p][s]])
                         ELSE excused
        BY <2>5 DEF Collect
      <4>2. p \in Child =>
              [s \in Source |-> IF s \in ok THEN 0 ELSE att[p][s]] \in [Source -> Nat]
        OBVIOUS
      <4>3. excused' \in [Source -> Nat]
        BY <4>1, <4>2, LedgerTypes
      <4> QED  BY <2>5, <4>3 DEF Collect
    <3>3. (ControlOK /\ LocksOK)'  BY <2>5 DEF Collect
    <3> QED  BY <3>1, <3>2, <3>3
  <2>6. CASE Persist(p)
    <3>1. LedgerOK'  BY <2>0, <2>6, LedgerTypes DEF Persist
    <3>2. (ControlOK /\ LocksOK /\ BatchOK)'  BY <2>6 DEF Persist
    <3> QED  BY <3>1, <3>2
  <2>7. CASE Clear(p)
    <3>1. LedgerOK'  BY <2>0, <2>7, LedgerTypes DEF Clear
    <3>2. (ControlOK /\ LocksOK /\ BatchOK)'  BY <2>7 DEF Clear
    <3> QED  BY <3>1, <3>2
  <2>8. CASE Unlock(p)
    <3>1. ControlOK'
      <4>1. CASE /\ range[p] < MaxHistory
                 /\ Goto(p, "unlock", "sync")
                 /\ range' = [range EXCEPT ![p] = @ + 1]
        BY <2>8, <4>1 DEF Unlock
      <4>2. CASE /\ Goto(p, "unlock", IF p \in Child THEN "finish" ELSE "off")
                 /\ UNCHANGED range
        <5>1. pc' \in [Proc -> PCs]  BY <4>2
        <5> QED  BY <2>8, <4>2, <5>1 DEF Unlock
      <4> QED  BY <2>8, <4>1, <4>2 DEF Unlock
    <3>2. (LocksOK /\ LedgerOK /\ BatchOK)'  BY <2>8 DEF Unlock
    <3> QED  BY <3>1, <3>2
  <2>9. CASE Fails(p)
    BY <2>9, FailedTypes DEF Fails
  <2>10. CASE Revoked(p)
    <3>1. ControlOK'  BY <2>10 DEF Revoked
    <3>2. (LocksOK /\ LedgerOK /\ BatchOK)'  BY <2>10 DEF Revoked
    <3> QED  BY <3>1, <3>2
  <2> QED
    BY <1>5, <2>1, <2>3, <2>4, <2>5, <2>6, <2>7, <2>8, <2>9, <2>10 DEF SyncStep
<1>6. ASSUME NEW p \in Syncer \cup Life, DisableStep(p) PROVE TypeOK'
  <2>1. CASE Gate(p)  BY <2>1 DEF Gate
  <2>2. CASE Wipe(p)
    <3>1. LedgerOK'  BY <2>2, LedgerTypes DEF Wipe
    <3>2. (ControlOK /\ LocksOK /\ BatchOK)'  BY <2>2 DEF Wipe
    <3> QED  BY <3>1, <3>2
  <2>3. CASE Stop(p)  BY <2>3 DEF Stop
  <2>4. CASE Ungate(p)
    <3>1. CASE p \in Syncer /\ Failed(p, "ungate")  BY <3>1, FailedTypes
    <3>2. CASE p \in Life /\ Goto(p, "ungate", "unmark")
      <4>1. ControlOK'  BY <2>4, <3>2 DEF Ungate, Failed
      <4>2. (LocksOK /\ LedgerOK /\ BatchOK)'  BY <2>4, <3>2 DEF Ungate, Failed
      <4> QED  BY <4>1, <4>2
    <3> QED  BY <2>4, <3>1, <3>2 DEF Ungate
  <2> QED  BY <1>6, <2>1, <2>2, <2>3, <2>4 DEF DisableStep
<1>7. ASSUME NEW l \in Life, LifeBegin(l) \/ LifeStep(l) PROVE TypeOK'
  <2>1. CASE LifeBegin(l)  BY <2>1 DEF LifeBegin
  <2>2. CASE LifeAcquire(l)  BY <2>2 DEF LifeAcquire
  <2>5. CASE LifeExpires(l)
    <3>1. ControlOK'  BY <2>5 DEF LifeExpires
    <3>2. (LocksOK /\ LedgerOK /\ BatchOK)'  BY <2>5 DEF LifeExpires
    <3> QED  BY <3>1, <3>2
  <2>3. CASE LifeRun(l)
    <3>1. ControlOK'  BY <2>3 DEF LifeRun
    <3>2. (LocksOK /\ LedgerOK /\ BatchOK)'  BY <2>3 DEF LifeRun
    <3> QED  BY <3>1, <3>2
  <2>4. CASE Unmark(l)  BY <2>4 DEF Unmark
  <2> QED  BY <1>7, <2>1, <2>2, <2>3, <2>4, <2>5 DEF LifeStep
<1>8. ASSUME NEW p \in Proc, Crash(p) PROVE TypeOK'
  <2>1. ControlOK'  BY <1>8 DEF Crash
  <2>2. LocksOK'  BY <1>8 DEF Crash
  <2>3. (LedgerOK /\ BatchOK)'  BY <1>8 DEF Crash
  <2> QED  BY <2>1, <2>2, <2>3
<1> QED
  BY <1>0, <1>1, <1>2, <1>3, <1>4, <1>5, <1>6, <1>7, <1>8 DEF Next

(* Every step that leads to a handshake spends an attempt that was left. *)
LEMMA TriesStep ==
  ASSUME TInv, [Next]_vars
  PROVE  TriesLeft'
<1> USE ConstantsAssumption DEF TInv, TypeOK, ControlOK, LocksOK, LedgerOK,
        BatchOK, PCs, TriesLeft, Goto, locks, ledger, mode,
        launching, batch, syncing
<1>0. CASE UNCHANGED vars
  BY <1>0 DEF vars
<1>1. ASSUME NEW h \in Hook, Event(h) \/ HookStep(h) PROVE TriesLeft'
  BY <1>1 DEF Event, HookStep, Check, Mark
<1>2. ASSUME NEW p \in Launcher, LaunchStep(p) PROVE TriesLeft'
  <2>1. CASE Claim(p)  BY <2>1 DEF Claim
  <2>2. CASE Spawn(p)  BY <2>2 DEF Spawn
  <2>3. CASE SpawnFails(p) \/ SpawnStops(p)  BY <2>3 DEF SpawnFails, SpawnStops
  <2>4. CASE Handshake(p)  BY <2>4 DEF Handshake
  <2>5. CASE Unlaunch(p)  BY <2>5 DEF Unlaunch
  <2> QED  BY <1>2, <2>1, <2>2, <2>3, <2>4, <2>5 DEF LaunchStep
<1>3. ASSUME NEW c \in Child, ChildStep(c) PROVE TriesLeft'
  <2>1. CASE Start(c)  BY <2>1 DEF Start
  <2>2. CASE DueNothing(c) \/ DueDisconnected(c) \/ DueNow(c)
    BY <2>2 DEF DueNothing, DueDisconnected, DueNow
  <2>3. CASE Drop(c)  BY <2>3, LedgerTypes DEF Drop
  <2>4. CASE Finish(c)  BY <2>4, LedgerTypes DEF Finish
  <2>5. CASE Record(c) \/ Release(c) \/ Remain(c)
    BY <2>5 DEF Record, Release, Remain
  <2> QED  BY <1>3, <2>1, <2>2, <2>3, <2>4, <2>5 DEF ChildStep
<1>4. ASSUME NEW m \in Manual, Begin(m) PROVE TriesLeft'
  BY <1>4 DEF Begin
<1>5. ASSUME NEW p \in Syncer, SyncStep(p) PROVE TriesLeft'
  <2>1. CASE Enter(p) \/ Acquire(p) \/ Locked(p) \/ Deliver(p)
    BY <2>1 DEF Enter, Acquire, Locked, Deliver
  <2>2. CASE EnterSkipped(p) \/ WaitExpires(p) \/ LockedSkipped(p)
    BY <2>2 DEF EnterSkipped, WaitExpires, LockedSkipped, Skipped
  <2>3. CASE ReadLedger(p)  BY <2>3 DEF ReadLedger
  <2>4. CASE Collect(p)  BY <2>4, LedgerTypes DEF Collect, Selected, Later
  <2>5. CASE Persist(p)  BY <2>5, LedgerTypes DEF Persist
  <2>6. CASE Clear(p)  BY <2>6, LedgerTypes DEF Clear
  <2>7. CASE Unlock(p)  BY <2>7 DEF Unlock
  <2>8. CASE Fails(p)  BY <2>8, LedgerTypes DEF Fails, Failed
  <2>9. CASE Revoked(p)  BY <2>9 DEF Revoked
  <2> QED
    BY <1>5, <2>1, <2>2, <2>3, <2>4, <2>5, <2>6, <2>7, <2>8, <2>9 DEF SyncStep
<1>6. ASSUME NEW p \in Syncer \cup Life, DisableStep(p) PROVE TriesLeft'
  <2>1. CASE Gate(p)  BY <2>1 DEF Gate
  <2>2. CASE Wipe(p)  BY <2>2, LedgerTypes DEF Wipe
  <2>3. CASE Stop(p)  BY <2>3 DEF Stop
  <2>4. CASE Ungate(p)  BY <2>4, LedgerTypes DEF Ungate, Failed
  <2> QED  BY <1>6, <2>1, <2>2, <2>3, <2>4 DEF DisableStep
<1>7. ASSUME NEW l \in Life, LifeBegin(l) \/ LifeStep(l) PROVE TriesLeft'
  BY <1>7 DEF LifeBegin, LifeStep, LifeAcquire, LifeExpires, LifeRun, Unmark
<1>8. ASSUME NEW p \in Proc, Crash(p) PROVE TriesLeft'
  BY <1>8 DEF Crash
<1> QED
  BY <1>0, <1>1, <1>2, <1>3, <1>4, <1>5, <1>6, <1>7, <1>8 DEF Next

(* Every reachable state is well typed: the scheduler's launch attempts    *)
(* stay within their limit and every lock has an owner of its own kind.    *)
THEOREM TypeCorrect == Spec => []TypeOK
<1>1. Init => TInv
  BY TypeInit
<1>2. TInv /\ [Next]_vars => TInv'
  BY TypeStep, TriesStep DEF TInv
<1>3. TInv => TypeOK
  BY DEF TInv
<1> QED
  BY <1>1, <1>2, <1>3, PTL DEF Spec

-----------------------------------------------------------------------------
(* The ledger *)

(* A generation is accounted for: collected in a rolling range, or given   *)
(* up by an attempt or a disconnect.                                       *)
Covered(g, s) == got[s] >= g \/ excused[s] >= g

(* An entry is the last generation of its source; no entry, all covered.   *)
EntriesInv ==
  \A s \in Source :
    /\ dirty[s] \in {0, need[s]}
    /\ dirty[s] = need[s] \/ Covered(need[s], s)

(* What a sync may clear it has observed, and by then persisted.           *)
ClaimsInv ==
  \A p \in Syncer, s \in Source :
    /\ claims[p][s] <= need[s]
    /\ pc[p] = "persist" => claims[p][s] <= obs[p][s]
    /\ pc[p] \in {"deliver", "clear"} => claims[p][s] <= got[s]

(* What a scheduler clears when it finishes was covered by its attempt.    *)
BatchInv ==
  \A c \in Child :
    /\ pc[c] \in {"due", "drop"} => ~attempted[c]
    /\ \A s \in Source :
         /\ att[c][s] <= need[s]
         /\ pc[c] = "persist" => att[c][s] <= obs[c][s] \/ excused[s] >= att[c][s]
         /\ pc[c] \in {"deliver", "clear", "unlock", "record"} => Covered(att[c][s], s)
         /\ pc[c] = "finish" /\ attempted[c] => Covered(att[c][s], s)

LedgerInv == EntriesInv /\ ClaimsInv /\ BatchInv

(* No entry is newer than the last generation of its source. *)
LEMMA DirtyBound ==
  ASSUME LedgerOK, EntriesInv, NEW s \in Source
  PROVE  dirty[s] <= need[s]
<1>1. dirty[s] \in {0, need[s]} /\ need[s] \in Nat
  BY DEF LedgerOK, EntriesInv
<1> QED
  BY <1>1

(* A sync that throws has its claims excused, which covers them.           *)
LEMMA FailedLedger ==
  ASSUME TypeOK, TypeOK', LedgerInv, NEW p \in Syncer, NEW from, Failed(p, from)
  PROVE  LedgerInv'
<1> USE ConstantsAssumption DEF TypeOK, ControlOK, LedgerOK, BatchOK, PCs, Goto,
        locks, ledger, mode, launching, batch, syncing, Covered, LedgerInv, Failed
<1>1. \A s \in Source : excused'[s] >= excused[s] /\ (p \in Child => excused'[s] >= att[p][s])
  BY DEF Later
<1>2. /\ pc' = [pc EXCEPT ![p] = IF p \in Child THEN "record" ELSE "off"]
      /\ UNCHANGED <<dirty, need, got, att, attempted, claims, obs>>
  OBVIOUS
<1>3. EntriesInv'  BY <1>1, <1>2 DEF EntriesInv
<1>4. ClaimsInv'  BY <1>2 DEF ClaimsInv
<1>5. BatchInv'  BY <1>1, <1>2 DEF BatchInv
<1> QED  BY <1>3, <1>4, <1>5

(* Every step keeps the ledger invariant when there are no history ranges. *)
LEMMA LedgerStep ==
  ASSUME TypeOK, TypeOK', LedgerInv, [Next]_vars, MaxHistory = 0
  PROVE  LedgerInv'
<1> USE ConstantsAssumption DEF TypeOK, ControlOK, LedgerOK, BatchOK, PCs, Goto,
        locks, ledger, mode, launching, batch, syncing, Covered, LedgerInv, EntriesInv
<1>0. CASE UNCHANGED vars
  BY <1>0 DEF vars, ClaimsInv, BatchInv
<1>1. ASSUME NEW p \in Hook, Event(p) \/ HookStep(p) PROVE LedgerInv'
  <2>1. CASE Event(p)  BY <2>1 DEF Event, ClaimsInv, BatchInv
  <2>2. CASE Check(p)  BY <2>2 DEF Check, ClaimsInv, BatchInv
  <2>3. CASE Mark(p)
    <3>1. EntriesInv'  BY <2>3 DEF Mark, ClaimsInv, BatchInv
    <3>2. ClaimsInv'  BY <2>3 DEF Mark, ClaimsInv
    <3>3. BatchInv'  BY <2>3 DEF Mark, BatchInv, ClaimsInv
    <3> QED  BY <3>1, <3>2, <3>3
  <2> QED  BY <1>1, <2>1, <2>2, <2>3 DEF HookStep
<1>2. ASSUME NEW p \in Launcher, LaunchStep(p) PROVE LedgerInv'
  <2>1. CASE Claim(p)  BY <2>1 DEF Claim, ClaimsInv, BatchInv
  <2>2. CASE Spawn(p)  BY <2>2 DEF Spawn, ClaimsInv, BatchInv
  <2>3. CASE SpawnFails(p)  BY <2>3 DEF SpawnFails, ClaimsInv, BatchInv
  <2>4. CASE SpawnStops(p)  BY <2>4 DEF SpawnStops, ClaimsInv, BatchInv
  <2>5. CASE Handshake(p)  BY <2>5 DEF Handshake, ClaimsInv, BatchInv
  <2>6. CASE Unlaunch(p)  BY <2>6 DEF Unlaunch, ClaimsInv, BatchInv
  <2> QED
    BY <1>2, <2>1, <2>2, <2>3, <2>4, <2>5, <2>6 DEF LaunchStep
<1>3. ASSUME NEW p \in Child, ChildStep(p) PROVE LedgerInv'
  <2>1. CASE Start(p)
    <3>1. EntriesInv'  BY <2>1 DEF Start, ClaimsInv, BatchInv
    <3>2. ClaimsInv'  BY <2>1 DEF Start, ClaimsInv
    <3>3. BatchInv'  BY <2>1 DEF Start, BatchInv, ClaimsInv
    <3> QED  BY <3>1, <3>2, <3>3
  <2>2. CASE DueNothing(p)  BY <2>2 DEF DueNothing, ClaimsInv, BatchInv
  <2>3. CASE DueDisconnected(p)
    <3>1. /\ pc' = [pc EXCEPT ![p] = "drop"] /\ pc[p] = "due"
          /\ att' = [att EXCEPT ![p] = dirty]
          /\ UNCHANGED <<dirty, need, got, excused, attempted, claims, obs>>
      BY <2>3 DEF DueDisconnected
    <3>2. EntriesInv'  BY <3>1
    <3>3. ClaimsInv'  BY <3>1 DEF ClaimsInv
    <3>4. BatchInv'
      <4>1. \A s \in Source : dirty[s] <= need[s]  BY DirtyBound
      <4>2. att'[p] = dirty /\ pc'[p] = "drop" /\ ~attempted[p]  BY <3>1 DEF BatchInv
      <4>3. \A c \in Child : c # p => att'[c] = att[c] /\ pc'[c] = pc[c]  BY <3>1
      <4> QED  BY <3>1, <4>1, <4>2, <4>3 DEF BatchInv
    <3> QED  BY <3>2, <3>3, <3>4
  <2>4. CASE DueNow(p)
    <3>1. EntriesInv'  BY <2>4 DEF DueNow, ClaimsInv, BatchInv
    <3>2. ClaimsInv'  BY <2>4 DEF DueNow, ClaimsInv
    <3>3. BatchInv'  BY <2>4 DEF DueNow, BatchInv, ClaimsInv
    <3> QED  BY <3>1, <3>2, <3>3
  <2>5. CASE Drop(p)
    <3>1. EntriesInv'  BY <2>5 DEF Drop, Cleared, Later, ClaimsInv, BatchInv
    <3>2. ClaimsInv'  BY <2>5 DEF Drop, Cleared, Later, ClaimsInv
    <3>3. BatchInv'  BY <2>5 DEF Drop, Cleared, Later, BatchInv, ClaimsInv
    <3> QED  BY <3>1, <3>2, <3>3
  <2>6. CASE Record(p)  BY <2>6 DEF Record, ClaimsInv, BatchInv
  <2>7. CASE Finish(p)
    <3>1. EntriesInv'  BY <2>7 DEF Finish, Cleared, ClaimsInv, BatchInv
    <3>2. ClaimsInv'  BY <2>7 DEF Finish, Cleared, ClaimsInv
    <3>3. BatchInv'  BY <2>7 DEF Finish, Cleared, BatchInv, ClaimsInv
    <3> QED  BY <3>1, <3>2, <3>3
  <2>8. CASE Release(p)  BY <2>8 DEF Release, ClaimsInv, BatchInv
  <2>9. CASE Remain(p)  BY <2>9 DEF Remain, ClaimsInv, BatchInv
  <2> QED
    BY <1>3, <2>1, <2>2, <2>3, <2>4, <2>5, <2>6, <2>7, <2>8, <2>9 DEF ChildStep
<1>4. ASSUME NEW p \in Manual, Begin(p) PROVE LedgerInv'
  BY <1>4 DEF Begin, ClaimsInv, BatchInv
<1>5. ASSUME NEW p \in Syncer, SyncStep(p) PROVE LedgerInv'
  <2>1. CASE Enter(p)  BY <2>1 DEF Enter, ClaimsInv, BatchInv
  <2>2. CASE EnterSkipped(p)
    <3>1. EntriesInv'  BY <2>2 DEF EnterSkipped, Skipped, ClaimsInv, BatchInv
    <3>2. ClaimsInv'  BY <2>2 DEF EnterSkipped, Skipped, ClaimsInv
    <3>3. BatchInv'  BY <2>2 DEF EnterSkipped, Skipped, BatchInv, ClaimsInv
    <3> QED  BY <3>1, <3>2, <3>3
  <2>3. CASE Acquire(p)  BY <2>3 DEF Acquire, ClaimsInv, BatchInv
  <2>4. CASE WaitExpires(p)
    <3>1. EntriesInv'  BY <2>4 DEF WaitExpires, Skipped, ClaimsInv, BatchInv
    <3>2. ClaimsInv'  BY <2>4 DEF WaitExpires, Skipped, ClaimsInv
    <3>3. BatchInv'  BY <2>4 DEF WaitExpires, Skipped, BatchInv, ClaimsInv
    <3> QED  BY <3>1, <3>2, <3>3
  <2>5. CASE LockedSkipped(p)
    <3>1. EntriesInv'  BY <2>5 DEF LockedSkipped, Skipped, ClaimsInv, BatchInv
    <3>2. ClaimsInv'  BY <2>5 DEF LockedSkipped, Skipped, ClaimsInv
    <3>3. BatchInv'  BY <2>5 DEF LockedSkipped, Skipped, BatchInv, ClaimsInv
    <3> QED  BY <3>1, <3>2, <3>3
  <2>6. CASE Locked(p)  BY <2>6 DEF Locked, ClaimsInv, BatchInv
  <2>7. CASE ReadLedger(p)
    <3>1. PICK scope \in SUBSET Source :
            claims' = [claims EXCEPT ![p] = [s \in Source |-> IF s \in scope THEN dirty[s] ELSE 0]]
      BY <2>7 DEF ReadLedger
    <3>2. /\ pc' = [pc EXCEPT ![p] = "collect"]
          /\ UNCHANGED <<dirty, need, got, excused, att, attempted, obs>>
      BY <2>7 DEF ReadLedger
    <3>3. EntriesInv'  BY <3>2
    <3>4. ClaimsInv'
      <4>0. claims'[p] = [s \in Source |-> IF s \in scope THEN dirty[s] ELSE 0]  BY <3>1
      <4>1. \A s \in Source : claims'[p][s] <= need[s]
        <5> SUFFICES ASSUME NEW s \in Source PROVE claims'[p][s] <= need[s]
          OBVIOUS
        <5>1. claims'[p][s] \in {0, dirty[s]}  BY <4>0
        <5>2. dirty[s] <= need[s] /\ need[s] \in Nat  BY DirtyBound
        <5> QED  BY <5>1, <5>2
      <4>2. \A q \in Syncer : q # p => claims'[q] = claims[q] /\ pc'[q] = pc[q]
        BY <3>1, <3>2
      <4>3. pc'[p] = "collect"  BY <3>2
      <4> QED  BY <3>2, <4>1, <4>2, <4>3 DEF ClaimsInv
    <3>5. BatchInv'  BY <3>2 DEF BatchInv
    <3> QED  BY <3>3, <3>4, <3>5
  <2>8. CASE Collect(p)
    <3>1. EntriesInv'  BY <2>8 DEF Collect, Selected, Later, ClaimsInv, BatchInv
    <3>2. ClaimsInv'  BY <2>8 DEF Collect, Selected, Later, ClaimsInv
    <3>3. BatchInv'  BY <2>8 DEF Collect, Selected, Later, BatchInv, ClaimsInv
    <3> QED  BY <3>1, <3>2, <3>3
  <2>9. CASE Persist(p)
    <3>1. EntriesInv'  BY <2>9 DEF Persist, Later, ClaimsInv, BatchInv
    <3>2. ClaimsInv'  BY <2>9 DEF Persist, Later, ClaimsInv
    <3>3. BatchInv'  BY <2>9 DEF Persist, Later, BatchInv, ClaimsInv
    <3> QED  BY <3>1, <3>2, <3>3
  <2>10. CASE Deliver(p)
    <3>1. EntriesInv'  BY <2>10 DEF Deliver, ClaimsInv, BatchInv
    <3>2. ClaimsInv'  BY <2>10 DEF Deliver, ClaimsInv
    <3>3. BatchInv'  BY <2>10 DEF Deliver, BatchInv, ClaimsInv
    <3> QED  BY <3>1, <3>2, <3>3
  <2>11. CASE Clear(p)
    <3>1. EntriesInv'  BY <2>11 DEF Clear, Cleared, ClaimsInv, BatchInv
    <3>2. ClaimsInv'  BY <2>11 DEF Clear, Cleared, ClaimsInv
    <3>3. BatchInv'  BY <2>11 DEF Clear, Cleared, BatchInv, ClaimsInv
    <3> QED  BY <3>1, <3>2, <3>3
  <2>12. CASE Unlock(p)
    <3>1. EntriesInv'  BY <2>12 DEF Unlock, ClaimsInv, BatchInv
    <3>2. ClaimsInv'  BY <2>12 DEF Unlock, ClaimsInv
    <3>3. BatchInv'  BY <2>12 DEF Unlock, BatchInv, ClaimsInv
    <3> QED  BY <3>1, <3>2, <3>3
  <2>13. CASE Fails(p)  BY <2>13, FailedLedger DEF Fails
  <2>14. CASE Revoked(p)  BY <2>14 DEF Revoked, ClaimsInv, BatchInv
  <2> QED
    BY <1>5, <2>1, <2>2, <2>3, <2>4, <2>5, <2>6, <2>7, <2>8, <2>9, <2>10, <2>11, <2>12, <2>13, <2>14 DEF SyncStep
<1>6. ASSUME NEW p \in Syncer \cup Life, DisableStep(p) PROVE LedgerInv'
  <2>1. CASE Gate(p)  BY <2>1 DEF Gate, ClaimsInv, BatchInv
  <2>2. CASE Wipe(p)
    <3>1. EntriesInv'  BY <2>2 DEF Wipe, Later, Nothing, ClaimsInv, BatchInv
    <3>2. ClaimsInv'  BY <2>2 DEF Wipe, Later, Nothing, ClaimsInv
    <3>3. BatchInv'  BY <2>2 DEF Wipe, Later, Nothing, BatchInv, ClaimsInv
    <3> QED  BY <3>1, <3>2, <3>3
  <2>3. CASE Stop(p)  BY <2>3 DEF Stop, ClaimsInv, BatchInv
  <2>4. CASE Ungate(p)
    <3>1. CASE p \in Syncer /\ Failed(p, "ungate")  BY <3>1, FailedLedger
    <3>2. CASE p \in Life /\ Goto(p, "ungate", "unmark") /\ UNCHANGED ledger
               /\ UNCHANGED <<batch, syncing>>
      BY <3>2 DEF ClaimsInv, BatchInv
    <3> QED  BY <2>4, <3>1, <3>2 DEF Ungate
  <2> QED
    BY <1>6, <2>1, <2>2, <2>3, <2>4 DEF DisableStep
<1>7. ASSUME NEW p \in Life, LifeBegin(p) \/ LifeStep(p) PROVE LedgerInv'
  <2>1. CASE LifeBegin(p)  BY <2>1 DEF LifeBegin, ClaimsInv, BatchInv
  <2>2. CASE LifeAcquire(p)  BY <2>2 DEF LifeAcquire, ClaimsInv, BatchInv
  <2>3. CASE LifeExpires(p)  BY <2>3 DEF LifeExpires, ClaimsInv, BatchInv
  <2>4. CASE LifeRun(p)  BY <2>4 DEF LifeRun, ClaimsInv, BatchInv
  <2>5. CASE Unmark(p)  BY <2>5 DEF Unmark, ClaimsInv, BatchInv
  <2> QED  BY <1>7, <2>1, <2>2, <2>3, <2>4, <2>5 DEF LifeStep
<1>8. ASSUME NEW p \in Proc, Crash(p) PROVE LedgerInv'
  BY <1>8 DEF Crash, ClaimsInv, BatchInv
<1> QED
  BY <1>0, <1>1, <1>2, <1>3, <1>4, <1>5, <1>6, <1>7, <1>8 DEF Next

(* The generation-safe ledger: with rolling ranges only, no interleaving   *)
(* of any number of hooks, schedulers, manual syncs, lifecycle commands    *)
(* and crashes loses an event that no collection has covered.              *)
THEOREM EventsKept == MaxHistory = 0 => (Spec => []NoLostEvent)
<1> SUFFICES ASSUME MaxHistory = 0
             PROVE  Spec => []NoLostEvent
  OBVIOUS
<1>1. Init => TInv /\ LedgerInv
  <2>1. Init => TInv
    BY TypeInit
  <2>2. Init => LedgerInv
    BY DEF Init, Nothing, LedgerInv, EntriesInv, ClaimsInv, BatchInv
  <2> QED
    BY <2>1, <2>2
<1>2. TInv /\ LedgerInv /\ [Next]_vars => TInv' /\ LedgerInv'
  <2> SUFFICES ASSUME TInv, LedgerInv, [Next]_vars
               PROVE  TInv' /\ LedgerInv'
    OBVIOUS
  <2>1. TInv'
    BY TypeStep, TriesStep DEF TInv
  <2>2. LedgerInv'
    BY <2>1, LedgerStep DEF TInv
  <2> QED
    BY <2>1, <2>2
<1>3. TInv /\ LedgerInv => NoLostEvent
  BY DEF TInv, TypeOK, LedgerOK, LedgerInv, EntriesInv, Covered, NoLostEvent
<1> QED
  BY <1>1, <1>2, <1>3, PTL DEF Spec

-----------------------------------------------------------------------------
(* Who holds a lock *)

SyncZone ==
  {"locked", "drain", "collect", "persist", "deliver", "clear", "unlock",
   "life", "gate", "wipe", "stop", "ungate"}

SchedZone == {"due", "drop", "sync", "wait", "record", "finish", "release"} \cup SyncZone

(* The pending usage, the config and the clean-up are touched by the owner *)
(* of the sync lock, batches are run by the owner of the scheduler lock,   *)
(* generations are given by the owner of the dirty lock.                   *)
SyncOwned == \A p \in Syncer \cup Life : pc[p] \in SyncZone => syncLock = p
SchedOwned == \A c \in Child : pc[c] \in SchedZone => schedLock = c
MarkOwned == \A h \in Hook : pc[h] = "mark" => dirtyLock = h

OwnersInv == TInv /\ SyncOwned /\ SchedOwned /\ MarkOwned

(* What a sync has read of the configuration still holds when it persists, *)
(* and nobody connects again while a disconnect is cleaning up.            *)
ReadConnected == \A p \in Syncer : pc[p] \in {"collect", "persist"} => connected
Disconnecting == \A p \in Syncer \cup Life : pc[p] \in {"gate", "wipe", "stop"} => ~connected

(* From the wipe on nothing becomes dirty, and no scheduler starts.        *)
Done(p) == pc[p] = "ungate" /\ ~connected
Wiped ==
  \A p \in Syncer \cup Life :
    pc[p] = "stop" \/ Done(p) => dirty = Nothing /\ \A h \in Hook : pc[h] # "mark"
Stopped == \A p \in Syncer \cup Life : Done(p) => schedLock \in {None, p}

(* Generations that are still dirty although they were given up belong to  *)
(* the batch of the running scheduler, which clears them when it finishes. *)
Entries == \A s \in Source : dirty[s] \in {0, need[s]} /\ excused[s] <= need[s]
Batches ==
  \A c \in Child :
    /\ \A s \in Source : att[c][s] <= need[s]
    /\ pc[c] \in SchedZone \ {"due", "drop", "finish", "release"} => attempted[c]
Collected(c) ==
  \/ pc[c] \in {"persist", "deliver", "clear", "unlock", "record", "finish",
                "gate", "wipe", "stop", "ungate"}
  \/ pc[c] \in {"sync", "wait", "locked", "drain", "collect"} /\ range[c] > 0
GivenUp ==
  \A s \in Source :
    dirty[s] # 0 /\ excused[s] >= dirty[s] =>
      \E c \in Child : Collected(c) /\ attempted[c] /\ att[c][s] = dirty[s]

(* A lock is released only by its owner, or with its owner's death. *)
LEMMA OwnersStep ==
  ASSUME OwnersInv, [Next]_vars
  PROVE  SyncOwned' /\ SchedOwned' /\ MarkOwned'
<1> USE ConstantsAssumption DEF OwnersInv, SyncOwned, SchedOwned, MarkOwned, SyncZone, SchedZone,
        Goto, locks, ledger, mode, launching, batch, syncing
<1>a. pc \in [Proc -> PCs]
  BY DEF TInv, TypeOK, ControlOK
<1>0. CASE UNCHANGED vars
  BY <1>0 DEF vars
<1>1. ASSUME NEW h \in Hook, Event(h) \/ HookStep(h) PROVE SyncOwned' /\ SchedOwned' /\ MarkOwned'
  BY <1>1, <1>a DEF Event, HookStep, Check, Mark
<1>2. ASSUME NEW p \in Launcher, LaunchStep(p) PROVE SyncOwned' /\ SchedOwned' /\ MarkOwned'
  <2>1. CASE Claim(p)  BY <2>1, <1>a DEF Claim
  <2>2. CASE Spawn(p)  BY <2>2, <1>a DEF Spawn
  <2>3. CASE SpawnFails(p) \/ SpawnStops(p)  BY <2>3, <1>a DEF SpawnFails, SpawnStops
  <2>4. CASE Handshake(p) \/ Unlaunch(p)  BY <2>4, <1>a DEF Handshake, Unlaunch
  <2> QED  BY <1>2, <2>1, <2>2, <2>3, <2>4 DEF LaunchStep
<1>3. ASSUME NEW c \in Child, ChildStep(c) PROVE SyncOwned' /\ SchedOwned' /\ MarkOwned'
  <2>1. CASE Start(c)  BY <2>1, <1>a DEF Start
  <2>2. CASE DueNothing(c) \/ DueDisconnected(c) \/ DueNow(c)
    BY <2>2, <1>a DEF DueNothing, DueDisconnected, DueNow
  <2>3. CASE Drop(c) \/ Finish(c) \/ Record(c)
    BY <2>3, <1>a DEF Drop, Finish, Record
  <2>4. CASE Release(c)  BY <2>4, <1>a DEF Release
  <2>5. CASE Remain(c)  BY <2>5, <1>a DEF Remain
  <2> QED  BY <1>3, <2>1, <2>2, <2>3, <2>4, <2>5 DEF ChildStep
<1>4. ASSUME NEW m \in Manual, Begin(m) PROVE SyncOwned' /\ SchedOwned' /\ MarkOwned'
  BY <1>4, <1>a DEF Begin
<1>5. ASSUME NEW p \in Syncer, SyncStep(p) PROVE SyncOwned' /\ SchedOwned' /\ MarkOwned'
  <2>1. CASE Enter(p) \/ Acquire(p) \/ Locked(p) \/ Deliver(p)
    BY <2>1, <1>a DEF Enter, Acquire, Locked, Deliver
  <2>2. CASE EnterSkipped(p) \/ WaitExpires(p)
    <3>1. /\ pc[p] \in {"sync", "wait"} /\ UNCHANGED locks
          /\ \E to \in {"due", "finish", "off"} : pc' = [pc EXCEPT ![p] = to]
      BY <2>2 DEF EnterSkipped, WaitExpires, Skipped
    <3> QED  BY <3>1, <1>a
  <2>3. CASE LockedSkipped(p)  BY <2>3, <1>a DEF LockedSkipped, Skipped
  <2>4. CASE ReadLedger(p) \/ Collect(p) \/ Persist(p) \/ Clear(p)
    BY <2>4, <1>a DEF ReadLedger, Collect, Persist, Clear
  <2>5. CASE Unlock(p)  BY <2>5, <1>a DEF Unlock
  <2>6. CASE Fails(p)  BY <2>6, <1>a DEF Fails, Failed
  <2>7. CASE Revoked(p)  BY <2>7, <1>a DEF Revoked
  <2> QED  BY <1>5, <2>1, <2>2, <2>3, <2>4, <2>5, <2>6, <2>7 DEF SyncStep
<1>6. ASSUME NEW p \in Syncer \cup Life, DisableStep(p) PROVE SyncOwned' /\ SchedOwned' /\ MarkOwned'
  <2>1. CASE Gate(p) \/ Wipe(p) \/ Stop(p)  BY <2>1, <1>a DEF Gate, Wipe, Stop
  <2>2. CASE Ungate(p)  BY <2>2, <1>a DEF Ungate, Failed
  <2> QED  BY <1>6, <2>1, <2>2 DEF DisableStep
<1>7. ASSUME NEW l \in Life, LifeBegin(l) \/ LifeStep(l) PROVE SyncOwned' /\ SchedOwned' /\ MarkOwned'
  BY <1>7, <1>a DEF LifeBegin, LifeStep, LifeAcquire, LifeExpires, LifeRun, Unmark
<1>8. ASSUME NEW p \in Proc, Crash(p) PROVE SyncOwned' /\ SchedOwned' /\ MarkOwned'
  BY <1>8, <1>a DEF Crash
<1> QED
  BY <1>0, <1>1, <1>2, <1>3, <1>4, <1>5, <1>6, <1>7, <1>8 DEF Next

OwnersNext == OwnersInv /\ OwnersInv' /\ [Next]_vars

(* No lock has an owner when nothing has run. *)
LEMMA OwnersInit == Init => OwnersInv
BY TypeInit DEF OwnersInv, SyncOwned, SchedOwned, MarkOwned, SyncZone, SchedZone, Init

(* Every step keeps the locks with the processes in their sections. *)
LEMMA OwnersHold == OwnersInv /\ [Next]_vars => OwnersInv'
BY TypeStep, TriesStep, OwnersStep DEF OwnersInv, TInv

(* The configuration changes only in the hands of the owner of the sync    *)
(* lock.                                                                   *)
LEMMA ConfigStep ==
  ASSUME OwnersNext, ReadConnected, Disconnecting
  PROVE  /\ ReadConnected' /\ Disconnecting'
         /\ got' # got => connected
<1> USE ConstantsAssumption DEF OwnersNext, OwnersInv, SyncOwned, SyncZone, ReadConnected, Disconnecting,
        Goto, locks, ledger, mode, launching, batch, syncing
<1> DEFINE Goal == ReadConnected' /\ Disconnecting' /\ (got' # got => connected)
<1>a. pc \in [Proc -> PCs]
  BY DEF TInv, TypeOK, ControlOK
<1>0. CASE UNCHANGED vars
  BY <1>0 DEF vars
<1>1. ASSUME NEW h \in Hook, Event(h) \/ HookStep(h) PROVE Goal
  BY <1>1, <1>a DEF Event, HookStep, Check, Mark
<1>2. ASSUME NEW p \in Launcher, LaunchStep(p) PROVE Goal
  <2>1. CASE Claim(p)  BY <2>1, <1>a DEF Claim
  <2>2. CASE Spawn(p)  BY <2>2, <1>a DEF Spawn
  <2>3. CASE SpawnFails(p) \/ SpawnStops(p)  BY <2>3, <1>a DEF SpawnFails, SpawnStops
  <2>4. CASE Handshake(p) \/ Unlaunch(p)  BY <2>4, <1>a DEF Handshake, Unlaunch
  <2> QED  BY <1>2, <2>1, <2>2, <2>3, <2>4 DEF LaunchStep
<1>3. ASSUME NEW c \in Child, ChildStep(c) PROVE Goal
  <2>1. CASE Start(c)  BY <2>1, <1>a DEF Start
  <2>2. CASE DueNothing(c) \/ DueDisconnected(c) \/ DueNow(c)
    BY <2>2, <1>a DEF DueNothing, DueDisconnected, DueNow
  <2>3. CASE Drop(c) \/ Finish(c) \/ Record(c)
    BY <2>3, <1>a DEF Drop, Finish, Record
  <2>4. CASE Release(c) \/ Remain(c)  BY <2>4, <1>a DEF Release, Remain
  <2> QED  BY <1>3, <2>1, <2>2, <2>3, <2>4 DEF ChildStep
<1>4. ASSUME NEW m \in Manual, Begin(m) PROVE Goal
  BY <1>4, <1>a DEF Begin
<1>5. ASSUME NEW p \in Syncer, SyncStep(p) PROVE Goal
  <2>1. CASE Enter(p) \/ Acquire(p) \/ Locked(p) \/ Deliver(p)
    BY <2>1, <1>a DEF Enter, Acquire, Locked, Deliver
  <2>2. CASE EnterSkipped(p) \/ WaitExpires(p) \/ LockedSkipped(p)
    <3>1. /\ UNCHANGED <<connected, got>>
          /\ \E to \in {"due", "finish", "off"} : pc' = [pc EXCEPT ![p] = to]
      BY <2>2 DEF EnterSkipped, WaitExpires, LockedSkipped, Skipped
    <3> QED  BY <3>1, <1>a
  <2>4. CASE ReadLedger(p) \/ Collect(p) \/ Persist(p) \/ Clear(p)
    BY <2>4, <1>a DEF ReadLedger, Collect, Persist, Clear
  <2>5. CASE Unlock(p)  BY <2>5, <1>a DEF Unlock
  <2>6. CASE Fails(p)  BY <2>6, <1>a DEF Fails, Failed
  <2>7. CASE Revoked(p)
    <3>1. /\ pc[p] \in SyncZone /\ pc' = [pc EXCEPT ![p] = "gate"]
          /\ connected' = FALSE /\ got' = got
      BY <2>7 DEF Revoked
    <3>2. \A q \in Syncer : q # p => pc[q] \notin SyncZone
      BY <3>1
    <3> QED  BY <3>1, <3>2, <1>a
  <2> QED  BY <1>5, <2>1, <2>2, <2>4, <2>5, <2>6, <2>7 DEF SyncStep
<1>6. ASSUME NEW p \in Syncer \cup Life, DisableStep(p) PROVE Goal
  <2>1. CASE Gate(p) \/ Wipe(p) \/ Stop(p)  BY <2>1, <1>a DEF Gate, Wipe, Stop
  <2>2. CASE Ungate(p)  BY <2>2, <1>a DEF Ungate, Failed
  <2> QED  BY <1>6, <2>1, <2>2 DEF DisableStep
<1>7. ASSUME NEW l \in Life, LifeBegin(l) \/ LifeStep(l) PROVE Goal
  <2>1. CASE LifeRun(l)
    <3>1. /\ pc[l] \in SyncZone /\ connected' = ~connected /\ got' = got
          /\ pc' = [pc EXCEPT ![l] = IF connected THEN "gate" ELSE "ungate"]
      BY <2>1 DEF LifeRun
    <3>2. \A q \in Syncer \cup Life : q # l => pc[q] \notin SyncZone
      BY <3>1
    <3> QED  BY <3>1, <3>2, <1>a
  <2>2. CASE LifeBegin(l) \/ LifeAcquire(l) \/ LifeExpires(l) \/ Unmark(l)
    BY <2>2, <1>a DEF LifeBegin, LifeAcquire, LifeExpires, Unmark
  <2> QED  BY <1>7, <2>1, <2>2 DEF LifeStep
<1>8. ASSUME NEW p \in Proc, Crash(p) PROVE Goal
  BY <1>8, <1>a DEF Crash
<1> QED
  BY <1>0, <1>1, <1>2, <1>3, <1>4, <1>5, <1>6, <1>7, <1>8 DEF Next

ConfigInv == OwnersInv /\ ReadConnected /\ Disconnecting

(* No process has read a configuration when nothing has run. *)
LEMMA ConfigInit == Init => ConfigInv
BY OwnersInit DEF ConfigInv, ReadConnected, Disconnecting, Init

(* Every step keeps what was read in agreement with the configuration. *)
LEMMA ConfigHolds == ConfigInv /\ [Next]_vars => ConfigInv'
BY OwnersHold, ConfigStep DEF ConfigInv, OwnersNext

(* Usage is persisted only while the connector is connected, although the  *)
(* configuration was read long before, whatever dies or times out.         *)
THEOREM NothingPersisted == Spec => NothingAfterDisconnect
<1>1. ConfigInv /\ [Next]_vars => [got' # got => connected]_vars
  BY OwnersHold, ConfigStep DEF ConfigInv, OwnersNext
<1> QED  BY <1>1, ConfigInit, ConfigHolds, PTL DEF Spec, NothingAfterDisconnect

-----------------------------------------------------------------------------
(* What a disconnect leaves behind *)

(* Nothing is claimed of an empty ledger. *)
LEMMA NothingCleared ==
  ASSUME LedgerOK, dirty = Nothing, NEW f \in [Source -> Nat]
  PROVE  Cleared(dirty, f) = Nothing
BY DEF LedgerOK, Nothing, Cleared

WipedNext ==
  /\ ConfigInv /\ ConfigInv' /\ OwnersNext
  /\ Wiped /\ Stopped /\ "lockTimeout" \notin Faults

(* A disconnected connector stays without marks and without a ledger. *)
LEMMA WipedStep ==
  ASSUME WipedNext
  PROVE  Wiped' /\ Stopped'
<1> USE ConstantsAssumption DEF WipedNext, OwnersNext, OwnersInv, ConfigInv, SyncOwned, SyncZone,
        MarkOwned, Disconnecting, Wiped, Stopped, Done,
        Goto, locks, ledger, mode, launching, batch, syncing
<1>a. /\ pc \in [Proc -> PCs]
      /\ LedgerOK /\ att \in [Child -> [Source -> Nat]] /\ claims \in [Syncer -> [Source -> Nat]]
  BY DEF TInv, TypeOK, ControlOK, BatchOK
<1>0. CASE UNCHANGED vars
  BY <1>0 DEF vars
<1>1. ASSUME NEW h \in Hook, Event(h) \/ HookStep(h) PROVE Wiped' /\ Stopped'
  <2>1. CASE Event(h)  BY <2>1, <1>a DEF Event
  <2>2. CASE Check(h)  BY <2>2, <1>a DEF Check
  <2>3. CASE Mark(h)  BY <2>3, <1>a DEF Mark
  <2> QED  BY <1>1, <2>1, <2>2, <2>3 DEF HookStep
<1>2. ASSUME NEW p \in Launcher, LaunchStep(p) PROVE Wiped' /\ Stopped'
  <2>1. CASE Claim(p)  BY <2>1, <1>a DEF Claim
  <2>2. CASE Spawn(p)  BY <2>2, <1>a DEF Spawn
  <2>3. CASE SpawnFails(p) \/ SpawnStops(p)  BY <2>3, <1>a DEF SpawnFails, SpawnStops
  <2>4. CASE Handshake(p) \/ Unlaunch(p)  BY <2>4, <1>a DEF Handshake, Unlaunch
  <2> QED  BY <1>2, <2>1, <2>2, <2>3, <2>4 DEF LaunchStep
<1>3. ASSUME NEW c \in Child, ChildStep(c) PROVE Wiped' /\ Stopped'
  <2>1. CASE Start(c)  BY <2>1, <1>a DEF Start
  <2>2. CASE DueNothing(c) \/ DueDisconnected(c) \/ DueNow(c)
    BY <2>2, <1>a DEF DueNothing, DueDisconnected, DueNow
  <2>3. CASE Drop(c) \/ Finish(c) \/ Record(c)
    <3>1. att[c] \in [Source -> Nat]
      BY <1>a
    <3>2. dirty = Nothing => dirty' = Nothing
      BY <1>a, <2>3, <3>1, NothingCleared DEF Drop, Finish, Record
    <3> QED  BY <2>3, <3>2, <1>a DEF Drop, Finish, Record
  <2>4. CASE Release(c) \/ Remain(c)  BY <2>4, <1>a DEF Release, Remain
  <2> QED  BY <1>3, <2>1, <2>2, <2>3, <2>4 DEF ChildStep
<1>4. ASSUME NEW m \in Manual, Begin(m) PROVE Wiped' /\ Stopped'
  BY <1>4, <1>a DEF Begin
<1>5. ASSUME NEW p \in Syncer, SyncStep(p) PROVE Wiped' /\ Stopped'
  <2>1. CASE Enter(p) \/ Acquire(p) \/ Locked(p) \/ Deliver(p)
    BY <2>1, <1>a DEF Enter, Acquire, Locked, Deliver
  <2>2. CASE EnterSkipped(p) \/ WaitExpires(p) \/ LockedSkipped(p)
    <3>1. /\ UNCHANGED <<connected, dirty, schedLock>>
          /\ \E to \in {"due", "finish", "off"} : pc' = [pc EXCEPT ![p] = to]
      BY <2>2 DEF EnterSkipped, WaitExpires, LockedSkipped, Skipped
    <3> QED  BY <3>1, <1>a
  <2>3. CASE ReadLedger(p) \/ Collect(p) \/ Persist(p)
    BY <2>3, <1>a DEF ReadLedger, Collect, Persist
  <2>4. CASE Clear(p)
    <3>1. dirty = Nothing => dirty' = Nothing
      BY <1>a, <2>4, NothingCleared DEF Clear
    <3> QED  BY <2>4, <3>1, <1>a DEF Clear
  <2>5. CASE Unlock(p)  BY <2>5, <1>a DEF Unlock
  <2>6. CASE Fails(p)  BY <2>6, <1>a DEF Fails, Failed
  <2>7. CASE Revoked(p)
    <3>1. /\ pc[p] \in SyncZone /\ pc' = [pc EXCEPT ![p] = "gate"]
          /\ UNCHANGED <<dirty, schedLock>>
      BY <2>7 DEF Revoked
    <3>2. \A q \in Syncer \cup Life : q # p => pc[q] \notin SyncZone
      BY <3>1
    <3> QED  BY <3>1, <3>2, <1>a
  <2> QED  BY <1>5, <2>1, <2>2, <2>3, <2>4, <2>5, <2>6, <2>7 DEF SyncStep
<1>6. ASSUME NEW p \in Syncer \cup Life, DisableStep(p) PROVE Wiped' /\ Stopped'
  <2>1. CASE Gate(p)  BY <2>1, <1>a DEF Gate
  <2>2. CASE Wipe(p)
    <3>1. \A h \in Hook : pc[h] # "mark"
      BY <2>2 DEF Wipe
    <3> QED  BY <2>2, <3>1, <1>a DEF Wipe
  <2>3. CASE Stop(p)  BY <2>3, <1>a DEF Stop
  <2>4. CASE Ungate(p)  BY <2>4, <1>a DEF Ungate, Failed
  <2> QED  BY <1>6, <2>1, <2>2, <2>3, <2>4 DEF DisableStep
<1>7. ASSUME NEW l \in Life, LifeBegin(l) \/ LifeStep(l) PROVE Wiped' /\ Stopped'
  <2>1. CASE LifeRun(l)
    <3>1. /\ pc[l] \in SyncZone /\ connected' = ~connected /\ UNCHANGED <<dirty, schedLock>>
          /\ pc' = [pc EXCEPT ![l] = IF connected THEN "gate" ELSE "ungate"]
      BY <2>1 DEF LifeRun
    <3>2. \A q \in Syncer \cup Life : q # l => pc[q] \notin SyncZone
      BY <3>1
    <3> QED  BY <3>1, <3>2, <1>a
  <2>2. CASE LifeBegin(l) \/ LifeAcquire(l) \/ LifeExpires(l) \/ Unmark(l)
    BY <2>2, <1>a DEF LifeBegin, LifeAcquire, LifeExpires, Unmark
  <2> QED  BY <1>7, <2>1, <2>2 DEF LifeStep
<1>8. ASSUME NEW p \in Proc, Crash(p) PROVE Wiped' /\ Stopped'
  BY <1>8, <1>a DEF Crash
<1> QED
  BY <1>0, <1>1, <1>2, <1>3, <1>4, <1>5, <1>6, <1>7, <1>8 DEF Next, OwnersNext

(* A disconnect or a revocation that runs to its end leaves neither a      *)
(* dirty source nor a scheduler nor a hook about to mark, as long as no    *)
(* wait for a lock expires, and whatever crashes.                          *)
THEOREM DisconnectsClean ==
  ASSUME "lockTimeout" \notin Faults
  PROVE  Spec => []DisconnectClean
<1> DEFINE Inv == ConfigInv /\ Wiped /\ Stopped
<1>1. Init => Inv
  BY ConfigInit DEF Wiped, Stopped, Done, Init
<1>2. Inv /\ [Next]_vars => Inv'
  <2> SUFFICES ASSUME Inv, [Next]_vars PROVE Inv'
    OBVIOUS
  <2>1. ConfigInv' /\ OwnersNext
    BY ConfigHolds, OwnersHold DEF ConfigInv, OwnersNext
  <2>2. WipedNext
    BY <2>1 DEF WipedNext
  <2> QED  BY <2>1, <2>2, WipedStep
<1>3. Inv => DisconnectClean
  BY DEF Wiped, Stopped, Done, DisconnectClean
<1> QED  BY <1>1, <1>2, <1>3, PTL DEF Spec

-----------------------------------------------------------------------------
(* One attempt for a generation *)

BatchNext ==
  /\ OwnersNext
  /\ Entries /\ Batches /\ GivenUp
  /\ "crash" \notin Faults

(* The owner of the scheduler lock is the only child in a batch. *)
LEMMA OneBatch ==
  ASSUME SchedOwned, NEW c \in Child, NEW d \in Child,
         Collected(c), pc[d] \in SchedZone
  PROVE  c = d
BY DEF SchedOwned, Collected, SchedZone, SyncZone

(* A step of p that changes neither the ledger nor a batch, and does not   *)
(* take p out of one.                                                      *)
LEMMA BatchUntouched ==
  ASSUME TypeOK, Entries, Batches, GivenUp, NEW p \in Proc,
         UNCHANGED <<dirty, need, excused, att>>,
         \A q \in Proc \ {p} : pc'[q] = pc[q],
         \A c \in Child \ {p} : attempted'[c] = attempted[c] /\ range'[c] = range[c],
         p \in Child =>
           /\ Collected(p) /\ attempted[p] => Collected(p)' /\ attempted'[p]
           /\ pc'[p] \in SchedZone \ {"due", "drop", "finish", "release"} => attempted'[p]
  PROVE  Entries' /\ Batches' /\ GivenUp'
<1> USE ConstantsAssumption
<1>1. Entries'
  BY DEF Entries
<1>2. Batches'
  BY DEF Batches
<1>3. ASSUME NEW c \in Child, Collected(c), attempted[c] PROVE Collected(c)' /\ attempted'[c]
  BY <1>3 DEF Collected
<1>4. GivenUp'
  BY <1>3 DEF GivenUp
<1> QED  BY <1>1, <1>2, <1>4

(* What a batch has claimed, collected and given up stays in order. *)
LEMMA BatchStep ==
  ASSUME BatchNext
  PROVE  /\ Entries' /\ Batches' /\ GivenUp'
         /\ \A c \in Child : DueNow(c) => \A s \in Dirty : dirty[s] > excused[s]
<1> USE ConstantsAssumption DEF BatchNext, Goto, locks, ledger, mode, launching, batch, syncing
<1> DEFINE Goal == Entries' /\ Batches' /\ GivenUp'
<1>a. TypeOK /\ TypeOK' /\ SchedOwned /\ MarkOwned
  BY DEF OwnersNext, OwnersInv, TInv
<1>b. /\ pc \in [Proc -> PCs] /\ range \in [Syncer -> 0 .. MaxHistory]
      /\ dirty \in [Source -> Nat] /\ need \in [Source -> Nat] /\ excused \in [Source -> Nat]
      /\ att \in [Child -> [Source -> Nat]] /\ attempted \in [Child -> BOOLEAN]
      /\ again \in [Child -> BOOLEAN]
  BY <1>a DEF TypeOK, ControlOK, LedgerOK, BatchOK
<1>0. ASSUME UNCHANGED vars PROVE Goal
  BY <1>0 DEF vars, Entries, Batches, GivenUp, Collected
<1>c. ASSUME NEW c \in Child, DueNow(c), NEW s \in Dirty PROVE dirty[s] > excused[s]
  <2>1. pc[c] = "due"
    BY <1>c DEF DueNow
  <2>2. ~ \E d \in Child : Collected(d)
    <3>1. ASSUME NEW d \in Child, Collected(d) PROVE FALSE
      <4>1. c = d
        BY <1>a, <2>1, <3>1, OneBatch DEF SchedZone
      <4> QED  BY <2>1, <3>1, <4>1 DEF Collected
    <3> QED  BY <3>1
  <2> QED  BY <1>b, <2>2 DEF GivenUp, Dirty
<1>1. ASSUME NEW h \in Hook, Event(h) \/ HookStep(h) PROVE Goal
  <2>1. CASE Event(h) \/ Check(h)
    BY <2>1, <1>a, <1>b, BatchUntouched DEF Event, Check
  <2>2. CASE Mark(h)
    <3> DEFINE t == src[h]
    <3>1. t \in Source /\ h \notin Child
      BY <1>a DEF TypeOK, ControlOK
    <3>2. /\ need' = [need EXCEPT ![t] = @ + 1] /\ dirty' = [dirty EXCEPT ![t] = need[t] + 1]
          /\ pc' = [pc EXCEPT ![h] = "claim"]
          /\ UNCHANGED <<excused, att, attempted, range>>
      BY <1>b, <2>2, <3>1 DEF Mark
    <3> HIDE DEF t
    <3>3. Entries'
      BY <1>b, <3>1, <3>2 DEF Entries
    <3>4. Batches'
      <4>1. \A s \in Source : need[s] \in Nat /\ need'[s] \in Nat /\ need[s] <= need'[s]
        BY <1>b, <3>1, <3>2
      <4>2. \A c \in Child, s \in Source : att[c][s] \in Nat
        BY <1>b
      <4>3. \A c \in Child : pc'[c] = pc[c]
        BY <3>1, <3>2, <1>b
      <4> QED  BY <3>2, <4>1, <4>2, <4>3 DEF Batches
    <3>5. GivenUp'
      <4>1. \A c \in Child : Collected(c)' <=> Collected(c)
        BY <1>b, <3>1, <3>2 DEF Collected
      <4>2. ~(excused'[t] >= dirty'[t])
        BY <1>b, <3>1, <3>2 DEF Entries
      <4> QED  BY <1>b, <3>1, <3>2, <4>1, <4>2 DEF GivenUp
    <3> QED  BY <3>3, <3>4, <3>5
  <2> QED  BY <1>1, <2>1, <2>2 DEF HookStep
<1>2. ASSUME NEW p \in Launcher, LaunchStep(p) PROVE Goal
  <2>1. CASE Claim(p) \/ SpawnFails(p) \/ SpawnStops(p) \/ Handshake(p) \/ Unlaunch(p)
    <3>1. /\ UNCHANGED <<dirty, need, excused, att, attempted, range>>
          /\ pc[p] \notin SchedZone
          /\ \E to \in {"spawn", "off", "unlaunch"} : pc' = [pc EXCEPT ![p] = to]
      BY <2>1 DEF Claim, SpawnFails, SpawnStops, Handshake, Unlaunch, SchedZone, SyncZone
    <3> QED  BY <1>a, <1>b, <3>1, BatchUntouched DEF SchedZone, SyncZone, Collected
  <2>2. CASE Spawn(p)
    <3>1. PICK c \in Child : pc[c] = "off" /\ pc' = [pc EXCEPT ![p] = "handshake", ![c] = "start"]
      BY <2>2 DEF Spawn
    <3>2. pc[p] = "spawn" /\ UNCHANGED <<dirty, need, excused, att, attempted, range>>
      BY <2>2 DEF Spawn
    <3>3. \A d \in Child : Collected(d) => Collected(d)'
      BY <1>b, <3>1, <3>2 DEF Collected
    <3>4. Entries' /\ GivenUp'
      BY <3>2, <3>3 DEF Entries, GivenUp
    <3>5. Batches'
      BY <1>b, <3>1, <3>2 DEF Batches, SchedZone, SyncZone
    <3> QED  BY <3>4, <3>5
  <2> QED  BY <1>2, <2>1, <2>2 DEF LaunchStep
<1>3. ASSUME NEW c \in Child, ChildStep(c) PROVE Goal
  <2>1. CASE Start(c)
    <3>1. /\ UNCHANGED <<dirty, need, excused, att, range>> /\ pc[c] = "start"
          /\ \E to \in {"due", "off"} : pc' = [pc EXCEPT ![c] = to]
          /\ attempted' \in {attempted, [attempted EXCEPT ![c] = FALSE]}
      BY <2>1 DEF Start
    <3> QED  BY <1>a, <1>b, <3>1, BatchUntouched DEF SchedZone, SyncZone, Collected
  <2>2. CASE DueNothing(c) \/ Release(c) \/ Remain(c)
    <3>1. /\ UNCHANGED <<dirty, need, excused, att, attempted, range>>
          /\ pc[c] \in {"due", "release", "remain"}
          /\ \E to \in {"finish", "remain", "claim", "off"} : pc' = [pc EXCEPT ![c] = to]
      BY <2>2 DEF DueNothing, Release, Remain
    <3> QED  BY <1>a, <1>b, <3>1, BatchUntouched DEF SchedZone, SyncZone, Collected
  <2>3. CASE Record(c)
    <3>1. /\ UNCHANGED <<dirty, need, excused, att, attempted, range>>
          /\ pc[c] = "record" /\ pc' = [pc EXCEPT ![c] = "finish"]
      BY <2>3 DEF Record
    <3> QED  BY <1>a, <1>b, <3>1, BatchUntouched DEF SchedZone, SyncZone, Collected
  <2>4. CASE DueDisconnected(c) \/ DueNow(c)
    <3>1. /\ UNCHANGED <<dirty, need, excused>> /\ pc[c] = "due"
          /\ att' = [att EXCEPT ![c] = dirty]
          /\ \/ pc' = [pc EXCEPT ![c] = "drop"] /\ UNCHANGED <<attempted, range>>
             \/ /\ pc' = [pc EXCEPT ![c] = "sync"]
                /\ attempted' = [attempted EXCEPT ![c] = TRUE]
                /\ range' = [range EXCEPT ![c] = 0]
      BY <2>4 DEF DueDisconnected, DueNow
    <3>2. Entries'
      BY <3>1 DEF Entries
    <3>3. Batches'
      <4>1. \A s \in Source : dirty[s] <= need[s]
        BY <1>b DEF Entries
      <4> QED  BY <1>b, <3>1, <4>1 DEF Batches, SchedZone, SyncZone
    <3>4. GivenUp'
      <4>1. ASSUME NEW d \in Child, Collected(d), attempted[d]
            PROVE  d # c /\ Collected(d)' /\ attempted'[d] /\ att'[d] = att[d]
        BY <1>b, <3>1, <4>1 DEF Collected
      <4> QED  BY <3>1, <4>1 DEF GivenUp
    <3> QED  BY <3>2, <3>3, <3>4
  <2>5. CASE Drop(c)
    <3>1. /\ dirty' = Cleared(dirty, att[c]) /\ excused' = Later(excused, att[c])
          /\ pc[c] = "drop" /\ pc' = [pc EXCEPT ![c] = "finish"]
          /\ UNCHANGED <<need, att, attempted, range>>
      BY <2>5 DEF Drop
    <3>2. Entries'
      BY <1>b, <3>1 DEF Entries, Batches, Cleared, Later
    <3>3. Batches'
      BY <1>b, <3>1 DEF Batches, SchedZone, SyncZone
    <3>4. GivenUp'
      <4>1. ASSUME NEW s \in Source, dirty'[s] # 0, excused'[s] >= dirty'[s]
            PROVE  dirty'[s] = dirty[s] /\ excused[s] >= dirty[s]
        <5>1. dirty'[s] = dirty[s] /\ dirty[s] # att[c][s]
          BY <1>b, <3>1, <4>1 DEF Cleared
        <5>2. att[c][s] <= dirty[s]
          BY <4>1, <5>1 DEF Entries, Batches
        <5>3. att[c][s] \in Nat /\ dirty[s] \in Nat /\ excused[s] \in Nat
          BY <1>b
        <5>4. excused'[s] = excused[s] \/ excused'[s] = att[c][s]
          BY <3>1 DEF Later
        <5> QED  BY <4>1, <5>1, <5>2, <5>3, <5>4
      <4>2. \A d \in Child : Collected(d) => Collected(d)'
        BY <1>b, <3>1 DEF Collected
      <4> QED  BY <3>1, <4>1, <4>2 DEF GivenUp
    <3> QED  BY <3>2, <3>3, <3>4
  <2>6. CASE Finish(c)
    <3>1. /\ dirty' = IF attempted[c] THEN Cleared(dirty, att[c]) ELSE dirty
          /\ pc[c] = "finish" /\ pc' = [pc EXCEPT ![c] = "release"]
          /\ UNCHANGED <<need, excused, att, attempted, range>>
      BY <2>6 DEF Finish
    <3>2. Entries'
      BY <1>b, <3>1 DEF Entries, Cleared
    <3>3. Batches'
      BY <1>b, <3>1 DEF Batches, SchedZone, SyncZone
    <3>4. GivenUp'
      <4>1. ASSUME NEW s \in Source, dirty'[s] # 0, excused'[s] >= dirty'[s]
            PROVE  \E d \in Child : Collected(d)' /\ attempted'[d] /\ att'[d][s] = dirty'[s]
        <5>1. dirty'[s] = dirty[s] /\ (attempted[c] => dirty[s] # att[c][s])
          BY <1>b, <3>1, <4>1 DEF Cleared
        <5>2. PICK d \in Child : Collected(d) /\ attempted[d] /\ att[d][s] = dirty[s]
          BY <3>1, <4>1, <5>1 DEF GivenUp
        <5>3. d # c
          BY <5>1, <5>2
        <5>4. Collected(d)'
          BY <1>b, <3>1, <5>2, <5>3 DEF Collected
        <5> QED  BY <3>1, <5>1, <5>2, <5>4
      <4> QED  BY <4>1 DEF GivenUp
    <3> QED  BY <3>2, <3>3, <3>4
  <2> QED  BY <1>3, <2>1, <2>2, <2>3, <2>4, <2>5, <2>6 DEF ChildStep
<1>d. ASSUME NEW p \in Syncer, NEW from \in SyncZone, Failed(p, from) PROVE Goal
  <2>1. /\ UNCHANGED <<dirty, need, att, attempted, range>> /\ pc[p] \in SyncZone
        /\ excused' = IF p \in Child THEN Later(excused, att[p]) ELSE excused
        /\ pc' = [pc EXCEPT ![p] = IF p \in Child THEN "record" ELSE "off"]
    BY <1>d DEF Failed
  <2>2. CASE p \in Child
    <3>1. attempted[p] /\ pc'[p] = "record" /\ excused' = Later(excused, att[p])
      BY <1>b, <2>1, <2>2 DEF Batches, SchedZone, SyncZone
    <3>2. Entries'
      BY <1>b, <2>1, <2>2, <3>1 DEF Entries, Batches, Later
    <3>3. Batches'
      BY <1>b, <2>1, <2>2, <3>1 DEF Batches
    <3>4. GivenUp'
      <4>1. ASSUME NEW s \in Source, dirty'[s] # 0, excused'[s] >= dirty'[s]
            PROVE  excused[s] >= dirty[s] \/ att[p][s] = dirty[s]
        <5>1. att[p][s] <= dirty[s]
          BY <2>1, <2>2, <4>1 DEF Entries, Batches
        <5>2. att[p][s] \in Nat /\ dirty[s] \in Nat /\ excused[s] \in Nat /\ dirty'[s] = dirty[s]
          BY <1>b, <2>1, <2>2
        <5>3. excused'[s] = excused[s] \/ excused'[s] = att[p][s]
          BY <3>1 DEF Later
        <5> QED  BY <4>1, <5>1, <5>2, <5>3
      <4>2. \A d \in Child : Collected(d) => Collected(d)'
        BY <1>b, <2>1, <2>2 DEF Collected
      <4>3. Collected(p)' /\ attempted'[p]
        BY <2>1, <3>1 DEF Collected
      <4> QED  BY <2>1, <2>2, <4>1, <4>2, <4>3 DEF GivenUp
    <3> QED  BY <3>2, <3>3, <3>4
  <2>3. CASE p \notin Child
    BY <1>a, <1>b, <2>1, <2>3, BatchUntouched
  <2> QED  BY <2>2, <2>3
<1>5. ASSUME NEW p \in Syncer, SyncStep(p) PROVE Goal
  <2>1. CASE Enter(p) \/ Acquire(p) \/ Locked(p) \/ ReadLedger(p)
    <3>1. /\ UNCHANGED <<dirty, need, excused, att, attempted, range>>
          /\ pc[p] \in {"sync", "wait", "locked", "drain"}
          /\ \E to \in {"wait", "locked", "drain", "collect"} : pc' = [pc EXCEPT ![p] = to]
      BY <2>1 DEF Enter, Acquire, Locked, ReadLedger
    <3> QED  BY <1>a, <1>b, <3>1, BatchUntouched DEF Batches, SchedZone, SyncZone, Collected
  <2>2. CASE EnterSkipped(p) \/ WaitExpires(p) \/ LockedSkipped(p)
    <3>1. /\ UNCHANGED <<dirty, need, excused, att, range>>
          /\ pc[p] \in {"sync", "wait", "locked"}
          /\ \E to \in {"due", "finish", "off"} :
               pc' = [pc EXCEPT ![p] = to] /\ (to = "off" => p \notin Child)
                 /\ (to = "due" => range[p] = 0)
          /\ attempted' = [c \in Child |-> IF c = p /\ p \in Child /\ range[p] = 0
                                           THEN FALSE ELSE attempted[c]]
      BY <2>2 DEF EnterSkipped, WaitExpires, LockedSkipped, Skipped
    <3>2. PICK to \in {"due", "finish", "off"} :
            /\ pc' = [pc EXCEPT ![p] = to] /\ (to = "off" => p \notin Child)
            /\ (to = "due" => range[p] = 0)
      BY <3>1
    <3>3. p \in Child /\ Collected(p) => range[p] > 0 /\ to = "finish"
      BY <1>b, <3>1, <3>2 DEF Collected
    <3>4. p \in Child /\ Collected(p) /\ attempted[p] => Collected(p)' /\ attempted'[p]
      BY <1>b, <3>1, <3>2, <3>3 DEF Collected
    <3> QED  BY <1>a, <1>b, <3>1, <3>2, <3>4, BatchUntouched
  <2>3. CASE Collect(p)
    <3>1. PICK ok \in SUBSET Source :
            excused' = IF p \in Child /\ range[p] = 0
                       THEN Later(excused, [s \in Source |-> IF s \in ok THEN 0 ELSE att[p][s]])
                       ELSE excused
      BY <2>3 DEF Collect, Selected
    <3>2. /\ UNCHANGED <<dirty, need, att, attempted, range>>
          /\ pc[p] = "collect" /\ pc' = [pc EXCEPT ![p] = "persist"]
      BY <2>3 DEF Collect
    <3>3. CASE p \in Child
      <4>1. attempted[p]
        BY <3>2, <3>3 DEF Batches, SchedZone, SyncZone
      <4>2. \A s \in Source : excused'[s] = excused[s] \/ excused'[s] = att[p][s]
        BY <1>b, <3>1, <3>3 DEF Later
      <4>3. Entries'
        BY <1>b, <3>2, <3>3, <4>2 DEF Entries, Batches
      <4>4. Batches'
        BY <1>b, <3>2, <3>3, <4>1 DEF Batches
      <4>5. GivenUp'
        <5>1. ASSUME NEW s \in Source, dirty'[s] # 0, excused'[s] >= dirty'[s]
              PROVE  excused[s] >= dirty[s] \/ att[p][s] = dirty[s]
          <6>1. att[p][s] <= dirty[s]
            BY <3>2, <3>3, <5>1 DEF Entries, Batches
          <6>2. att[p][s] \in Nat /\ dirty[s] \in Nat /\ excused[s] \in Nat /\ dirty'[s] = dirty[s]
            BY <1>b, <3>2, <3>3
          <6>3. excused'[s] = excused[s] \/ excused'[s] = att[p][s]
            BY <4>2
          <6> QED  BY <5>1, <6>1, <6>2, <6>3
        <5>2. \A d \in Child : Collected(d) => Collected(d)'
          BY <1>b, <3>2, <3>3 DEF Collected
        <5>3. Collected(p)' /\ attempted'[p]
          BY <1>b, <3>2, <3>3, <4>1 DEF Collected
        <5> QED  BY <3>2, <3>3, <5>1, <5>2, <5>3 DEF GivenUp
      <4> QED  BY <4>3, <4>4, <4>5
    <3>4. CASE p \notin Child
      BY <1>a, <1>b, <3>1, <3>2, <3>4, BatchUntouched
    <3> QED  BY <3>3, <3>4
  <2>4. CASE Persist(p) \/ Deliver(p)
    <3>1. /\ UNCHANGED <<dirty, need, excused, att, attempted, range>>
          /\ pc[p] \in {"persist", "deliver"}
          /\ \E to \in {"deliver", "clear"} : pc' = [pc EXCEPT ![p] = to]
      BY <2>4 DEF Persist, Deliver
    <3> QED  BY <1>a, <1>b, <3>1, BatchUntouched DEF Batches, SchedZone, SyncZone, Collected
  <2>5. CASE Clear(p)
    <3>1. /\ dirty' = Cleared(dirty, claims[p]) /\ UNCHANGED <<need, excused, att, attempted, range>>
          /\ pc[p] = "clear" /\ pc' = [pc EXCEPT ![p] = "unlock"]
      BY <2>5 DEF Clear
    <3>2. Entries'
      BY <1>b, <3>1 DEF Entries, Cleared
    <3>3. Batches'
      BY <1>b, <3>1 DEF Batches, SchedZone, SyncZone
    <3>4. GivenUp'
      <4>1. \A s \in Source : dirty'[s] # 0 => dirty'[s] = dirty[s]
        BY <1>b, <3>1 DEF Cleared
      <4>2. \A d \in Child : Collected(d) => Collected(d)'
        BY <1>b, <3>1 DEF Collected
      <4> QED  BY <3>1, <4>1, <4>2 DEF GivenUp
    <3> QED  BY <3>2, <3>3, <3>4
  <2>6. CASE Unlock(p)
    <3>1. /\ UNCHANGED <<dirty, need, excused, att, attempted>> /\ pc[p] = "unlock"
          /\ \/ pc' = [pc EXCEPT ![p] = "sync"] /\ range' = [range EXCEPT ![p] = @ + 1]
             \/ /\ pc' = [pc EXCEPT ![p] = IF p \in Child THEN "finish" ELSE "off"]
                /\ range' = range
      BY <2>6 DEF Unlock
    <3>2. p \in Child => attempted[p]
      BY <3>1 DEF Batches, SchedZone, SyncZone
    <3>3. p \in Child => Collected(p)'
      BY <1>b, <3>1 DEF Collected
    <3> QED  BY <1>a, <1>b, <3>1, <3>2, <3>3, BatchUntouched
  <2>7. CASE Fails(p)
    <3>1. \E from \in SyncZone : Failed(p, from)
      BY <2>7 DEF Fails, SyncZone
    <3> QED  BY <1>d, <3>1
  <2>8. CASE Revoked(p)
    <3>1. /\ UNCHANGED <<dirty, need, excused, att, attempted, range>>
          /\ pc[p] \in {"drain", "deliver"} /\ pc' = [pc EXCEPT ![p] = "gate"]
      BY <2>8 DEF Revoked
    <3> QED  BY <1>a, <1>b, <3>1, BatchUntouched DEF Batches, SchedZone, SyncZone, Collected
  <2> QED  BY <1>5, <2>1, <2>2, <2>3, <2>4, <2>5, <2>6, <2>7, <2>8 DEF SyncStep
<1>4. ASSUME NEW m \in Manual, Begin(m) PROVE Goal
  <2>1. /\ UNCHANGED <<dirty, need, excused, att, attempted>> /\ m \notin Child
        /\ pc' = [pc EXCEPT ![m] = "sync"] /\ range' = [range EXCEPT ![m] = 0]
    BY <1>4 DEF Begin
  <2> QED  BY <1>a, <1>b, <2>1, BatchUntouched
<1>6. ASSUME NEW p \in Syncer \cup Life, Gate(p) \/ Wipe(p) \/ Stop(p) PROVE Goal
  <2>1. CASE Gate(p) \/ Stop(p)
    <3>1. /\ UNCHANGED <<dirty, need, excused, att, attempted, range>>
          /\ pc[p] \in {"gate", "stop"}
          /\ \E to \in {"wipe", "ungate"} : pc' = [pc EXCEPT ![p] = to]
      BY <2>1 DEF Gate, Stop
    <3> QED  BY <1>a, <1>b, <3>1, BatchUntouched DEF Batches, SchedZone, SyncZone, Collected
  <2>2. CASE Wipe(p)
    <3>1. /\ dirty' = Nothing /\ excused' = Later(excused, dirty)
          /\ pc[p] = "wipe" /\ pc' = [pc EXCEPT ![p] = "stop"]
          /\ UNCHANGED <<need, att, attempted>>
      BY <2>2 DEF Wipe
    <3>2. Entries'
      BY <1>b, <3>1 DEF Entries, Nothing, Later
    <3>3. GivenUp'
      BY <3>1 DEF GivenUp, Nothing
    <3>4. Batches'
      BY <1>b, <3>1 DEF Batches, SchedZone, SyncZone
    <3> QED  BY <3>2, <3>3, <3>4
  <2> QED  BY <1>6, <2>1, <2>2
<1>8. ASSUME NEW p \in Syncer \cup Life, Ungate(p) PROVE Goal
  <2>1. CASE p \in Syncer /\ Failed(p, "ungate")
    BY <1>d, <2>1 DEF SyncZone
  <2>2. CASE p \in Life /\ UNCHANGED <<dirty, need, excused, att, attempted, range>>
               /\ pc' = [pc EXCEPT ![p] = "unmark"]
    BY <1>a, <1>b, <2>2, BatchUntouched
  <2> QED  BY <1>8, <2>1, <2>2 DEF Ungate
<1>7. ASSUME NEW l \in Life, LifeBegin(l) \/ LifeStep(l) PROVE Goal
  <2>1. /\ UNCHANGED <<dirty, need, excused, att, attempted, range>> /\ l \notin Child
        /\ \E to \in PCs : pc' = [pc EXCEPT ![l] = to]
    BY <1>7 DEF LifeBegin, LifeStep, LifeAcquire, LifeExpires, LifeRun, Unmark, PCs
  <2> QED  BY <1>a, <1>b, <2>1, BatchUntouched
<1>9. [Next]_vars /\ \A p \in Proc : ~Crash(p)
  BY DEF OwnersNext, Crash
<1>10. Goal
  BY <1>0, <1>1, <1>2, <1>3, <1>4, <1>5, <1>6, <1>7, <1>8, <1>9 DEF Next, DisableStep
<1> QED  BY <1>c, <1>10

(* An automatic attempt is never started for a generation that an earlier  *)
(* attempt has failed or a disconnect dropped, as long as no process dies: *)
(* the scheduler that gave up still holds the lock, and clears the ledger  *)
(* before it releases it.                                                  *)
THEOREM OneAttempt ==
  ASSUME "crash" \notin Faults
  PROVE  Spec => AttemptedOnce
<1> DEFINE Inv == OwnersInv /\ Entries /\ Batches /\ GivenUp
           Fresh == \A c \in Child : DueNow(c) => \A s \in Dirty : dirty[s] > excused[s]
<1>1. Init => Inv
  <2>1. Init => Entries /\ Batches /\ GivenUp
    BY DEF Init, Nothing, Entries, Batches, GivenUp, SchedZone, SyncZone
  <2> QED  BY <2>1, OwnersInit
<1>2. Inv /\ [Next]_vars => Inv' /\ Fresh
  <2> SUFFICES ASSUME Inv, [Next]_vars PROVE Inv' /\ Fresh
    OBVIOUS
  <2>1. BatchNext
    BY OwnersHold DEF BatchNext, OwnersNext
  <2> QED  BY <2>1, OwnersHold, BatchStep
<1> HIDE DEF Inv
<1>3. Inv /\ [Next]_vars => [Fresh]_vars
  BY <1>2
<1> QED  BY <1>1, <1>2, <1>3, PTL DEF Spec, AttemptedOnce
=============================================================================
