------------------------------ MODULE Scheduler ------------------------------
(***************************************************************************)
(* Automatic collection in the connector: hooks, the dirty ledger, the     *)
(* short-lived scheduler process, the single-flight sync and the lifecycle *)
(* commands (packages/connector/bin/viberacing.mjs and lib/runtime.mjs).   *)
(*                                                                         *)
(* An agent event starts a hook, which gives its source a new generation   *)
(* in dirty.json and, under the scheduler-launch lock, spawns a scheduler  *)
(* child and waits for its handshake.  The child that wins the scheduler   *)
(* lock waits for the debounce, claims the generations it sees, runs one   *)
(* sync, removes the claimed generations and, when newer ones remain,      *)
(* launches a successor.  A sync is a rolling range (the last 31 days)     *)
(* followed by history ranges that end before it; each takes the sync lock *)
(* on its own, collects, persists, delivers and removes the generations it *)
(* read.  A manual sync collects every source.  A lifecycle command and a  *)
(* revoked authorization remove the configuration and clear the ledger.    *)
(*                                                                         *)
(* The lock files are the mutexes of OwnedLock.tla: a variable per lock,   *)
(* free again when its owner dies.  Reading dirty.json or the config is    *)
(* one step (both are replaced by rename).  Which sources succeed, how     *)
(* long a wait lasts and which fault strikes is left open.                 *)
(***************************************************************************)
EXTENDS Naturals, FiniteSets

CONSTANTS
  Source,       \* physical profiles, the keys of dirty.json
  Hook,         \* hook processes
  Child,        \* scheduler processes
  Manual,       \* processes running `viberacing sync`
  Life,         \* processes running a lifecycle command
  None,         \* nobody holds the lock
  Faults,       \* what may go wrong
  MaxEvents,    \* bound: agent events per source
  MaxManual,    \* bound: manual syncs and lifecycle commands
  MaxHistory    \* history ranges a sync may run after its rolling range

FaultKinds ==
  {"network", "collector", "lockTimeout", "handshake", "spawn", "crash", "revoked"}

ASSUME ConstantsAssumption ==
  /\ Source # {}
  /\ Faults \subseteq FaultKinds
  /\ MaxEvents \in Nat /\ MaxManual \in Nat /\ MaxHistory \in Nat
  /\ None \notin Hook \cup Child \cup Manual \cup Life
  /\ Hook \cap (Child \cup Manual \cup Life) = {}
  /\ Child \cap (Manual \cup Life) = {}
  /\ Manual \cap Life = {}

Syncer == Child \cup Manual
Launcher == Hook \cup Child
Proc == Hook \cup Child \cup Manual \cup Life
Gen == Nat                     \* generation 0: no entry

VARIABLES
  pc,          \* what each process is about to do
  dirty,       \* dirty.json: the generation of each source
  need,        \* the last generation each source was ever given
  got,         \* the generation up to which a source's recent days are collected
  excused,     \* the generation up to which an attempt failed or a disconnect wiped
  count,       \* manual syncs and lifecycle commands started
  dirtyLock, launchLock, schedLock, syncLock,   \* owners
  marker,      \* is the lifecycle marker set?
  connected,   \* does the configuration exist?
  src,         \* the source a hook was started for
  child,       \* the child whose handshake a launcher awaits
  tries,       \* launch attempts left
  said,        \* the handshake a child has sent
  att,         \* attemptedClaims of a child
  attempted,   \* attempted, of a child
  again,       \* deferredLockRetryAvailable, of a child
  claims,      \* the generations a running range read, then those it may clear
  obs,         \* what the running range collected of each source
  range        \* 0: the rolling range; k: the k-th history range

locks == <<dirtyLock, launchLock, schedLock, syncLock>>
ledger == <<dirty, need, got, excused>>
mode == <<marker, connected>>
launching == <<src, child, tries, said>>
batch == <<att, attempted, again>>
syncing == <<claims, obs, range>>
vars == <<pc, ledger, count, locks, mode, launching, batch, syncing>>

PCs ==
  {"off", "check", "mark"}                                          \* a hook
    \cup {"claim", "spawn", "handshake", "unlaunch"}                \* a launcher
    \cup {"start", "due", "drop", "record", "finish", "release", "remain"}
    \cup {"sync", "wait", "locked", "drain", "collect", "persist",  \* a sync
           "deliver", "clear", "unlock"}
    \cup {"lifewait", "life", "unmark"}                             \* a command
    \cup {"gate", "wipe", "stop", "ungate"}                         \* a disconnect

ControlOK ==
  /\ pc \in [Proc -> PCs]
  /\ count \in 0 .. MaxManual
  /\ src \in [Hook -> Source]
  /\ child \in [Launcher -> Child \cup {None}]
  /\ tries \in [Launcher -> 0 .. 3]
  /\ said \in [Child -> {"nothing", "acquired", "lost", "exited"}]
  /\ range \in [Syncer -> 0 .. MaxHistory]

LocksOK ==
  /\ dirtyLock \in Hook \cup {None}
  /\ launchLock \in Proc \cup {None}
  /\ schedLock \in Child \cup {None}
  /\ syncLock \in Syncer \cup Life \cup {None}
  /\ marker \in BOOLEAN /\ connected \in BOOLEAN

LedgerOK ==
  /\ dirty \in [Source -> Gen] /\ need \in [Source -> Gen] /\ got \in [Source -> Gen]
  /\ excused \in [Source -> Gen]

BatchOK ==
  /\ att \in [Child -> [Source -> Gen]]
  /\ attempted \in [Child -> BOOLEAN] /\ again \in [Child -> BOOLEAN]
  /\ claims \in [Syncer -> [Source -> Gen]]
  /\ obs \in [Syncer -> [Source -> Gen]]

TypeOK == ControlOK /\ LocksOK /\ LedgerOK /\ BatchOK

Nothing == [s \in Source |-> 0]

Init ==
  /\ pc = [p \in Proc |-> "off"]
  /\ dirty = Nothing /\ need = Nothing /\ got = Nothing
  /\ excused = Nothing /\ count = 0
  /\ dirtyLock = None /\ launchLock = None /\ schedLock = None /\ syncLock = None
  /\ marker = FALSE /\ connected = TRUE
  /\ src = [h \in Hook |-> CHOOSE s \in Source : TRUE]
  /\ child = [p \in Launcher |-> None]
  /\ tries = [p \in Launcher |-> 0]
  /\ said = [c \in Child |-> "nothing"]
  /\ att = [c \in Child |-> Nothing]
  /\ attempted = [c \in Child |-> FALSE]
  /\ again = [c \in Child |-> FALSE]
  /\ claims = [p \in Syncer |-> Nothing]
  /\ obs = [p \in Syncer |-> Nothing]
  /\ range = [p \in Syncer |-> 0]

Goto(p, from, to) == pc[p] = from /\ pc' = [pc EXCEPT ![p] = to]

(* Mutation: the generation is not compared. *)
ClearedAnyway(d, c) == [s \in Source |-> IF c[s] # 0 THEN 0 ELSE d[s]]

(* clearDirty(claims): remove the entries whose generation still matches.  *)
Cleared(d, c) == [s \in Source |-> IF d[s] = c[s] THEN 0 ELSE d[s]]

Dirty == {s \in Source : dirty[s] # 0}

Later(f, g) == [s \in Source |-> IF f[s] < g[s] THEN g[s] ELSE f[s]]

-----------------------------------------------------------------------------
(* hook: an agent event marks its source dirty *)

(* The agent starts a hook; connectedStateExists is checked before the lock. *)
Event(h) ==
  /\ Goto(h, "off", "check")
  /\ connected
  /\ \E s \in Source :
       /\ need[s] + Cardinality({g \in Hook : pc[g] \in {"check", "mark"} /\ src[g] = s})
            < MaxEvents
       /\ src' = [src EXCEPT ![h] = s]
  /\ UNCHANGED <<ledger, count, locks, mode, child, tries, said, batch, syncing>>

(* Mutation: the check is made before the dirty lock is taken. *)
CheckUnlocked(h) ==
  /\ \/ ~marker /\ connected /\ Goto(h, "check", "mark")
     \/ (marker \/ ~connected) /\ Goto(h, "check", "off")
  /\ UNCHANGED <<ledger, count, locks, mode, launching, batch, syncing>>

(* Under the dirty lock: a lifecycle command or a missing config ends it.  *)
Check(h) ==
  /\ dirtyLock = None
  /\ \/ /\ ~marker /\ connected
        /\ Goto(h, "check", "mark")
        /\ dirtyLock' = h
     \/ /\ marker \/ ~connected
        /\ Goto(h, "check", "off")
        /\ UNCHANGED dirtyLock
  /\ UNCHANGED <<ledger, count, launchLock, schedLock, syncLock, mode, launching, batch, syncing>>

Mark(h) ==
  /\ Goto(h, "mark", "claim")
  /\ need' = [need EXCEPT ![src[h]] = @ + 1]
  /\ dirty' = [dirty EXCEPT ![src[h]] = need'[src[h]]]
  /\ dirtyLock' = None
  /\ UNCHANGED <<got, excused, count, launchLock, schedLock, syncLock, mode, launching, batch, syncing>>

-----------------------------------------------------------------------------
(* launchAutomaticScheduler, by a hook or by a finished scheduler *)

(* claimSchedulerLaunch does not wait; a busy launch lock ends the launcher. *)
Claim(p) ==
  /\ \/ /\ launchLock = None /\ (p \in Child => connected /\ ~marker)
        /\ Goto(p, "claim", "spawn")
        /\ launchLock' = p
        /\ tries' = [tries EXCEPT ![p] = 3]
     \/ /\ launchLock # None \/ (p \in Child /\ (~connected \/ marker))
        /\ Goto(p, "claim", "off")
        /\ UNCHANGED <<launchLock, tries>>
  /\ UNCHANGED <<ledger, count, dirtyLock, schedLock, syncLock, mode, src, child, said, batch, syncing>>

Spawn(p) ==
  /\ pc[p] = "spawn"
  /\ ~marker /\ connected /\ tries[p] > 0
  /\ \E c \in Child :
       /\ pc[c] = "off"
       /\ pc' = [pc EXCEPT ![p] = "handshake", ![c] = "start"]
       /\ child' = [child EXCEPT ![p] = c]
       /\ said' = [said EXCEPT ![c] = "nothing"]
  /\ UNCHANGED <<ledger, count, locks, mode, src, tries, batch, syncing>>

(* Mutation: launch attempts are not limited. *)
SpawnFailsUnlimited(p) ==
  /\ "spawn" \in Faults
  /\ Goto(p, "spawn", "spawn")
  /\ tries' = [tries EXCEPT ![p] = @ - 1]
  /\ UNCHANGED <<ledger, count, locks, mode, src, child, said, batch, syncing>>

SpawnFails(p) ==
  /\ "spawn" \in Faults
  /\ Goto(p, "spawn", "spawn")
  /\ ~marker /\ connected /\ tries[p] > 0
  /\ tries' = [tries EXCEPT ![p] = @ - 1]
  /\ UNCHANGED <<ledger, count, locks, mode, src, child, said, batch, syncing>>

SpawnStops(p) ==
  /\ Goto(p, "spawn", "unlaunch")
  /\ marker \/ ~connected \/ tries[p] = 0
  /\ UNCHANGED <<ledger, count, locks, mode, launching, batch, syncing>>

(* The child's message, or its exit without one, which is retried.  After  *)
(* the handshake timeout the launcher leaves and the child goes on alone.  *)
Handshake(p) ==
  /\ pc[p] = "handshake"
  /\ \/ /\ said[child[p]] \in {"acquired", "lost"} \/ "handshake" \in Faults
        /\ Goto(p, "handshake", "unlaunch")
        /\ UNCHANGED tries
     \/ /\ said[child[p]] = "exited"
        /\ Goto(p, "handshake", "spawn")
        /\ tries' = [tries EXCEPT ![p] = @ - 1]
  /\ UNCHANGED <<ledger, count, locks, mode, src, child, said, batch, syncing>>

Unlaunch(p) ==
  /\ Goto(p, "unlaunch", "off")
  /\ launchLock' = None
  /\ UNCHANGED <<ledger, count, dirtyLock, schedLock, syncLock, mode, launching, batch, syncing>>

-----------------------------------------------------------------------------
(* automaticSync: the scheduler process *)

(* claimConnectedScheduler: under the connection-state lock, so in one step *)
(* with respect to the lifecycle marker and the configuration.             *)
Start(c) ==
  /\ \/ /\ ~marker /\ connected /\ schedLock = None
        /\ Goto(c, "start", "due")
        /\ schedLock' = c
        /\ said' = [said EXCEPT ![c] = "acquired"]
        /\ attempted' = [attempted EXCEPT ![c] = FALSE]
        /\ again' = [again EXCEPT ![c] = TRUE]
     \/ /\ marker \/ ~connected \/ schedLock # None
        /\ Goto(c, "start", "off")
        /\ said' = [said EXCEPT ![c] = "lost"]
        /\ UNCHANGED <<schedLock, attempted, again>>
  /\ UNCHANGED <<ledger, count, dirtyLock, launchLock, syncLock, mode, src, child, tries, att, syncing>>

(* At any time of the wait, and at its end: nothing is dirty any more.     *)
DueNothing(c) ==
  /\ Goto(c, "due", "finish")
  /\ dirty = Nothing
  /\ UNCHANGED <<ledger, count, locks, mode, launching, batch, syncing>>

(* The config is gone: drop the generations seen, without an attempt. *)
DueDisconnected(c) ==
  /\ Goto(c, "due", "drop")
  /\ dirty # Nothing /\ ~connected
  /\ att' = [att EXCEPT ![c] = dirty]
  /\ UNCHANGED <<ledger, count, locks, mode, launching, attempted, again, syncing>>

Drop(c) ==
  /\ Goto(c, "drop", "finish")
  /\ dirtyLock = None
  /\ dirty' = Cleared(dirty, att[c])
  /\ excused' = Later(excused, att[c])
  /\ UNCHANGED <<need, got, count, locks, mode, launching, batch, syncing>>

(* The batch is due: its claims are the generations seen now. *)
DueNow(c) ==
  /\ Goto(c, "due", "sync")
  /\ dirty # Nothing /\ connected
  /\ att' = [att EXCEPT ![c] = dirty]
  /\ attempted' = [attempted EXCEPT ![c] = TRUE]
  /\ range' = [range EXCEPT ![c] = 0]
  /\ UNCHANGED <<ledger, count, locks, mode, launching, again, claims, obs>>

(* recordAutomaticSyncFailure takes the sync lock once more, or gives up. *)
Record(c) ==
  /\ Goto(c, "record", "finish")
  /\ marker \/ syncLock = None \/ "lockTimeout" \in Faults
  /\ UNCHANGED <<ledger, count, locks, mode, launching, batch, syncing>>

(* Mutation: a finished attempt leaves its claims in the ledger. *)
FinishKeeping(c) ==
  /\ Goto(c, "finish", "release")
  /\ UNCHANGED <<ledger, count, locks, mode, launching, batch, syncing>>

(* finally: clearDirty(attemptedClaims), releaseScheduler, look once more. *)
Finish(c) ==
  /\ Goto(c, "finish", "release")
  /\ dirtyLock = None
  /\ dirty' = IF attempted[c] THEN Cleared(dirty, att[c]) ELSE dirty
  /\ UNCHANGED <<need, got, excused, count, locks, mode, launching, batch, syncing>>

Release(c) ==
  /\ Goto(c, "release", "remain")
  /\ schedLock' = None
  /\ UNCHANGED <<ledger, count, dirtyLock, launchLock, syncLock, mode, launching, batch, syncing>>

NewGeneration(c) == attempted[c] /\ \E s \in Dirty : dirty[s] # att[c][s]

Remain(c) ==
  /\ Goto(c, "remain", IF NewGeneration(c) THEN "claim" ELSE "off")
  /\ UNCHANGED <<ledger, count, locks, mode, launching, batch, syncing>>

-----------------------------------------------------------------------------
(* sync and syncRange, by a scheduler or a manual sync *)

Begin(m) ==
  /\ Goto(m, "off", "sync")
  /\ connected /\ count < MaxManual
  /\ count' = count + 1
  /\ range' = [range EXCEPT ![m] = 0]
  /\ UNCHANGED <<ledger, locks, mode, launching, batch, claims, obs>>

(* withSyncLock is skipped: a skipped history range just ends the sync; a  *)
(* scheduler whose lock wait timed out tries once more, and otherwise      *)
(* leaves without having attempted its claims.                             *)
Skipped(p, from, lifecycle) ==
  LET rolling == p \in Child /\ range[p] = 0
      retry   == rolling /\ ~lifecycle /\ again[p]
  IN  /\ Goto(p, from, IF retry THEN "due" ELSE IF p \in Child THEN "finish" ELSE "off")
      /\ attempted' = [c \in Child |-> IF c = p /\ rolling THEN FALSE ELSE attempted[c]]
      /\ again' = [c \in Child |-> IF c = p /\ retry THEN FALSE ELSE again[c]]
      /\ UNCHANGED <<ledger, count, mode, launching, att, syncing>>

Enter(p) ==
  /\ Goto(p, "sync", "wait")
  /\ ~marker
  /\ UNCHANGED <<ledger, count, locks, mode, launching, batch, syncing>>

EnterSkipped(p) == marker /\ Skipped(p, "sync", TRUE) /\ UNCHANGED locks

Acquire(p) ==
  /\ Goto(p, "wait", "locked")
  /\ syncLock = None
  /\ syncLock' = p
  /\ UNCHANGED <<ledger, count, dirtyLock, launchLock, schedLock, mode, launching, batch, syncing>>

(* The bounded wait expires; a history range of a scheduler does not wait. *)
WaitExpires(p) ==
  /\ syncLock # None
  /\ "lockTimeout" \in Faults \/ (p \in Child /\ range[p] > 0)
  /\ Skipped(p, "wait", FALSE)
  /\ UNCHANGED locks

LockedSkipped(p) ==
  /\ marker
  /\ Skipped(p, "locked", TRUE)
  /\ syncLock' = None
  /\ UNCHANGED <<dirtyLock, launchLock, schedLock>>

Locked(p) ==
  /\ Goto(p, "locked", "drain")
  /\ ~marker
  /\ UNCHANGED <<ledger, count, locks, mode, launching, batch, syncing>>

(* Mutation: the claims are taken out of the ledger when they are read. *)
ReadLedgerTaking(p) ==
  /\ Goto(p, "drain", "collect")
  /\ connected
  /\ claims' = [claims EXCEPT ![p] = dirty]
  /\ dirty' = Nothing
  /\ UNCHANGED <<need, got, excused, count, locks, mode, launching, batch, obs, range>>

(* Pending payloads are drained, then the ledger is read: a scheduler and a *)
(* history range select some sources, a manual rolling range takes all.    *)
ReadLedger(p) ==
  /\ Goto(p, "drain", "collect")
  /\ connected
  /\ \E scope \in SUBSET Source :
       /\ range[p] = 0 => scope = Source
       /\ claims' = [claims EXCEPT ![p] = [s \in Source |-> IF s \in scope THEN dirty[s] ELSE 0]]
  /\ UNCHANGED <<ledger, count, locks, mode, launching, batch, obs, range>>

Selected(p) ==
  IF p \in Manual /\ range[p] = 0 THEN Source ELSE {s \in Source : claims[p][s] # 0}

(* Collectors run; only the rolling range reads the recent days.           *)
Collect(p) ==
  /\ Goto(p, "collect", "persist")
  /\ \E ok \in SUBSET Selected(p) :
       /\ "collector" \in Faults \/ ok = Selected(p)
       /\ claims' = [claims EXCEPT ![p] = [s \in Source |-> IF s \in ok THEN @[s] ELSE 0]]
       /\ obs' = [obs EXCEPT ![p] =
                    [s \in Source |-> IF range[p] = 0 /\ s \in ok THEN need[s] ELSE 0]]
       /\ excused' = IF p \in Child /\ range[p] = 0
                     THEN Later(excused, [s \in Source |-> IF s \in ok THEN 0 ELSE att[p][s]])
                     ELSE excused
  /\ UNCHANGED <<dirty, need, got, count, locks, mode, launching, batch, range>>

(* persistPendingWrite: from here on a crash or a failed upload loses nothing. *)
Persist(p) ==
  /\ Goto(p, "persist", "deliver")
  /\ ~marker
  /\ got' = Later(got, obs[p])
  /\ UNCHANGED <<dirty, need, excused, count, locks, mode, launching, batch, syncing>>

Deliver(p) ==
  /\ Goto(p, "deliver", "clear")
  /\ UNCHANGED <<ledger, count, locks, mode, launching, batch, syncing>>

(* clearSuccessfulDirty, in rolling and history ranges alike. *)
Clear(p) ==
  /\ Goto(p, "clear", "unlock")
  /\ dirtyLock = None
  /\ dirty' = Cleared(dirty, claims[p])
  /\ UNCHANGED <<need, got, excused, count, locks, mode, launching, batch, syncing>>

Unlock(p) ==
  /\ \/ /\ range[p] < MaxHistory
        /\ Goto(p, "unlock", "sync")
        /\ range' = [range EXCEPT ![p] = @ + 1]
     \/ /\ Goto(p, "unlock", IF p \in Child THEN "finish" ELSE "off")
        /\ UNCHANGED range
  /\ syncLock' = None
  /\ UNCHANGED <<ledger, count, dirtyLock, launchLock, schedLock, mode, launching, batch, claims, obs>>

(* The sync throws: the attempt is over, its claims are spent.             *)
Failed(p, from) ==
  /\ Goto(p, from, IF p \in Child THEN "record" ELSE "off")
  /\ excused' = IF p \in Child THEN Later(excused, att[p]) ELSE excused
  /\ syncLock' = None
  /\ UNCHANGED <<dirty, need, got, count, dirtyLock, launchLock, schedLock, mode, launching, batch, syncing>>

Fails(p) ==
  \/ ("network" \in Faults \/ ~connected) /\ Failed(p, "drain")
  \/ marker /\ Failed(p, "persist")
  \/ "network" \in Faults /\ Failed(p, "deliver")

-----------------------------------------------------------------------------
(* disableLocalConnection and the lifecycle commands *)

(* removeConfig, after a 401/403 answer inside a sync. *)
Revoked(p) ==
  /\ "revoked" \in Faults /\ connected
  /\ Goto(p, "drain", "gate") \/ Goto(p, "deliver", "gate")
  /\ connected' = FALSE
  /\ UNCHANGED <<ledger, count, locks, marker, launching, batch, syncing>>

(* withLifecycleMutation: the marker, then the sync lock. *)
LifeBegin(l) ==
  /\ Goto(l, "off", "lifewait")
  /\ ~marker /\ count < MaxManual
  /\ count' = count + 1
  /\ marker' = TRUE
  /\ UNCHANGED <<ledger, locks, connected, launching, batch, syncing>>

(* Mutation: a lifecycle command does not wait for the sync. *)
LifeAcquireAtOnce(l) ==
  /\ Goto(l, "lifewait", "life")
  /\ UNCHANGED <<ledger, count, locks, mode, launching, batch, syncing>>

LifeAcquire(l) ==
  /\ Goto(l, "lifewait", "life")
  /\ syncLock = None
  /\ syncLock' = l
  /\ UNCHANGED <<ledger, count, dirtyLock, launchLock, schedLock, mode, launching, batch, syncing>>

(* Mutation: a timed-out command keeps its marker. *)
LifeExpiresMarked(l) ==
  /\ "lockTimeout" \in Faults /\ syncLock # None
  /\ Goto(l, "lifewait", "off")
  /\ UNCHANGED <<ledger, count, locks, mode, launching, batch, syncing>>

LifeExpires(l) ==
  /\ "lockTimeout" \in Faults /\ syncLock # None
  /\ Goto(l, "lifewait", "unmark")
  /\ UNCHANGED <<ledger, count, locks, mode, launching, batch, syncing>>

(* A disconnect removes the config first; a connect writes it. *)
LifeRun(l) ==
  /\ Goto(l, "life", IF connected THEN "gate" ELSE "ungate")
  /\ connected' = ~connected
  /\ UNCHANGED <<ledger, count, locks, marker, launching, batch, syncing>>

(* clearAutomaticState: the launch lock keeps new schedulers away, the     *)
(* ledger is unlinked, then the running scheduler must stop.               *)
Gate(p) ==
  /\ \/ /\ Goto(p, "gate", "wipe")
        /\ launchLock = None
        /\ launchLock' = p
     \/ /\ Goto(p, "gate", "ungate")
        /\ launchLock # None /\ "lockTimeout" \in Faults
        /\ UNCHANGED launchLock
  /\ UNCHANGED <<ledger, count, dirtyLock, schedLock, syncLock, mode, launching, batch, syncing>>

Wipe(p) ==
  /\ Goto(p, "wipe", "stop")
  /\ dirtyLock = None
  /\ dirty' = Nothing
  /\ excused' = Later(excused, dirty)
  /\ UNCHANGED <<need, got, count, locks, mode, launching, batch, syncing>>

(* Mutation: the wait has no deadline and includes the caller's own lock. *)
StopUnbounded(p) ==
  /\ Goto(p, "stop", "ungate")
  /\ schedLock = None
  /\ launchLock' = None
  /\ UNCHANGED <<ledger, count, dirtyLock, schedLock, syncLock, mode, launching, batch, syncing>>

Stop(p) ==
  /\ Goto(p, "stop", "ungate")
  /\ schedLock \in {None, p} \/ "lockTimeout" \in Faults
  /\ launchLock' = None
  /\ UNCHANGED <<ledger, count, dirtyLock, schedLock, syncLock, mode, launching, batch, syncing>>

(* The sync lock is released; a revoked sync throws. *)
Ungate(p) ==
  /\ \/ p \in Syncer /\ Failed(p, "ungate")
     \/ /\ p \in Life
        /\ Goto(p, "ungate", "unmark")
        /\ syncLock' = None
        /\ UNCHANGED <<ledger, count, dirtyLock, launchLock, schedLock, mode, launching, batch, syncing>>

Unmark(l) ==
  /\ Goto(l, "unmark", "off")
  /\ marker' = FALSE
  /\ UNCHANGED <<ledger, count, locks, connected, launching, batch, syncing>>

(* A process dies; its lock files, the lifecycle marker among them, are    *)
(* recovered by the next process that wants them.                          *)
Crash(p) ==
  LET Freed(lock) == IF lock = p THEN None ELSE lock
  IN  /\ "crash" \in Faults
      /\ pc[p] # "off"
      /\ pc' = [pc EXCEPT ![p] = "off"]
      /\ dirtyLock' = Freed(dirtyLock) /\ launchLock' = Freed(launchLock)
      /\ schedLock' = Freed(schedLock) /\ syncLock' = Freed(syncLock)
      /\ marker' = (marker /\ p \notin Life)
      /\ said' = [c \in Child |-> IF c = p /\ said[c] = "nothing" THEN "exited" ELSE said[c]]
      /\ UNCHANGED <<ledger, count, connected, src, child, tries, batch, syncing>>

-----------------------------------------------------------------------------

HookStep(h) == Check(h) \/ Mark(h)

LaunchStep(p) ==
  \/ Claim(p) \/ Spawn(p) \/ SpawnFails(p) \/ SpawnStops(p)
  \/ Handshake(p) \/ Unlaunch(p)

ChildStep(c) ==
  \/ Start(c) \/ DueNothing(c) \/ DueDisconnected(c) \/ DueNow(c)
  \/ Drop(c) \/ Record(c) \/ Finish(c) \/ Release(c) \/ Remain(c)

SyncStep(p) ==
  \/ Enter(p) \/ EnterSkipped(p) \/ Acquire(p) \/ WaitExpires(p)
  \/ LockedSkipped(p) \/ Locked(p) \/ ReadLedger(p) \/ Collect(p)
  \/ Persist(p) \/ Deliver(p) \/ Clear(p) \/ Unlock(p) \/ Fails(p) \/ Revoked(p)

DisableStep(p) == Gate(p) \/ Wipe(p) \/ Stop(p) \/ Ungate(p)

LifeStep(l) == LifeAcquire(l) \/ LifeExpires(l) \/ LifeRun(l) \/ Unmark(l)

Next ==
  \/ \E h \in Hook : Event(h) \/ HookStep(h)
  \/ \E p \in Launcher : LaunchStep(p)
  \/ \E c \in Child : ChildStep(c)
  \/ \E m \in Manual : Begin(m)
  \/ \E p \in Syncer : SyncStep(p)
  \/ \E p \in Syncer \cup Life : DisableStep(p)
  \/ \E l \in Life : LifeBegin(l) \/ LifeStep(l)
  \/ \E p \in Proc : Crash(p)

Spec == Init /\ [][Next]_vars

(* A running process takes its next step: every wait is a bounded poll.    *)
(* Agents, users and faults owe nothing.                                   *)
Fairness ==
  /\ \A h \in Hook : WF_vars(HookStep(h))
  /\ \A p \in Launcher : WF_vars(LaunchStep(p))
  /\ \A c \in Child : WF_vars(ChildStep(c))
  /\ \A p \in Syncer : WF_vars(SyncStep(p))
  /\ \A p \in Syncer \cup Life : WF_vars(DisableStep(p))
  /\ \A l \in Life : WF_vars(LifeStep(l))

FairSpec == Spec /\ Fairness

-----------------------------------------------------------------------------
(* Properties *)

(* The generation-safe ledger: an event whose usage no rolling collection  *)
(* has covered is still in dirty.json, unless an automatic attempt that    *)
(* claimed it failed or a disconnect wiped it.  Claims are read before the *)
(* collectors run and cleared after the delivery, while hooks go on.       *)
NoLostEvent ==
  \A s \in Source :
    need[s] > got[s] => dirty[s] = need[s] \/ excused[s] >= need[s]

(* One generation, one automatic attempt: a scheduler never starts a batch *)
(* for a generation an earlier attempt has already failed or a disconnect  *)
(* has dropped (finally clears the claims before the lock is released).    *)
AttemptedOnce ==
  [][\A c \in Child : DueNow(c) => \A s \in Dirty : dirty[s] > excused[s]]_vars

(* clearAutomaticState leaves nothing behind: when a disconnect or a       *)
(* revocation ran to its end without a timeout the ledger is empty and no  *)
(* other process is a scheduler, and none can become one.                  *)
DisconnectClean ==
  \A p \in Syncer \cup Life :
    pc[p] = "ungate" /\ ~connected =>
      /\ dirty = Nothing
      /\ schedLock \in {None, p}
      /\ \A h \in Hook : pc[h] # "mark"

(* The config is read long before the collected usage is written; yet      *)
(* usage never reaches the pending directory of a disconnected connector.  *)
NothingAfterDisconnect == [][got' # got => connected]_vars

(* A generation created during an attempt schedules the next batch: a      *)
(* scheduler that saw one when it finished has a successor by the time     *)
(* every process is gone.                                                  *)
NoStranded ==
  (\A p \in Proc : pc[p] = "off") =>
    \A c \in Child : ~(attempted[c] /\ \E s \in Dirty : dirty[s] > att[c][s] /\ att[c][s] > 0)

(* Every scheduler process ends, although it can hold the scheduler lock   *)
(* and wait for the sync lock while a disconnect holds the sync lock and   *)
(* waits for the scheduler: the bounded waits break the cycle.             *)
SchedulerEnds == \A c \in Child : pc[c] = "start" ~> pc[c] = "off"

(* Likewise every lifecycle command lifts its marker in the end.           *)
LifecycleEnds == marker ~> ~marker

=============================================================================
