------------------------------ MODULE OwnedLock ------------------------------
(***************************************************************************)
(* The connector's lock files (packages/connector/lib/owned-lock.mjs).     *)
(*                                                                         *)
(* A lock is a file created with O_EXCL whose text names its owner, a pid  *)
(* and a fresh token.  A caller that finds the file judges the owner: live *)
(* (wait), or dead or an old unreadable file (recover).  Recovery takes a  *)
(* second such file, the guard, re-checks the lock under it, moves the     *)
(* abandoned lock aside and goes back to the start.  A guard whose own     *)
(* owner died is renamed away, read again and, when it turns out to be     *)
(* somebody else's, renamed back.                                          *)
(*                                                                         *)
(* Every file-system call that another process can observe is one step; a  *)
(* process may die between any two.  Each process makes one acquisition:   *)
(* its lock owner is the process itself, its guard owners are tokens.      *)
(***************************************************************************)
EXTENDS Naturals, FiniteSets

CONSTANTS
  Proc,         \* connector processes contending for one lock
  Rounds,       \* distinguishes the recovery tokens of one process
  NoFile,       \* the file does not exist
  Empty,        \* text of a file created but not yet written
  Gone,         \* processes that died earlier and may have left files behind
  Mortal,       \* processes that may die, at any step outside the guard
  GuardMortal   \* those that may die, or have died, while they own the guard

ASSUME ConstantsAssumption ==
  /\ NoFile \notin Proc \cup (Proc \X Rounds)
  /\ Empty \notin Proc \X Rounds
  /\ Rounds # {}
  /\ Gone \subseteq Proc
  /\ Mortal \subseteq Proc
  /\ GuardMortal \subseteq Proc

VARIABLES
  pc,      \* where each process is in acquireOwnedLock / releaseOwnedLock
  lock,    \* the lock file: NoFile or the process that created it
  guard,   \* the recovery file: NoFile or the token that created it
  torn,    \* owners whose file will never get its text (process or token)
  token,   \* recoveryOwner of each process's current recovery round
  old,     \* dead processes whose unwritten files are older than staleMs
  seen,    \* text of the abandoned guard a process decided to steal
  aside,   \* the guard file a process has renamed away
  retry    \* which missing...RetryAvailable flags are still set

vars == <<pc, lock, guard, torn, old, token, seen, aside, retry>>

Token == Proc \X Rounds

(* Between creating the guard and the end of its release. *)
InGuard == {"gwrite", "gcheck", "recheck", "remove", "grelease", "gunlink"}

(* The lock file is this process's, or is about to be. *)
Owning == {"write", "held", "unlink"}

Finished == {"done", "gaveUp", "failed", "dead"}

PCs == {"try", "inspect", "wait", "guard", "ginspect", "gwait", "steal", "verify"}
         \cup InGuard \cup Owning \cup Finished

TypeOK ==
  /\ pc \in [Proc -> PCs]
  /\ lock \in Proc \cup {NoFile}
  /\ guard \in Token \cup {NoFile}
  /\ torn \in SUBSET (Proc \cup Token)
  /\ old \in SUBSET Proc
  /\ token \in [Proc -> Token]
  /\ seen \in [Proc -> Token \cup {Empty}]
  /\ aside \in [Proc -> Token \cup {NoFile}]
  /\ retry \in [Proc -> SUBSET {"lock", "guard"}]

Init ==
  /\ pc = [p \in Proc |-> IF p \in Gone THEN "dead" ELSE "try"]
  /\ lock \in Gone \cup {NoFile}
  /\ guard \in ((Gone \cap GuardMortal) \X Rounds) \cup {NoFile}
  /\ torn \in SUBSET ({lock, guard} \ {NoFile})
  /\ old = {}
  /\ token = [p \in Proc |-> <<p, CHOOSE r \in Rounds : TRUE>>]
  /\ seen = [p \in Proc |-> Empty]
  /\ aside = [p \in Proc |-> NoFile]
  /\ retry = [p \in Proc |-> {"lock", "guard"}]

-----------------------------------------------------------------------------
(* lockOwnerState and the staleness test.  A written file is stale when its *)
(* owner is dead; an unwritten one is malformed, and stale once older than *)
(* staleMs.  A live creator writes its line well within the ten minutes,   *)
(* so only a dead creator's file gets that old.                            *)

Dead(p) == pc[p] = "dead"
LockStale == \E p \in Proc : lock = p /\ Dead(p) /\ (p \in torn => p \in old)
GuardStale ==
  \E t \in Token : guard = t /\ Dead(t[1]) /\ (t \in torn => t[1] \in old)

(* What a reader of a guard file gets: nothing before GuardWrite. *)
Text(t) ==
  IF t \in torn \/ (pc[t[1]] = "gwrite" /\ token[t[1]] = t) THEN Empty ELSE t

(* A token no file and no comparison still refers to stands for a fresh uuid. *)
Fresh(t) ==
  /\ t # guard
  /\ \A q \in Proc : t # aside[q] /\ t # seen[q]

Goto(p, from, to) == pc[p] = from /\ pc' = [pc EXCEPT ![p] = to]

-----------------------------------------------------------------------------
(* acquireOwnedLock: the lock file *)

(* Mutation: the lock file is opened without O_EXCL. *)
CreateOverwriting(p) ==
  /\ Goto(p, "try", "write")
  /\ lock' = p
  /\ UNCHANGED <<guard, torn, old, token, seen, aside, retry>>

(* open(path, "wx") succeeds. *)
Create(p) ==
  /\ Goto(p, "try", "write")
  /\ lock = NoFile
  /\ lock' = p
  /\ UNCHANGED <<guard, torn, old, token, seen, aside, retry>>

(* open(path, "wx") fails with EEXIST. *)
Exists(p) ==
  /\ Goto(p, "try", "inspect")
  /\ lock # NoFile
  /\ UNCHANGED <<lock, guard, torn, old, token, seen, aside, retry>>

WriteOwner(p) ==
  /\ Goto(p, "write", "held")
  /\ UNCHANGED <<lock, guard, torn, old, token, seen, aside, retry>>

(* The write fails: the file is unlinked, whoever's it is, and acquire throws. *)
WriteFails(p) ==
  /\ Goto(p, "write", "failed")
  /\ lock' = NoFile
  /\ UNCHANGED <<guard, torn, old, token, seen, aside, retry>>

(* stat finds no file any more: one immediate retry, afterwards the deadline. *)
InspectMissing(p) ==
  /\ Goto(p, "inspect", IF "lock" \in retry[p] THEN "try" ELSE "wait")
  /\ lock = NoFile
  /\ retry' = [retry EXCEPT ![p] = @ \ {"lock"}]
  /\ UNCHANGED <<lock, guard, torn, old, token, seen, aside>>

(* A live owner, or an unwritten file that is not old enough yet. *)
InspectLive(p) ==
  /\ Goto(p, "inspect", "wait")
  /\ lock # NoFile
  /\ ~LockStale
  /\ UNCHANGED <<lock, guard, torn, old, token, seen, aside, retry>>

(* A recovery candidate: a round with a fresh recoveryToken starts. *)
InspectDead(p) ==
  /\ Goto(p, "inspect", "guard")
  /\ LockStale
  /\ \E r \in Rounds :
       /\ Fresh(<<p, r>>)
       /\ token' = [token EXCEPT ![p] = <<p, r>>]
  /\ retry' = [retry EXCEPT ![p] = @ \cup {"guard"}]
  /\ UNCHANGED <<lock, guard, torn, old, seen, aside>>

(* delay(25) and try again, until the deadline has passed. *)
Retry(p) ==
  /\ Goto(p, "wait", "try")
  /\ UNCHANGED <<lock, guard, torn, old, token, seen, aside, retry>>

-----------------------------------------------------------------------------
(* acquireOwnedLock: the recovery guard *)

(* Mutation: the guard is opened without O_EXCL. *)
GuardOverwriting(p) ==
  /\ Goto(p, "guard", "gwrite")
  /\ guard' = token[p]
  /\ UNCHANGED <<lock, torn, old, token, seen, aside, retry>>

(* Mutation: the guard is created in the name of the lock owner. *)
GuardWithOwner(p) ==
  /\ Goto(p, "guard", "gwrite")
  /\ guard = NoFile
  /\ guard' = p
  /\ UNCHANGED <<lock, torn, old, token, seen, aside, retry>>

GuardCreate(p) ==
  /\ Goto(p, "guard", "gwrite")
  /\ guard = NoFile
  /\ guard' = token[p]
  /\ UNCHANGED <<lock, torn, old, token, seen, aside, retry>>

GuardExists(p) ==
  /\ Goto(p, "guard", "ginspect")
  /\ guard # NoFile
  /\ UNCHANGED <<lock, guard, torn, old, token, seen, aside, retry>>

GuardWrite(p) ==
  /\ Goto(p, "gwrite", "gcheck")
  /\ UNCHANGED <<lock, guard, torn, old, token, seen, aside, retry>>

GuardWriteFails(p) ==
  /\ Goto(p, "gwrite", "failed")
  /\ guard' = NoFile
  /\ torn' = torn \cup {token[p]}
  /\ UNCHANGED <<lock, old, token, seen, aside, retry>>

GuardInspectMissing(p) ==
  /\ Goto(p, "ginspect", IF "guard" \in retry[p] THEN "guard" ELSE "gwait")
  /\ guard = NoFile
  /\ retry' = [retry EXCEPT ![p] = @ \ {"guard"}]
  /\ UNCHANGED <<lock, guard, torn, old, token, seen, aside>>

GuardInspectLive(p) ==
  /\ Goto(p, "ginspect", "gwait")
  /\ guard # NoFile
  /\ ~GuardStale
  /\ UNCHANGED <<lock, guard, torn, old, token, seen, aside, retry>>

GuardInspectDead(p) ==
  /\ Goto(p, "ginspect", "steal")
  /\ GuardStale
  /\ seen' = [seen EXCEPT ![p] = Text(guard)]
  /\ UNCHANGED <<lock, guard, torn, old, token, aside, retry>>

GuardRetry(p) ==
  /\ Goto(p, "gwait", "guard")
  /\ UNCHANGED <<lock, guard, torn, old, token, seen, aside, retry>>

(* Mutation: the wait for the guard ignores the deadline. *)
GiveUpOnLock(p) ==
  /\ Goto(p, "wait", "gaveUp")
  /\ UNCHANGED <<lock, guard, torn, old, token, seen, aside, retry>>

(* Date.now() >= deadline in either wait: acquire returns null. *)
GiveUp(p) ==
  /\ Goto(p, "wait", "gaveUp") \/ Goto(p, "gwait", "gaveUp")
  /\ UNCHANGED <<lock, guard, torn, old, token, seen, aside, retry>>

(* rename(recoveryPath, abandonedRecovery): takes whatever is there now. *)
StealMissing(p) ==
  /\ Goto(p, "steal", "guard")
  /\ guard = NoFile
  /\ seen' = [seen EXCEPT ![p] = Empty]
  /\ UNCHANGED <<lock, guard, torn, old, token, aside, retry>>

Steal(p) ==
  /\ Goto(p, "steal", "verify")
  /\ guard # NoFile
  /\ aside' = [aside EXCEPT ![p] = guard]
  /\ guard' = NoFile
  /\ UNCHANGED <<lock, torn, old, token, seen, retry>>

(* The text is the abandoned one: unlink it. Otherwise rename it back, over *)
(* any guard created in the meantime.                                      *)
Verify(p) ==
  /\ Goto(p, "verify", "guard")
  /\ guard' = IF Text(aside[p]) = seen[p] THEN guard ELSE aside[p]
  /\ aside' = [aside EXCEPT ![p] = NoFile]
  /\ seen' = [seen EXCEPT ![p] = Empty]
  /\ UNCHANGED <<lock, torn, old, token, retry>>

(* Under the guard: is it still ours?  Then look at the lock again. *)
GuardCheck(p) ==
  /\ Goto(p, "gcheck",
          IF guard = token[p] THEN "recheck" ELSE "grelease")
  /\ UNCHANGED <<lock, guard, torn, old, token, seen, aside, retry>>

(* Mutation: the lock is not judged again under the guard. *)
RecheckSkipped(p) ==
  /\ Goto(p, "recheck", "remove")
  /\ UNCHANGED <<lock, guard, torn, old, token, seen, aside, retry>>

RecheckDead(p) ==
  /\ Goto(p, "recheck", "remove")
  /\ LockStale
  /\ UNCHANGED <<lock, guard, torn, old, token, seen, aside, retry>>

RecheckLive(p) ==
  /\ Goto(p, "recheck", "grelease")
  /\ ~LockStale
  /\ UNCHANGED <<lock, guard, torn, old, token, seen, aside, retry>>

(* rename(path, stalePath) and unlink: removes whatever is at path now. *)
RemoveStale(p) ==
  /\ Goto(p, "remove", "grelease")
  /\ lock' = NoFile
  /\ UNCHANGED <<guard, torn, old, token, seen, aside, retry>>

(* releaseOwnedLock(recoveryLock): read, then unlink; then the loop restarts. *)
GuardRelease(p) ==
  /\ Goto(p, "grelease",
          IF guard = token[p] THEN "gunlink" ELSE "try")
  /\ UNCHANGED <<lock, guard, torn, old, token, seen, aside, retry>>

GuardUnlink(p) ==
  /\ Goto(p, "gunlink", "try")
  /\ guard' = NoFile
  /\ UNCHANGED <<lock, torn, old, token, seen, aside, retry>>

-----------------------------------------------------------------------------
(* releaseOwnedLock, death and time *)

Release(p) ==
  /\ Goto(p, "held", IF lock = p THEN "unlink" ELSE "done")
  /\ UNCHANGED <<lock, guard, torn, old, token, seen, aside, retry>>

Unlink(p) ==
  /\ Goto(p, "unlink", "done")
  /\ lock' = NoFile
  /\ UNCHANGED <<guard, torn, old, token, seen, aside, retry>>

(* A process dies, or exits after its call returned: its pid is then dead.  *)
Crash(p) ==
  /\ ~Dead(p)
  /\ p \in Mortal
  /\ pc[p] \in InGuard => p \in GuardMortal
  /\ pc' = [pc EXCEPT ![p] = "dead"]
  /\ torn' = torn \cup (IF pc[p] = "write" THEN {p} ELSE {})
                  \cup (IF pc[p] = "gwrite" THEN {token[p]} ELSE {})
  /\ UNCHANGED <<lock, guard, old, token, seen, aside, retry>>

(* The files a dead process left unwritten pass the staleness age. *)
Age(p) ==
  /\ Dead(p)
  /\ p \notin old
  /\ \E o \in torn : o = p \/ (o \in Token /\ o[1] = p)
  /\ old' = old \cup {p}
  /\ UNCHANGED <<pc, lock, guard, torn, token, seen, aside, retry>>

LockStep(p) ==
  \/ Create(p) \/ Exists(p) \/ WriteOwner(p) \/ WriteFails(p)
  \/ InspectMissing(p) \/ InspectLive(p) \/ InspectDead(p) \/ Retry(p)
  \/ GiveUp(p) \/ Release(p) \/ Unlink(p)

GuardStep(p) ==
  \/ GuardCreate(p) \/ GuardExists(p) \/ GuardWrite(p) \/ GuardWriteFails(p)
  \/ GuardInspectMissing(p) \/ GuardInspectLive(p) \/ GuardInspectDead(p)
  \/ GuardRetry(p) \/ StealMissing(p) \/ Steal(p) \/ Verify(p)
  \/ GuardCheck(p) \/ RecheckDead(p) \/ RecheckLive(p) \/ RemoveStale(p)
  \/ GuardRelease(p) \/ GuardUnlink(p)

Step(p) == LockStep(p) \/ GuardStep(p)

Next == \E p \in Proc : Step(p) \/ Crash(p) \/ Age(p)

Spec == Init /\ [][Next]_vars

(* The operating system schedules every live process, and a caller that    *)
(* keeps coming back to a wait finds its finite deadline passed at last.   *)
FairSpec ==
  Spec /\ \A p \in Proc : WF_vars(Step(p)) /\ SF_vars(GiveUp(p))

-----------------------------------------------------------------------------
(* Properties *)

Holders == {p \in Proc : pc[p] \in Owning}

(* At most one live process is past its acquisition: the single-flight     *)
(* guarantee the sync, scheduler, dirty and lifecycle locks are used for.  *)
MutualExclusion == \A p, q \in Holders : p = q

(* A process that holds the lock finds its own file at release time: nobody *)
(* else removed or replaced it.                                            *)
HolderOwnsFile == \A p \in Holders : lock = p

(* No step removes the lock file of a process that is alive, except that   *)
(* process's own: "a stale owner cannot remove a replacement lock".        *)
OnlyOwnerRemoves ==
  [][ \A p \in Proc :
        lock = p /\ lock' # p => pc[p] \in {"unlink", "write", "dead"} ]_vars

Abstract == INSTANCE Mutex WITH holders <- Holders

(* The lock file protocol implements the abstract mutex. *)
ImplementsMutex == Abstract!Spec

(* Every call returns: acquired, given up, failed, or its process died.    *)
Returns(p) == pc[p] = "try" ~> pc[p] \in Owning \cup Finished
AcquireReturns == \A p \in Proc : Returns(p)

==============================================================================
