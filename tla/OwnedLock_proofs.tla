-------------------------- MODULE OwnedLock_proofs --------------------------
(***************************************************************************)
(* Proofs about OwnedLock for any number of processes.  All but the types  *)
(* hold as long as none of them dies while it owns the recovery guard; the *)
(* run OwnedLock_steal shows why the assumption is needed.                 *)
(*                                                                         *)
(* The invariant says what each file-system step relies on without being   *)
(* able to check it atomically: whoever is inside the guard is the one the *)
(* guard file names, so nobody else can be removing the lock file, and a   *)
(* lock found stale under the guard is still the same stale lock when it   *)
(* is renamed away.                                                        *)
(***************************************************************************)
EXTENDS OwnedLock, TLAPS

(* The hypothesis of the theorems about ownership. *)
NoGuardDeaths == GuardMortal = {}

(* The process of a token is its first half. *)
OwnTokens == \A p \in Proc : token[p][1] = p

(* A process inside the guard is the one the guard file names. *)
GuardIsMine == \A p \in Proc : pc[p] \in InGuard => guard = token[p]

(* The guard file names a process that is inside the guard. *)
GuardIsLive ==
  \A t \in Token : guard = t => pc[t[1]] \in InGuard /\ token[t[1]] = t

(* Hence nobody ever finds an abandoned guard to take away. *)
NobodySteals == \A p \in Proc : pc[p] \notin {"steal", "verify"}

(* About to remove the lock file: it belongs to a dead process. *)
RemovesDead == \A p \in Proc : pc[p] = "remove" => \E q \in Proc : lock = q /\ Dead(q)

IInv ==
  /\ TypeOK
  /\ OwnTokens
  /\ GuardIsMine
  /\ GuardIsLive
  /\ NobodySteals
  /\ RemovesDead
  /\ HolderOwnsFile

USE DEF PCs, InGuard, Owning, Finished, Token, Dead

(* The invariant holds when no lock has been asked for. *)
LEMMA InitInv == ASSUME NoGuardDeaths PROVE Init => IInv
<1> SUFFICES ASSUME Init PROVE IInv
  OBVIOUS
<1> USE ConstantsAssumption DEF Init, NoGuardDeaths
<1>1. \A p \in Proc : token[p] = <<p, CHOOSE r \in Rounds : TRUE>>
  OBVIOUS
<1>2. (CHOOSE r \in Rounds : TRUE) \in Rounds
  OBVIOUS
<1>3. TypeOK
  BY <1>1, <1>2 DEF TypeOK
<1>4. guard = NoFile
  OBVIOUS
<1>5. OwnTokens /\ GuardIsMine /\ GuardIsLive /\ NobodySteals /\ RemovesDead
  BY <1>1, <1>4 DEF OwnTokens, GuardIsMine, GuardIsLive, NobodySteals, RemovesDead
<1>6. HolderOwnsFile
  BY DEF HolderOwnsFile, Holders
<1> QED BY <1>3, <1>5, <1>6 DEF IInv

(* Every step keeps the invariant. *)
LEMMA StepInv == ASSUME NoGuardDeaths PROVE IInv /\ [Next]_vars => IInv'
<1> SUFFICES ASSUME IInv, [Next]_vars PROVE IInv'
  OBVIOUS
<1> USE ConstantsAssumption DEF NoGuardDeaths
<1> USE DEF IInv, TypeOK, OwnTokens, GuardIsMine, GuardIsLive, NobodySteals,
            RemovesDead, HolderOwnsFile, Holders, Goto
<1>1. CASE UNCHANGED vars
  BY <1>1 DEF vars
<1>2. ASSUME NEW p \in Proc, Step(p) \/ Crash(p) \/ Age(p)
      PROVE  IInv'
  <2>1. CASE Create(p)
    BY <2>1 DEF Create
  <2>2. CASE Exists(p)
    BY <2>2 DEF Exists
  <2>3. CASE WriteOwner(p)
    BY <2>3 DEF WriteOwner
  <2>4. CASE WriteFails(p)
    BY <2>4 DEF WriteFails
  <2>5. CASE InspectMissing(p)
    BY <2>5 DEF InspectMissing
  <2>6. CASE InspectLive(p)
    BY <2>6 DEF InspectLive
  <2>7. CASE InspectDead(p)
    BY <2>7 DEF InspectDead, Fresh
  <2>8. CASE Retry(p)
    BY <2>8 DEF Retry
  <2>9. CASE GiveUp(p)
    BY <2>9 DEF GiveUp
  <2>10. CASE Release(p)
    BY <2>10 DEF Release
  <2>11. CASE Unlink(p)
    BY <2>11 DEF Unlink
  <2>12. CASE GuardCreate(p)
    BY <2>12 DEF GuardCreate
  <2>13. CASE GuardExists(p)
    BY <2>13 DEF GuardExists
  <2>14. CASE GuardWrite(p)
    BY <2>14 DEF GuardWrite
  <2>15. CASE GuardWriteFails(p)
    BY <2>15 DEF GuardWriteFails
  <2>16. CASE GuardInspectMissing(p)
    BY <2>16 DEF GuardInspectMissing
  <2>17. CASE GuardInspectLive(p)
    BY <2>17 DEF GuardInspectLive
  <2>18. CASE GuardInspectDead(p)
    BY <2>18 DEF GuardInspectDead, GuardStale
  <2>19. CASE GuardRetry(p)
    BY <2>19 DEF GuardRetry
  <2>20. CASE StealMissing(p)
    BY <2>20 DEF StealMissing
  <2>21. CASE Steal(p)
    BY <2>21 DEF Steal
  <2>22. CASE Verify(p)
    BY <2>22 DEF Verify
  <2>23. CASE GuardCheck(p)
    BY <2>23 DEF GuardCheck
  <2>24. CASE RecheckDead(p)
    BY <2>24 DEF RecheckDead, LockStale
  <2>25. CASE RecheckLive(p)
    BY <2>25 DEF RecheckLive
  <2>26. CASE RemoveStale(p)
    BY <2>26 DEF RemoveStale
  <2>27. CASE GuardRelease(p)
    BY <2>27 DEF GuardRelease
  <2>28. CASE GuardUnlink(p)
    BY <2>28 DEF GuardUnlink
  <2>29. CASE Crash(p)
    BY <2>29 DEF Crash
  <2>30. CASE Age(p)
    BY <2>30 DEF Age
  <2> QED BY <1>2, <2>1, <2>2, <2>3, <2>4, <2>5, <2>6, <2>7, <2>8, <2>9, <2>10, <2>11, <2>12, <2>13, <2>14, <2>15, <2>16, <2>17, <2>18, <2>19, <2>20, <2>21, <2>22, <2>23, <2>24, <2>25, <2>26, <2>27, <2>28, <2>29, <2>30 DEF Step, LockStep, GuardStep
<1> QED BY <1>1, <1>2 DEF Next

-----------------------------------------------------------------------------

(* The inductive invariant holds in every reachable state. *)
THEOREM Invariant == ASSUME NoGuardDeaths PROVE Spec => []IInv
<1>1. Init => IInv
  BY InitInv
<1>2. IInv /\ [Next]_vars => IInv'
  BY StepInv
<1> QED BY <1>1, <1>2, PTL DEF Spec

(* The type invariant of the lock protocol, whoever dies and wherever. *)
THEOREM TypeCorrect == Spec => []TypeOK
<1> USE ConstantsAssumption
<1>1. Init => TypeOK
  <2> SUFFICES ASSUME Init PROVE TypeOK
    OBVIOUS
  <2>1. token \in [Proc -> Token]
    BY DEF Init
  <2> QED BY <2>1 DEF Init, TypeOK
<1>2. TypeOK /\ [Next]_vars => TypeOK'
  <2> SUFFICES ASSUME TypeOK, [Next]_vars PROVE TypeOK'
    OBVIOUS
  <2> USE DEF TypeOK, Goto
  <2>1. CASE UNCHANGED vars
    BY <2>1 DEF vars
  <2>2. ASSUME NEW p \in Proc, LockStep(p) PROVE TypeOK'
    <3>1. CASE InspectDead(p)
      BY <3>1 DEF InspectDead
    <3>2. CASE InspectMissing(p) \/ InspectLive(p) \/ Retry(p) \/ GiveUp(p)
      BY <3>2 DEF InspectMissing, InspectLive, Retry, GiveUp
    <3>3. CASE Create(p) \/ Exists(p) \/ WriteOwner(p) \/ WriteFails(p)
      BY <3>3 DEF Create, Exists, WriteOwner, WriteFails
    <3>4. CASE Release(p) \/ Unlink(p)
      BY <3>4 DEF Release, Unlink
    <3> QED BY <2>2, <3>1, <3>2, <3>3, <3>4 DEF LockStep
  <2>3. ASSUME NEW p \in Proc, GuardStep(p) PROVE TypeOK'
    <3>1. CASE GuardInspectDead(p)
      <4>1. guard \in Token
        BY <3>1 DEF GuardInspectDead, GuardStale
      <4>2. Text(guard) \in Token \cup {Empty}
        BY <4>1 DEF Text
      <4> QED BY <3>1, <4>2 DEF GuardInspectDead
    <3>2. CASE GuardCreate(p) \/ GuardExists(p) \/ GuardWrite(p) \/ GuardWriteFails(p)
      BY <3>2 DEF GuardCreate, GuardExists, GuardWrite, GuardWriteFails
    <3>3. CASE GuardInspectMissing(p) \/ GuardInspectLive(p) \/ GuardRetry(p)
      BY <3>3 DEF GuardInspectMissing, GuardInspectLive, GuardRetry
    <3>4. CASE StealMissing(p) \/ Steal(p) \/ Verify(p)
      BY <3>4 DEF StealMissing, Steal, Verify
    <3>5. CASE GuardCheck(p) \/ RecheckDead(p) \/ RecheckLive(p) \/ RemoveStale(p)
      BY <3>5 DEF GuardCheck, RecheckDead, RecheckLive, RemoveStale
    <3>6. CASE GuardRelease(p) \/ GuardUnlink(p)
      BY <3>6 DEF GuardRelease, GuardUnlink
    <3> QED BY <2>3, <3>1, <3>2, <3>3, <3>4, <3>5, <3>6 DEF GuardStep
  <2>4. ASSUME NEW p \in Proc, Crash(p) \/ Age(p) PROVE TypeOK'
    BY <2>4 DEF Crash, Age
  <2> QED BY <2>1, <2>2, <2>3, <2>4 DEF Next, Step
<1> QED BY <1>1, <1>2, PTL DEF Spec

(* The lock file always names the process that believes it holds the lock. *)
THEOREM OwnerKept == ASSUME NoGuardDeaths PROVE Spec => []HolderOwnsFile
<1>1. IInv => HolderOwnsFile
  BY DEF IInv
<1> QED BY <1>1, Invariant, PTL

(* Never two live holders: the lock file names only one process.           *)
THEOREM Exclusion == ASSUME NoGuardDeaths PROVE Spec => []MutualExclusion
<1>1. HolderOwnsFile => MutualExclusion
  BY DEF HolderOwnsFile, MutualExclusion
<1> QED BY <1>1, OwnerKept, PTL

(* No step of one process removes the lock file of another live process:    *)
(* only a release, a failed creation or the recovery of a dead owner does.  *)
THEOREM NoForeignRemoval == ASSUME NoGuardDeaths PROVE Spec => OnlyOwnerRemoves
<1> DEFINE A == \A p \in Proc :
                  lock = p /\ lock' # p => pc[p] \in {"unlink", "write", "dead"}
<1>1. ASSUME IInv, [Next]_vars PROVE A
  <2> SUFFICES ASSUME NEW p \in Proc, lock = p, lock' # p
               PROVE  pc[p] \in {"unlink", "write", "dead"}
    OBVIOUS
  <2> USE <1>1, ConstantsAssumption
  <2>1. PICK q \in Proc : Create(q) \/ WriteFails(q) \/ RemoveStale(q) \/ Unlink(q)
    <3>1. CASE UNCHANGED vars
      BY <3>1 DEF vars
    <3>2. ASSUME NEW q \in Proc, Step(q) \/ Crash(q) \/ Age(q)
          PROVE  Create(q) \/ WriteFails(q) \/ RemoveStale(q) \/ Unlink(q)
      <4>1. CASE LockStep(q)
        BY <4>1 DEF LockStep, Exists, WriteOwner, InspectMissing, InspectLive,
                    InspectDead, Retry, GiveUp, Release
      <4>2. CASE GuardStep(q)
        BY <4>2 DEF GuardStep, GuardCreate, GuardExists, GuardWrite, GuardWriteFails,
                    GuardInspectMissing, GuardInspectLive, GuardInspectDead, GuardRetry,
                    StealMissing, Steal, Verify, GuardCheck, RecheckDead, RecheckLive,
                    GuardRelease, GuardUnlink
      <4> QED BY <3>2, <4>1, <4>2 DEF Step, Crash, Age
    <3> QED BY <3>1, <3>2 DEF Next
  <2>2. CASE Create(q)
    BY <2>2 DEF Create
  <2>3. CASE WriteFails(q)
    BY <2>3 DEF WriteFails, Goto, IInv, HolderOwnsFile, Holders
  <2>4. CASE RemoveStale(q)
    BY <2>4 DEF RemoveStale, Goto, IInv, RemovesDead
  <2>5. CASE Unlink(q)
    BY <2>5 DEF Unlink, Goto, IInv, HolderOwnsFile, Holders
  <2> QED BY <2>1, <2>2, <2>3, <2>4, <2>5
<1>2. IInv /\ [Next]_vars => [A]_vars
  BY <1>1
<1>3. [][A]_vars => OnlyOwnerRemoves
  BY DEF OnlyOwnerRemoves
<1>4. Spec => [][Next]_vars
  BY DEF Spec
<1>5. Spec => [][A]_vars
  BY <1>2, <1>4, Invariant, PTL
<1> QED BY <1>3, <1>5

-----------------------------------------------------------------------------

(* Every step that makes p a holder starts without any holder, and p is the *)
(* only one afterwards; every other change empties the set.                *)
LEMMA StepRefines == IInv /\ IInv' /\ [Next]_vars => [Abstract!Next]_Holders
<1> SUFFICES ASSUME IInv, IInv', [Next]_vars PROVE [Abstract!Next]_Holders
  OBVIOUS
<1> USE ConstantsAssumption
<1>1. CASE UNCHANGED vars
  BY <1>1 DEF vars, Holders
<1>2. \A p, q \in Holders : p = q
  BY DEF IInv, HolderOwnsFile
<1>3. ASSUME NEW p \in Proc, Step(p) \/ Crash(p) \/ Age(p)
      PROVE  [Abstract!Next]_Holders
  <2>1. CASE Create(p)
    <3>1. Holders = {}
      BY <2>1 DEF Create, IInv, HolderOwnsFile, Holders
    <3>2. Holders' = {p}
      BY <3>1, <2>1 DEF Create, Goto, Holders, IInv, TypeOK
    <3> QED BY <3>1, <3>2 DEF Abstract!Next, Abstract!Acquire
  <2>2. CASE Holders' = Holders
    BY <2>2
  <2>3. ASSUME ~Create(p), Holders' # Holders
        PROVE  Holders = {p} /\ Holders' = {}
    <3>1. \A q \in Proc : q # p => pc'[q] = pc[q]
      BY <1>3 DEF Step, LockStep, GuardStep, Goto, IInv, TypeOK, Crash, Age,
                  Create, Exists, WriteOwner, WriteFails, InspectMissing, InspectLive,
                  InspectDead, Retry, GiveUp, Release, Unlink, GuardCreate, GuardExists,
                  GuardWrite, GuardWriteFails, GuardInspectMissing, GuardInspectLive,
                  GuardInspectDead, GuardRetry, StealMissing, Steal, Verify, GuardCheck,
                  RecheckDead, RecheckLive, RemoveStale, GuardRelease, GuardUnlink
    <3>2. pc'[p] \in Owning => pc[p] \in Owning
      BY <1>3, <2>3 DEF Step, LockStep, GuardStep, Goto, IInv, TypeOK, Crash, Age,
                  Create, Exists, WriteOwner, WriteFails, InspectMissing, InspectLive,
                  InspectDead, Retry, GiveUp, Release, Unlink, GuardCreate, GuardExists,
                  GuardWrite, GuardWriteFails, GuardInspectMissing, GuardInspectLive,
                  GuardInspectDead, GuardRetry, StealMissing, Steal, Verify, GuardCheck,
                  RecheckDead, RecheckLive, RemoveStale, GuardRelease, GuardUnlink
    <3>3. p \in Holders /\ p \notin Holders'
      BY <3>1, <3>2, <2>3 DEF Holders
    <3> QED BY <1>2, <3>1, <3>3 DEF Holders
  <2> QED BY <2>1, <2>2, <2>3 DEF Abstract!Next, Abstract!Drop
<1> QED BY <1>1, <1>3 DEF Next

(* The file protocol implements the abstract mutex its callers rely on.    *)
THEOREM Refinement == ASSUME NoGuardDeaths PROVE Spec => ImplementsMutex
<1>1. Init => Abstract!Init
  BY ConstantsAssumption DEF Init, Abstract!Init, Holders
<1>2. IInv /\ IInv' /\ [Next]_vars => [Abstract!Next]_Holders
  BY StepRefines
<1> QED BY <1>1, <1>2, Invariant, PTL DEF Spec, ImplementsMutex, Abstract!Spec

==============================================================================
