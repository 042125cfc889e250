------------------------- MODULE MCOwnedLockParts -------------------------
(***************************************************************************)
(* Two instances of OwnedLock in one run.  In "guard" a contender that is  *)
(* gone left its takeover guard behind and contenders may die holding      *)
(* one; in "crash" three contenders of which two may die compete for a     *)
(* lock whose owner is gone.  The constants of the run are those of        *)
(* "guard"; a behaviour stays in the part it starts in.                    *)
(***************************************************************************)
EXTENDS OwnedLock

CONSTANTS p1, p2, p3, p4

ASSUME PartsAssumption == Proc = {p1, p2, p3, p4}

VARIABLE part

Crashing ==
  INSTANCE OwnedLock WITH Gone <- {p1}, Mortal <- {p2, p3}, GuardMortal <- {}, Rounds <- {1}

partVars == <<part, vars>>

PartsInit ==
  \/ part = "guard" /\ Init
  \/ part = "crash" /\ Crashing!Init

PartsNext ==
  /\ part' = part
  /\ \/ part = "guard" /\ Next
     \/ part = "crash" /\ Crashing!Next

PartsSpec ==
  /\ PartsInit /\ [][PartsNext]_partVars
  /\ \A p \in Proc : /\ WF_vars(part = "guard" /\ Step(p))
                     /\ SF_vars(part = "guard" /\ GiveUp(p))

(* AcquireReturns (releaseOwnedLock included) of the part whose fairness   *)
(* is that of FairSpec: every acquisition ends, with the lock or without.  *)
EveryAcquireReturns == part = "guard" => AcquireReturns

=============================================================================
