---------------------------- MODULE MCOwnedLock -----------------------------
(* Small instances of OwnedLock: contenders are interchangeable. *)
EXTENDS OwnedLock, TLC

Symmetry ==
  {f \in Permutations(Proc) :
     /\ {f[p] : p \in Gone} = Gone
     /\ {f[p] : p \in Mortal} = Mortal
     /\ {f[p] : p \in GuardMortal} = GuardMortal}

==============================================================================
