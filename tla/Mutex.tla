-------------------------------- MODULE Mutex --------------------------------
(***************************************************************************)
(* What an owned lock promises its callers: at any time at most one live   *)
(* process is between a successful acquireOwnedLock and the end of its     *)
(* releaseOwnedLock, and a process that dies stops holding.  Whether and   *)
(* when an acquisition succeeds is left open, since a caller may give up.  *)
(***************************************************************************)
CONSTANT Proc

VARIABLE holders

Init == holders = {}

Acquire(p) == holders = {} /\ holders' = {p}

(* A release, or the death of the holder. *)
Drop(p) == holders = {p} /\ holders' = {}

Next == \E p \in Proc : Acquire(p) \/ Drop(p)

Spec == Init /\ [][Next]_holders

==============================================================================
