------------------------------- MODULE Capture -------------------------------
(***************************************************************************)
(* The connector's own store of Antigravity usage: what the wrapper of the *)
(* command line program changes (packages/connector/lib/runtime.mjs,       *)
(* bin/viberacing.mjs), what a sync collects from it                       *)
(* (collectCaptureJsonl in lib/adapters/shared.mjs), and how records that  *)
(* are old enough and that the server has are removed.                     *)
(*                                                                         *)
(* A complete collection carries a proof: the inode, the offset it read    *)
(* up to, the hash of everything before it and the range it uploads.  The  *)
(* acknowledged proof waits in state.json, joined to the one before while  *)
(* the file is the same, until a process that has finished its sync        *)
(* compacts the file: it writes its own copy of state.json with the result *)
(* it intends, renames the new file into place, and writes state.json      *)
(* again.  It holds the capture lock, which an append needs, and not the   *)
(* sync lock.                                                              *)
(***************************************************************************)
EXTENDS JsonlScan

CONSTANTS
  NoProof,     \* no proof, no payload, no intended result
  Retention,   \* days a record is kept at least
  CaptureMaxDay,      \* bound: days
  CaptureMaxLost      \* bound: processes that die and answers that are lost

ASSUME CaptureAssumption ==
  /\ Retention \in Nat /\ Window <= Retention + 1
  /\ CaptureMaxDay \in Nat \ {0} /\ CaptureMaxLost \in Nat
  /\ \A r \in Record : <<Broken, r>> \notin Record

VARIABLES
  capFile,      \* the capture file
  capDay,
  capChanges,   \* appends and renames so far, which number inodes and stamps
  capState,     \* state.json: checkpoint and ledger of the source, the pending proof
  capPending,   \* the payload to deliver
  capSync,      \* the holder of the sync lock
  compactor,   \* the process in its final compaction
  capServer,    \* the records the server has counted
  returned,  \* records whose append has returned
  early,     \* records a checkpoint went past while they were beyond its range
  capLost

captureVars ==
  <<capFile, capDay, capChanges, capState, capPending, capSync, compactor, capServer, returned, early, capLost>>

NoCaptureSync == [pc |-> "idle", to |-> 0, mem |-> NoProof, seen |-> NoProof, found |-> NoProof,
           proof |-> NoProof]
NoCompact == [pc |-> "idle", mem |-> NoProof, file |-> NoProof, done |-> NoProof,
              kept |-> NoProof]

CaptureInit ==
  /\ capFile = FileOf(0, <<>>, NoCheck, 0)
  /\ capDay = 1 /\ capChanges = 0 /\ capLost = 0
  /\ capState = [check |-> NoCheck, ledger |-> {}, proof |-> NoProof]
  /\ capPending = NoProof
  /\ capSync = NoCaptureSync /\ compactor = NoCompact
  /\ capServer = {} /\ returned = {} /\ early = {}

Locked == compactor.pc = "rename"

(* A record glued to the tail of an append that died cannot be parsed.     *)
Glued(r) == <<Broken, r>>

-----------------------------------------------------------------------------
(* The wrapper changes a record of the day it captured it on.              *)
AppendCapture(r) ==
  /\ ~Locked
  /\ r \notin returned /\ DayOf[r] = capDay
  /\ capFile' = [capFile EXCEPT !.lines = Append(@, IF capFile.tail = NoCheck THEN r ELSE Glued(r)),
                          !.tail = NoCheck, !.stamp = capChanges + 1]
  /\ capChanges' = capChanges + 1
  /\ returned' = returned \cup {r}
  /\ UNCHANGED <<capDay, capState, capPending, capSync, compactor, capServer, early, capLost>>

(* It dies in the middle of the write.                                     *)
AppendTorn ==
  /\ ~Locked /\ capLost < CaptureMaxLost
  /\ capFile' = [capFile EXCEPT !.tail = Torn, !.stamp = capChanges + 1]
  /\ capChanges' = capChanges + 1 /\ capLost' = capLost + 1
  /\ UNCHANGED <<capDay, capState, capPending, capSync, compactor, capServer, returned, early>>

CaptureNextDay ==
  /\ capDay < CaptureMaxDay /\ capDay' = capDay + 1
  /\ UNCHANGED <<capFile, capChanges, capState, capPending, capSync, compactor, capServer, returned, early, capLost>>

-----------------------------------------------------------------------------
(***************************************************************************)
(* The sync.                                                               *)
(***************************************************************************)
(* Payloads that wait are delivered first.                                 *)
SyncBegins ==
  /\ capSync.pc = "idle" /\ capPending = NoProof
  /\ capSync' = [NoCaptureSync EXCEPT !.pc = "stat", !.to = capDay, !.mem = capState]
  /\ UNCHANGED <<capFile, capDay, capChanges, capState, capPending, compactor, capServer, returned, early, capLost>>

Stat ==
  /\ capSync.pc = "stat"
  /\ capSync' = [capSync EXCEPT !.pc = "read", !.seen = capFile]
  /\ UNCHANGED <<capFile, capDay, capChanges, capState, capPending, compactor, capServer, returned, early, capLost>>

(* What is at the listed offsets now; a rename in between changed it all.  *)
Contents == Prefix(capFile.lines, Len(capSync.seen.lines))
Unfinished == IF Contents = capSync.seen.lines THEN capSync.seen.tail ELSE NoCheck

Found(ledger, complete, check) ==
  [ledger |-> ledger, complete |-> complete, check |-> check]

(* A checkpoint only after the whole of a file that has the listed size.   *)
CollectCapture ==
  /\ capSync.pc = "read"
  /\ LET old == capSync.mem.check
         ledger == Pruned(capSync.mem.ledger, capSync.to)
         scan == Scanned(old, ledger, capSync.seen, Contents, Unfinished, capFile.lines, capSync.to)
         whole == scan.clean /\ scan.offset = Len(capSync.seen.lines)
         found == IF Unchanged(old, capSync.seen) THEN Found(ledger, TRUE, old)
                  ELSE Found(scan.ledger, scan.clean,
                             IF whole THEN Checkpoint(capSync.seen, scan.offset,
                                                      Mark(capFile.lines, scan.offset), ToSet(Contents))
                             ELSE old)
     IN /\ capSync' = [capSync EXCEPT !.pc = "prove", !.found = found]
        /\ early' = IF Unchanged(old, capSync.seen) THEN early ELSE early \cup scan.skipped
  /\ UNCHANGED <<capFile, capDay, capChanges, capState, capPending, compactor, capServer, returned, capLost>>

ProofOf(ino, offset, prefix, segments) ==
  [ino |-> ino, offset |-> offset, prefix |-> prefix, segments |-> segments, done |-> NoProof]

Segment(offset, to) == [offset |-> offset, to |-> to]

Proved(found, to) ==
  IF /\ found.complete /\ found.check # NoCheck
     /\ found.check.offset = found.check.size
     /\ Len(capFile.lines) >= found.check.offset
     /\ capFile.ino = found.check.ino
  THEN ProofOf(capFile.ino, found.check.offset, Prefix(capFile.lines, found.check.offset),
               {Segment(found.check.offset, to)})
  ELSE NoProof

(* The proof hashes the file as it is now, under the capture lock.         *)
ProveCapture ==
  /\ capSync.pc = "prove" /\ ~Locked
  /\ capSync' = [capSync EXCEPT !.pc = "persist", !.proof = Proved(capSync.found, capSync.to)]
  /\ UNCHANGED <<capFile, capDay, capChanges, capState, capPending, compactor, capServer, returned, early, capLost>>

(* The whole of state.json is written from what this sync has read.  A     *)
(* collection without a proof withdraws the one that waits.                *)
PersistCapture ==
  /\ capSync.pc = "persist"
  /\ capState' = [check |-> capSync.found.check, ledger |-> capSync.found.ledger,
               proof |-> IF capSync.proof = NoProof THEN NoProof ELSE capSync.mem.proof]
  /\ capPending' = [ledger |-> capSync.found.ledger, proof |-> capSync.proof]
  /\ capSync' = [NoCaptureSync EXCEPT !.pc = "deliver"]
  /\ UNCHANGED <<capFile, capDay, capChanges, compactor, capServer, returned, early, capLost>>

SyncResumes ==
  /\ capSync.pc = "idle" /\ capPending # NoProof
  /\ capSync' = [NoCaptureSync EXCEPT !.pc = "deliver"]
  /\ UNCHANGED <<capFile, capDay, capChanges, capState, capPending, compactor, capServer, returned, early, capLost>>

Accept ==
  /\ capSync.pc = "deliver"
  /\ capServer' = capServer \cup capPending.ledger
  /\ \/ capSync' = [capSync EXCEPT !.pc = "acknowledge"] /\ capLost' = capLost
     \/ capLost < CaptureMaxLost /\ capLost' = capLost + 1 /\ capSync' = NoCaptureSync
  /\ UNCHANGED <<capFile, capDay, capChanges, capState, capPending, compactor, returned, early>>

HasPrefix(lines, prefix) == Len(prefix) <= Len(lines) /\ Prefix(lines, Len(prefix)) = prefix

(* Two proofs of one file keep the segments of both.                       *)
Joined(old, new) ==
  IF /\ old # NoProof /\ old.done = NoProof
     /\ old.ino = new.ino /\ capFile.ino = new.ino
     /\ old.offset <= new.offset
     /\ HasPrefix(capFile.lines, old.prefix) /\ HasPrefix(capFile.lines, new.prefix)
  THEN [new EXCEPT !.segments = @ \cup old.segments]
  ELSE new

(* The proof of an accepted payload waits for the compaction.              *)
AcknowledgeProof ==
  /\ capSync.pc = "acknowledge" /\ (capPending.proof = NoProof \/ ~Locked)
  /\ capState' = IF capPending.proof = NoProof THEN capState
              ELSE [capState EXCEPT !.proof = Joined(@, capPending.proof)]
  /\ capPending' = NoProof
  /\ capSync' = NoCaptureSync
  /\ UNCHANGED <<capFile, capDay, capChanges, compactor, capServer, returned, early, capLost>>

CaptureSyncDies ==
  /\ capSync.pc # "idle" /\ capLost < CaptureMaxLost
  /\ capLost' = capLost + 1 /\ capSync' = NoCaptureSync
  /\ UNCHANGED <<capFile, capDay, capChanges, capState, capPending, compactor, capServer, returned, early>>

-----------------------------------------------------------------------------
(***************************************************************************)
(* The compaction.                                                         *)
(***************************************************************************)
CompactBegins ==
  /\ compactor.pc = "idle" /\ capPending = NoProof /\ capState.proof # NoProof
  /\ compactor' = [NoCompact EXCEPT !.pc = "decide", !.mem = capState]
  /\ UNCHANGED <<capFile, capDay, capChanges, capState, capPending, capSync, capServer, returned, early, capLost>>

(* Mutant: whatever the proof covers is removed once it is old.            *)
RemovableByAge(r, n, proof) == DayOf[r] < capDay - Retention /\ n <= proof.offset

Removable(r, n, proof) ==
  /\ DayOf[r] < capDay - Retention
  /\ \E s \in proof.segments : n <= s.offset /\ InRange(r, s.to)

(* One pass over the lines a proof covers: what stays of the first n.      *)
Staying(proof) ==
  LET upTo[n \in 0 .. proof.offset] ==
        IF n = 0 THEN <<>>
        ELSE IF Removable(capFile.lines[n], n, proof) THEN upTo[n - 1]
        ELSE Append(upTo[n - 1], capFile.lines[n])
  IN upTo

Unaltered(proof) == Len(Staying(proof)[proof.offset]) = proof.offset

(* The compacted prefix with each segment's offset moved, then the rest.   *)
Moved(proof) ==
  {s \in {Segment(Len(Staying(proof)[s.offset]), s.to) : s \in proof.segments} : s.offset > 0}

Result(proof) ==
  LET prefix == Staying(proof)[proof.offset]
      rest == SubSeq(capFile.lines, proof.offset + 1, Len(capFile.lines))
  IN [prefix |-> prefix \o rest, proofPrefix |-> prefix, segments |-> Moved(proof)]

Retained(ino, result) ==
  IF result.segments = {} THEN NoProof
  ELSE ProofOf(ino, Len(result.proofPrefix), result.proofPrefix, result.segments)

Ours == compactor.mem.proof
Completed == Ours.done # NoProof /\ HasPrefix(capFile.lines, Ours.done.prefix)
Valid == Ours.ino = capFile.ino /\ HasPrefix(capFile.lines, Ours.prefix)
Parsed(proof) == \A n \in 1 .. proof.offset : capFile.lines[n] \in Record

CompactSaves(proof, next) ==
  /\ capState' = [compactor.mem EXCEPT !.proof = proof]
  /\ compactor' = next
  /\ UNCHANGED <<capFile, capDay, capChanges, capPending, capSync, capServer, returned, early, capLost>>

(* The rename had happened when its process died.                          *)
AlreadyCompacted ==
  /\ compactor.pc = "decide" /\ Completed
  /\ CompactSaves(Retained(capFile.ino, Ours.done), NoCompact)

(* The file is another one, or was changed before the offset.              *)
Discard ==
  /\ compactor.pc = "decide" /\ ~Completed /\ ~(Valid /\ Parsed(Ours))
  /\ CompactSaves(NoProof, NoCompact)

NothingToRemove ==
  /\ compactor.pc = "decide" /\ ~Completed /\ Valid /\ Parsed(Ours)
  /\ Unaltered(Ours)
  /\ compactor' = NoCompact
  /\ UNCHANGED <<capFile, capDay, capChanges, capState, capPending, capSync, capServer, returned, early, capLost>>

(* From here to the rename the process holds the capture lock.             *)
Intend ==
  /\ compactor.pc = "decide" /\ ~Completed /\ Valid /\ Parsed(Ours)
  /\ ~Unaltered(Ours)
  /\ LET done == Result(Ours) IN
     CompactSaves([Ours EXCEPT !.done = done],
                  [compactor EXCEPT !.pc = "rename", !.file = capFile, !.done = done])

RenameCompacted ==
  /\ compactor.pc = "rename" /\ capFile = compactor.file
  /\ capFile' = FileOf(capChanges + 1, compactor.done.prefix, capFile.tail, capChanges + 1)
  /\ capChanges' = capChanges + 1
  /\ compactor' = [compactor EXCEPT !.pc = "finish", !.kept = Retained(capChanges + 1, compactor.done)]
  /\ UNCHANGED <<capDay, capState, capPending, capSync, capServer, returned, early, capLost>>

CompactFinishes ==
  /\ compactor.pc = "finish"
  /\ CompactSaves(compactor.kept, NoCompact)

CompactDies ==
  /\ compactor.pc # "idle" /\ capLost < CaptureMaxLost
  /\ capLost' = capLost + 1 /\ compactor' = NoCompact
  /\ UNCHANGED <<capFile, capDay, capChanges, capState, capPending, capSync, capServer, returned, early>>

CaptureNext ==
  \/ CaptureNextDay \/ AppendTorn \/ \E r \in Record : AppendCapture(r)
  \/ SyncBegins \/ Stat \/ CollectCapture \/ ProveCapture \/ PersistCapture \/ SyncResumes \/ Accept
  \/ AcknowledgeProof \/ CaptureSyncDies
  \/ CompactBegins \/ AlreadyCompacted \/ Discard \/ NothingToRemove \/ Intend
  \/ RenameCompacted \/ CompactFinishes \/ CompactDies

CaptureSpec == CaptureInit /\ [][CaptureNext]_captureVars

-----------------------------------------------------------------------------
(* Types: a waiting proof covers no more than it hashes, and what is saved *)
(* fits the ledger.                                                        *)
CaptureTypeOK ==
  /\ capSync.pc \in {"idle", "stat", "read", "prove", "persist", "deliver", "acknowledge"}
  /\ compactor.pc \in {"idle", "decide", "rename", "finish"}
  /\ capState.proof # NoProof =>
       /\ Len(capState.proof.prefix) = capState.proof.offset
       /\ \A s \in capState.proof.segments : s.offset \in 0 .. capState.proof.offset
  /\ capState.ledger \subseteq Record /\ Cardinality(capState.ledger) <= LedgerLimit
  /\ capServer \subseteq returned

InFile(r) == \E n \in DOMAIN capFile.lines : capFile.lines[n] \in {r, Glued(r)}

(* A captured record leaves the file only after the server has counted it, *)
(* whatever dies, is lost or is written back from an older state.json.     *)
(* Records a collection went past before their day had come are left out:  *)
(* they can be lost (see the README).                                      *)
RemovedWasAccepted == \A r \in returned \ early : r \in capServer \/ InFile(r)

=============================================================================
