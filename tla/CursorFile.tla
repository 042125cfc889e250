---------------------------- MODULE CursorFile ----------------------------
(***************************************************************************)
(* The file of the Cursor ledger and its proof: a second file that names   *)
(* the ledger's inode and how much of it had been written, and during a    *)
(* replacement also the inode to come.  One process at a time holds the    *)
(* ledger's lock (OwnedLock); it may die at any step, a power failure may  *)
(* take what was not synced, and a backup may bring back an older ledger.  *)
(*                                                                         *)
(* A record is a number; a line cut short is the flag torn.  Compaction    *)
(* rewrites the same records in another form (CursorLedger shows that      *)
(* nothing is lost), so here it only changes the inode.                    *)
(***************************************************************************)
EXTENDS Naturals, SequencesExt

CONSTANTS
  NoLedger,   \* no file, or no proof
  MaxRecords, \* records ever appended; bounds the model
  MaxInodes,  \* files ever created; bounds the model
  MaxFaults   \* crashes, power failures and restored backups; bounds the model

LedgerFile == [ino : Nat, recs : Seq(Nat), torn : BOOLEAN]
Proof == [current : LedgerFile, next : LedgerFile \cup {NoLedger}]

ASSUME CursorFileAssumption ==
  /\ {MaxRecords, MaxInodes, MaxFaults} \subseteq Nat
  /\ NoLedger \notin LedgerFile \cup Proof

VARIABLES
  disk,   \* the file as processes see it
  durable,  \* as a power failure would leave it
  proof,    \* the proof file: [current, next]
  staged,   \* the replacement being published
  phase,    \* of the process that holds the lock
  acked,    \* records whose append has returned
  records, inodes, faults,
  exposed,  \* a proof covers bytes that no process has synced
  restored  \* a backup was restored

fileVars == <<disk, durable, proof, staged, phase, acked, records, inodes, faults, exposed, restored>>

Ledgers == [ino : 1 .. MaxInodes, recs : BoundedSeq(1 .. MaxRecords, MaxRecords), torn : BOOLEAN]
Phases == {"closed", "observe", "open", "sync", "prove", "replace", "rename", "settle"}

FileTypeOK ==
  /\ {disk, durable, staged} \subseteq Ledgers \cup {NoLedger}
  /\ \/ proof = NoLedger
     \/ proof.current \in Ledgers /\ proof.next \in Ledgers \cup {NoLedger}
  /\ phase \in Phases
  /\ acked \in SUBSET (1 .. MaxRecords)
  /\ records \in 0 .. MaxRecords /\ inodes \in 0 .. MaxInodes /\ faults \in 0 .. MaxFaults
  /\ {exposed, restored} \subseteq BOOLEAN

FileInit ==
  /\ disk = NoLedger /\ durable = NoLedger /\ proof = NoLedger /\ staged = NoLedger
  /\ phase = "closed" /\ acked = {} /\ records = 0 /\ inodes = 0 /\ faults = 0
  /\ exposed = FALSE /\ restored = FALSE

----------------------------------------------------------------------------
(* What a proof says of a file *)

(* matchesCheckpoint: the bytes of mark are the beginning of the file. *)
Matches(mark, file) ==
  /\ mark # NoLedger /\ file # NoLedger
  /\ mark.ino = file.ino
  /\ IsPrefix(mark.recs, file.recs)
  /\ mark.torn => file = mark

(* The checks of withLedgerFile; only initialize takes a ledger without a  *)
(* proof, and only an empty one.                                           *)
Opens(file, mark) ==
  \/ mark = NoLedger /\ (file = NoLedger \/ (file.recs = <<>> /\ ~file.torn))
  \/ mark # NoLedger /\ (Matches(mark.current, file) \/ Matches(mark.next, file))

(* writeLedgerProof.  It replaces the proof atomically, and its sync of    *)
(* the directory makes the ledger's own name durable.                      *)
WriteProof(current, next) ==
  /\ proof' = [current |-> current, next |-> next]
  /\ durable' = IF durable = NoLedger \/ durable.ino # disk.ino THEN disk ELSE durable

To(next) == phase' = next
CountedBy == <<records, inodes, faults>>
Past == <<exposed, restored>>

----------------------------------------------------------------------------
(* Opening *)

Create ==
  /\ phase = "closed" /\ proof = NoLedger /\ disk = NoLedger /\ inodes < MaxInodes
  /\ disk' = [ino |-> inodes + 1, recs |-> <<>>, torn |-> FALSE]
  /\ inodes' = inodes + 1
  /\ To("observe")
  /\ UNCHANGED <<durable, proof, staged, acked, records, faults, exposed, restored>>

Open ==
  /\ phase = "closed" /\ disk # NoLedger /\ Opens(disk, proof)
  /\ To("observe")
  /\ UNCHANGED <<disk, durable, proof, staged, acked, CountedBy, Past>>

(* What was found is written to the proof before the operation runs: it    *)
(* may hold bytes that a process which died had not synced.                *)
Observe ==
  /\ phase = "observe"
  /\ IF proof = [current |-> disk, next |-> NoLedger]
     THEN UNCHANGED <<proof, durable>>
     ELSE WriteProof(disk, NoLedger)
  /\ exposed' = (exposed \/ durable' # disk)
  /\ To("open")
  /\ UNCHANGED <<disk, staged, acked, CountedBy, restored>>

Close ==
  /\ phase = "open"
  /\ To("closed")
  /\ UNCHANGED <<disk, durable, proof, staged, acked, CountedBy, Past>>

----------------------------------------------------------------------------
(* append: write, sync, prove *)

WriteLedger ==
  /\ phase = "open" /\ ~disk.torn /\ records < MaxRecords
  /\ disk' = [disk EXCEPT !.recs = Append(@, records + 1)]
  /\ records' = records + 1
  /\ To("sync")
  /\ UNCHANGED <<durable, proof, staged, acked, inodes, faults, Past>>

Sync ==
  /\ phase = "sync"
  /\ durable' = disk /\ exposed' = FALSE
  /\ To("prove")
  /\ UNCHANGED <<disk, proof, staged, acked, CountedBy, restored>>

(* Mutant: append returns with the proof as it was. *)
ReturnUnproved ==
  /\ phase = "prove"
  /\ acked' = acked \cup {Last(disk.recs)}
  /\ To("open")
  /\ UNCHANGED <<disk, durable, proof, staged, CountedBy, Past>>

Return ==
  /\ phase = "prove"
  /\ WriteProof(disk, NoLedger)
  /\ acked' = acked \cup {Last(disk.recs)}
  /\ To("open")
  /\ UNCHANGED <<disk, staged, CountedBy, Past>>

----------------------------------------------------------------------------
(* publish: stage, prove both, rename, prove the new one *)

(* compactCursorLedger, or repairCursorLedger with the gap it adds. *)
Stage ==
  /\ phase = "open" /\ inodes < MaxInodes
  /\ IF disk.torn
     THEN /\ disk.recs # <<>> /\ records < MaxRecords
          /\ staged' = [ino |-> inodes + 1, recs |-> Append(disk.recs, records + 1), torn |-> FALSE]
          /\ records' = records + 1
     ELSE /\ disk.recs # <<>>
          /\ staged' = [disk EXCEPT !.ino = inodes + 1]
          /\ records' = records
  /\ inodes' = inodes + 1
  /\ To("replace")
  /\ UNCHANGED <<disk, durable, proof, acked, faults, Past>>

(* Mutant: the new inode is not announced. *)
AnnounceNothing ==
  /\ phase = "replace"
  /\ To("rename")
  /\ UNCHANGED <<disk, durable, proof, staged, acked, CountedBy, Past>>

Announce ==
  /\ phase = "replace"
  /\ WriteProof(disk, staged)
  /\ To("rename")
  /\ UNCHANGED <<disk, staged, acked, CountedBy, Past>>

Rename ==
  /\ phase = "rename"
  /\ disk' = staged
  /\ staged' = NoLedger
  /\ To("settle")
  /\ UNCHANGED <<durable, proof, acked, CountedBy, Past>>

SettleFile ==
  /\ phase = "settle"
  /\ WriteProof(disk, NoLedger)
  /\ exposed' = FALSE
  /\ To("open")
  /\ UNCHANGED <<disk, staged, acked, CountedBy, restored>>

----------------------------------------------------------------------------
(* Faults *)

(* The process dies; its stage is left under a name nobody reads. *)
LedgerCrash ==
  /\ phase # "closed" /\ faults < MaxFaults
  /\ faults' = faults + 1
  /\ staged' = NoLedger
  /\ To("closed")
  /\ UNCHANGED <<disk, durable, proof, acked, records, inodes, Past>>

(* It dies, or the disk fills, in the middle of a line. *)
Tear ==
  /\ phase = "open" /\ ~disk.torn /\ records < MaxRecords /\ faults < MaxFaults
  /\ faults' = faults + 1
  /\ disk' = [disk EXCEPT !.torn = TRUE]
  /\ To("closed")
  /\ UNCHANGED <<durable, proof, staged, acked, records, inodes, Past>>

(* Between what was synced and what was written: the renamed file or the   *)
(* one before, and of the lines a beginning.                               *)
Beginnings ==
  {file \in [ino : {disk.ino}, recs : {SubSeq(disk.recs, 1, n) : n \in 0 .. Len(disk.recs)}, torn : BOOLEAN] :
     /\ IsPrefix(durable.recs, file.recs)
     /\ durable.torn => file = durable
     /\ file.torn => disk.torn \/ file.recs # disk.recs}

Survivors ==
  {durable, disk} \cup
  IF durable = NoLedger \/ durable.ino # disk.ino THEN {} ELSE Beginnings

PowerFails ==
  /\ faults < MaxFaults
  /\ faults' = faults + 1
  /\ \E file \in Survivors : disk' = file /\ durable' = file
  /\ staged' = NoLedger
  /\ To("closed")
  /\ UNCHANGED <<proof, acked, records, inodes, Past>>

(* A backup, or an editor, brings back an older state of the ledger, in    *)
(* place or as another file.                                               *)
RestoreBackup ==
  /\ phase = "closed" /\ disk # NoLedger /\ faults < MaxFaults
  /\ faults' = faults + 1 /\ restored' = TRUE
  /\ \/ /\ \E n \in 0 .. Len(disk.recs) : disk' = [disk EXCEPT !.recs = SubSeq(@, 1, n), !.torn = FALSE]
        /\ inodes' = inodes
     \/ /\ inodes < MaxInodes
        /\ inodes' = inodes + 1
        /\ \E n \in 0 .. Len(disk.recs) :
             disk' = [ino |-> inodes + 1, recs |-> SubSeq(disk.recs, 1, n), torn |-> FALSE]
  /\ durable' = disk'
  /\ UNCHANGED <<proof, staged, phase, acked, records, exposed>>

FileNext ==
  \/ Create \/ Open \/ Observe \/ Close
  \/ WriteLedger \/ Sync \/ Return
  \/ Stage \/ Announce \/ Rename \/ SettleFile
  \/ LedgerCrash \/ Tear \/ PowerFails \/ RestoreBackup

FileSpec == FileInit /\ [][FileNext]_fileVars

----------------------------------------------------------------------------
(* Properties *)

(* A ledger that nobody tampered with opens again after a crash at any     *)
(* step: the proof written before each step allows its outcome.  Exposed   *)
(* bytes are excepted: a process died before its sync, another one proved  *)
(* what it found, and a power failure then took it (see the README).       *)
OpensAgain == phase = "closed" /\ ~restored /\ ~exposed => Opens(disk, proof)

(* Whoever gets to read the ledger finds every record whose append has     *)
(* returned, whatever crash, power failure or restored backup came between:*)
(* the proof refuses a ledger that has lost one.                           *)
NoRollback == phase \notin {"closed", "observe"} => acked \subseteq Range(disk.recs)

(* A file of the Cursor ledger that nobody tampered with opens again after *)
(* a crash at any step, and whoever gets to read it finds every record     *)
(* whose append has returned.                                              *)
LedgerIsDurable == OpensAgain /\ NoRollback

=============================================================================
