-------------------------- MODULE Connector_proofs --------------------------
(***************************************************************************)
(* Theorems about what the connector keeps on disk besides the outbox: the *)
(* file of the Cursor ledger, the history of a year, the reading of the    *)
(* JSONL stores and the captured records.  Every part is on its own, as in MCConnector. *)
(***************************************************************************)
EXTENDS MCConnector, TLAPS, SequenceTheorems, FiniteSetTheorems,
  WellFoundedInduction

-----------------------------------------------------------------------------
(***************************************************************************)
(* The file of the Cursor ledger (CursorFile).  FileInv says of every file *)
(* that may be found what its proof vouches for: whatever a crash at this  *)
(* moment may leave opens again, and holds what has been acknowledged.     *)
(***************************************************************************)

(* One sequence is the beginning of another, element by element.           *)
LEMMA PrefixMeans ==
  ASSUME NEW S, NEW s \in Seq(S), NEW t \in Seq(S)
  PROVE  IsPrefix(s, t) <=> Len(s) <= Len(t) /\ \A i \in 1 .. Len(s) : s[i] = t[i]
<1>1. ASSUME NEW n \in 0 .. Len(t)
      PROVE  SubSeq(t, 1, n) = [i \in 1 .. n |-> t[i]]
  <2>1. \A i \in 1 .. n : t[i] \in S
    OBVIOUS
  <2>2. SubSeq(t, 1, n) \in Seq(S) /\ Len(SubSeq(t, 1, n)) = n
          /\ \A i \in 1 .. n : SubSeq(t, 1, n)[i] = t[i]
    BY <2>1
  <2> QED  BY <2>2
<1>2. SubSeq(s, 1, Len(s)) = s
  OBVIOUS
<1>3. CASE Len(s) <= Len(t)
  <2>1. SubSeq(t, 1, Len(s)) = [i \in 1 .. Len(s) |-> t[i]]
    BY <1>1, <1>3
  <2>2. s = [i \in 1 .. Len(s) |-> s[i]]
    OBVIOUS
  <2> QED  BY <1>2, <1>3, <2>1, <2>2 DEF IsPrefix
<1>4. CASE ~(Len(s) <= Len(t))
  BY <1>4 DEF IsPrefix
<1> QED  BY <1>3, <1>4

(* A file that the model's counters account for.                           *)
Sound(f) ==
  /\ f \in LedgerFile
  /\ f.ino \in 1 .. inodes
  /\ Len(f.recs) <= records /\ \A i \in DOMAIN f.recs : f.recs[i] \in 1 .. records

FilesOK ==
  /\ records \in 0 .. MaxRecords /\ inodes \in 0 .. MaxInodes /\ faults \in 0 .. MaxFaults
  /\ phase \in Phases /\ exposed \in BOOLEAN /\ restored \in BOOLEAN
  /\ acked \subseteq 1 .. records
  /\ disk # NoLedger => Sound(disk)
  /\ disk = NoLedger => durable = NoLedger
  /\ durable # NoLedger => Sound(durable)
  /\ staged # NoLedger => Sound(staged)
  /\ proof # NoLedger =>
       /\ proof = [current |-> proof.current, next |-> proof.next]
       /\ Sound(proof.current)
       /\ proof.next # NoLedger => Sound(proof.next)

(* Nothing that was acknowledged is missing from what the proof describes, *)
(* nor from a ledger that has been opened.                                 *)
AckedInv ==
  /\ proof = NoLedger => acked = {}
  /\ proof # NoLedger =>
       /\ acked \subseteq Range(proof.current.recs)
       /\ proof.next # NoLedger => acked \subseteq Range(proof.next.recs)
  /\ phase # "closed" => disk # NoLedger /\ acked \subseteq Range(disk.recs)
  /\ phase \in {"replace", "rename"} => acked \subseteq Range(staged.recs)

(* What each phase of an operation may rely on.                            *)
PhaseInv ==
  /\ phase \in {"open", "sync", "prove", "replace"} =>
       proof # NoLedger /\ Matches(proof.current, disk)
  /\ phase \in {"open", "replace"} /\ ~exposed => durable = disk
  /\ phase = "prove" => durable = disk
  /\ phase \in {"sync", "prove"} => disk.recs # <<>>
  /\ phase \in {"replace", "rename"} =>
       staged # NoLedger /\ staged.ino # disk.ino
         /\ (durable # NoLedger => durable.ino # staged.ino)
  /\ phase = "rename" => proof # NoLedger /\ proof.next = staged
  /\ phase = "settle" /\ durable # NoLedger => durable.ino # disk.ino

(* Whatever a power failure would leave, the proof allows it.              *)
SafeInv == ~restored /\ ~exposed => \A f \in Survivors : Opens(f, proof)

FileInv == FilesOK /\ AckedInv /\ PhaseInv /\ SafeInv

(* A ledger begins with itself.                                            *)
LEMMA MatchesSelf ==
  ASSUME NEW f \in LedgerFile
  PROVE  Matches(f, f)
<1>1. f # NoLedger /\ f.recs \in Seq(Nat)
  BY CursorFileAssumption DEF LedgerFile
<1>2. IsPrefix(f.recs, f.recs)
  BY <1>1, PrefixMeans
<1> QED  BY <1>1, <1>2 DEF Matches

(* A ledger that begins with another, which begins with a third.           *)
LEMMA MatchesOn ==
  ASSUME NEW f \in LedgerFile, NEW g \in LedgerFile, NEW h \in LedgerFile, Matches(f, g), g.ino = h.ino,
         IsPrefix(g.recs, h.recs), g.torn => h = g
  PROVE  Matches(f, h)
<1>1. f # NoLedger /\ h # NoLedger /\ {f.recs, g.recs, h.recs} \subseteq Seq(Nat)
  BY CursorFileAssumption DEF LedgerFile
<1>2. IsPrefix(f.recs, g.recs) /\ f.ino = g.ino /\ (f.torn => g = f)
  BY DEF Matches
<1>3. IsPrefix(f.recs, h.recs)
  <2>1. Len(f.recs) <= Len(g.recs) /\ \A i \in 1 .. Len(f.recs) : f.recs[i] = g.recs[i]
    BY <1>1, <1>2, PrefixMeans
  <2>2. Len(g.recs) <= Len(h.recs) /\ \A i \in 1 .. Len(g.recs) : g.recs[i] = h.recs[i]
    BY <1>1, PrefixMeans
  <2>3. Len(f.recs) \in Nat /\ Len(g.recs) \in Nat /\ Len(h.recs) \in Nat
    BY <1>1
  <2>4. Len(f.recs) <= Len(h.recs) /\ \A i \in 1 .. Len(f.recs) : f.recs[i] = h.recs[i]
    BY <2>1, <2>2, <2>3
  <2> QED  BY <1>1, <2>4, PrefixMeans
<1> QED  BY <1>1, <1>2, <1>3 DEF Matches

(* What a ledger holds, one that begins with it holds.                     *)
LEMMA MatchesHolds ==
  ASSUME NEW f \in LedgerFile, NEW g \in LedgerFile, Matches(f, g)
  PROVE  Range(f.recs) \subseteq Range(g.recs)
<1>1. f.recs \in Seq(Nat) /\ g.recs \in Seq(Nat)
  BY DEF LedgerFile
<1>2. Len(f.recs) <= Len(g.recs) /\ \A i \in 1 .. Len(f.recs) : f.recs[i] = g.recs[i]
  BY <1>1, PrefixMeans DEF Matches
<1>3. Len(f.recs) \in Nat /\ Len(g.recs) \in Nat
  BY <1>1
<1>4. ASSUME NEW i \in 1 .. Len(f.recs)
      PROVE  i \in DOMAIN g.recs /\ f.recs[i] = g.recs[i]
  BY <1>1, <1>2, <1>3
<1>5. DOMAIN f.recs = 1 .. Len(f.recs)
  BY <1>1
<1> QED  BY <1>4, <1>5 DEF Range

(* When nothing waits to be synced, a power failure takes nothing.         *)
LEMMA SyncedSurvives ==
  ASSUME durable' = disk', disk' # NoLedger => disk' \in LedgerFile
  PROVE  Survivors' = {disk'}
<1>1. CASE disk' = NoLedger
  BY <1>1 DEF Survivors
<1>2. CASE disk' # NoLedger
  <2>1. ASSUME NEW f \in Beginnings'
        PROVE  f = disk'
    <3>1. PICK n \in 0 .. Len(disk'.recs) : f.recs = SubSeq(disk'.recs, 1, n)
      BY DEF Beginnings
    <3>2. disk'.recs \in Seq(Nat) /\ Len(disk'.recs) \in Nat
      BY <1>2 DEF LedgerFile
    <3>3. f.recs \in Seq(Nat) /\ Len(f.recs) = n /\ \A i \in 1 .. n : f.recs[i] = disk'.recs[i]
      <4>1. \A i \in 1 .. n : disk'.recs[i] \in Nat
        BY <3>2
      <4> QED  BY <3>1, <3>2, <4>1
    <3>4. IsPrefix(disk'.recs, f.recs)
      BY DEF Beginnings
    <3>5. Len(disk'.recs) <= n
      BY <3>2, <3>3, <3>4, PrefixMeans
    <3>6. n = Len(disk'.recs)
      BY <3>2, <3>5
    <3>7. f.recs = disk'.recs
      BY <3>1, <3>2, <3>6
    <3>8. f.ino = disk'.ino /\ f.torn \in BOOLEAN /\ f = [ino |-> f.ino, recs |-> f.recs, torn |-> f.torn]
      BY DEF Beginnings
    <3>9. disk' = [ino |-> disk'.ino, recs |-> disk'.recs, torn |-> disk'.torn] /\ disk'.torn \in BOOLEAN
      BY <1>2 DEF LedgerFile
    <3>10. (f.torn => disk'.torn) /\ (disk'.torn => f = disk')
      BY <3>7 DEF Beginnings
    <3> QED  BY <3>7, <3>8, <3>9, <3>10
  <2> QED  BY <2>1 DEF Survivors
<1> QED  BY <1>1, <1>2

(* Every survivor is accounted for.                                        *)
LEMMA SurvivorsSound ==
  ASSUME FilesOK, NEW f \in Survivors
  PROVE  f = NoLedger \/ Sound(f)
<1>1. CASE f \in {durable, disk}
  BY <1>1 DEF FilesOK
<1>2. CASE f \in Beginnings /\ durable # NoLedger /\ durable.ino = disk.ino /\ disk # NoLedger
  <2>1. Sound(disk)
    BY <1>2 DEF FilesOK
  <2>2. PICK n \in 0 .. Len(disk.recs) : f.recs = SubSeq(disk.recs, 1, n)
    BY <1>2 DEF Beginnings
  <2>3. disk.recs \in Seq(Nat) /\ Len(disk.recs) \in Nat /\ records \in Nat
    BY <2>1 DEF Sound, LedgerFile, FilesOK
  <2>4. \A i \in 1 .. n : disk.recs[i] \in Nat
    BY <2>3
  <2>5. f.recs \in Seq(Nat) /\ Len(f.recs) = n /\ \A i \in 1 .. n : f.recs[i] = disk.recs[i]
    BY <2>2, <2>3, <2>4
  <2>6. Len(f.recs) <= records /\ \A i \in DOMAIN f.recs : f.recs[i] \in 1 .. records
    <3>1. DOMAIN f.recs = 1 .. n /\ 1 .. n \subseteq DOMAIN disk.recs /\ n <= Len(disk.recs)
      BY <2>3, <2>5
    <3>2. Len(disk.recs) <= records /\ \A i \in DOMAIN disk.recs : disk.recs[i] \in 1 .. records
      BY <2>1 DEF Sound
    <3>3. n <= records
      BY <2>2, <2>3, <3>1, <3>2
    <3> QED  BY <2>5, <3>1, <3>2, <3>3
  <2>7. f.ino = disk.ino /\ f \in [ino : {disk.ino}, recs : {SubSeq(disk.recs, 1, m) : m \in 0 .. Len(disk.recs)}, torn : BOOLEAN]
    BY <1>2 DEF Beginnings
  <2>8. f \in LedgerFile
    BY <2>1, <2>5, <2>7 DEF Sound, LedgerFile
  <2> QED  BY <2>1, <2>6, <2>7, <2>8 DEF Sound
<1> QED  BY <1>1, <1>2 DEF Survivors, FilesOK

(* Counters only grow: what they accounted for they still do.              *)
LEMMA StaysSound ==
  ASSUME records \in Nat, records' \in Nat, inodes \in Nat, inodes' \in Nat,
         records <= records', inodes <= inodes', NEW f, Sound(f)
  PROVE  Sound(f)'
<1>1. f \in LedgerFile /\ Len(f.recs) \in Nat
  BY DEF Sound, LedgerFile
<1>2. 1 .. records \subseteq 1 .. records' /\ 1 .. inodes \subseteq 1 .. inodes'
  OBVIOUS
<1> QED  BY <1>1, <1>2 DEF Sound

(* Appending the next record to a ledger.                                  *)
LEMMA AppendSound ==
  ASSUME NEW f, Sound(f), records \in Nat, records' = records + 1, inodes \in Nat, inodes' \in Nat,
         inodes <= inodes', NEW g \in LedgerFile, g.ino \in 1 .. inodes', g.recs = Append(f.recs, records + 1)
  PROVE  /\ Sound(g)' /\ IsPrefix(f.recs, g.recs)
         /\ Range(f.recs) \subseteq Range(g.recs) /\ Last(g.recs) = records + 1
         /\ Last(g.recs) \in Range(g.recs)
<1> DEFINE n == Len(f.recs)
<1>1. f.recs \in Seq(Nat) /\ n \in Nat /\ n <= records /\ DOMAIN f.recs = 1 .. n
        /\ \A i \in 1 .. n : f.recs[i] \in 1 .. records
  BY DEF Sound, LedgerFile
<1>2. g.recs \in Seq(Nat) /\ Len(g.recs) = n + 1 /\ DOMAIN g.recs = 1 .. n + 1 /\ g.recs[n + 1] = records + 1
        /\ \A i \in 1 .. n : g.recs[i] = f.recs[i]
  BY <1>1
<1> HIDE DEF n
<1>3. \A i \in 1 .. n + 1 : g.recs[i] \in 1 .. records'
  BY <1>1, <1>2
<1>4. Sound(g)'
  <2>1. Len(g.recs) <= records'
    BY <1>1, <1>2
  <2> QED  BY <1>2, <1>3, <2>1 DEF Sound
<1>5. IsPrefix(f.recs, g.recs)
  <2>1. n <= n + 1 /\ Len(f.recs) = n
    BY <1>1 DEF n
  <2> QED  BY <1>1, <1>2, <2>1, PrefixMeans
<1>6. Range(f.recs) \subseteq Range(g.recs)
  <2>1. 1 .. n \subseteq 1 .. n + 1
    BY <1>1
  <2> QED  BY <1>1, <1>2, <2>1 DEF Range
<1>7. Last(g.recs) = records + 1 /\ n + 1 \in DOMAIN g.recs
  BY <1>1, <1>2 DEF Last
<1> QED  BY <1>2, <1>4, <1>5, <1>6, <1>7 DEF Range

(* What an opened ledger holds, and what one may find on opening.          *)
LEMMA OpensHolds ==
  ASSUME FilesOK, AckedInv, NEW f \in LedgerFile, Opens(f, proof)
  PROVE  acked \subseteq Range(f.recs)
<1>1. CASE proof = NoLedger
  BY <1>1 DEF AckedInv
<1>2. CASE proof # NoLedger /\ Matches(proof.current, f)
  BY <1>2, MatchesHolds DEF AckedInv, FilesOK, Sound
<1>3. CASE proof # NoLedger /\ Matches(proof.next, f)
  <2>1. proof.next # NoLedger
    BY <1>3 DEF Matches
  <2> QED  BY <1>3, <2>1, MatchesHolds DEF AckedInv, FilesOK, Sound
<1> QED  BY <1>1, <1>2, <1>3, CursorFileAssumption DEF Opens

(* The initial state. *)
LEMMA FileInitInv ==
  ASSUME FileInit
  PROVE  FileInv
<1> USE CursorFileAssumption DEF FileInit
<1>0. /\ MaxRecords \in Nat /\ MaxInodes \in Nat /\ MaxFaults \in Nat
      /\ records = 0 /\ inodes = 0 /\ faults = 0
  OBVIOUS
<1>1. FilesOK /\ AckedInv /\ PhaseInv
  <2>1. FilesOK
    <3>1. records \in 0 .. MaxRecords /\ inodes \in 0 .. MaxInodes /\ faults \in 0 .. MaxFaults
      BY <1>0
    <3>2. phase \in Phases /\ exposed \in BOOLEAN /\ restored \in BOOLEAN /\ acked \subseteq 1 .. records
      BY DEF Phases
    <3>3. disk = NoLedger /\ durable = NoLedger /\ staged = NoLedger /\ proof = NoLedger
      OBVIOUS
    <3> HIDE DEF FileInit
    <3> QED  BY <3>1, <3>2, <3>3 DEF FilesOK
  <2>2. AckedInv
    BY DEF AckedInv
  <2>3. PhaseInv
    BY DEF PhaseInv
  <2> QED  BY <2>1, <2>2, <2>3
<1>2. Survivors = {NoLedger}
  BY DEF Survivors
<1>3. SafeInv
  BY <1>2 DEF SafeInv, Opens
<1> QED  BY <1>1, <1>3 DEF FileInv

(* A file is created, with nothing in it.                                  *)
LEMMA CreateKeeps ==
  ASSUME FileInv, Create
  PROVE  FileInv'
<1> USE DEF FileInv
<1>1. inodes \in Nat /\ inodes' = inodes + 1 /\ records \in Nat /\ records' = records
        /\ proof = NoLedger /\ disk = NoLedger /\ durable = NoLedger /\ acked = {}
        /\ UNCHANGED <<durable, proof, staged, acked, records, faults, exposed, restored>>
        /\ disk' = [ino |-> inodes + 1, recs |-> <<>>, torn |-> FALSE] /\ phase' = "observe"
        /\ inodes' \in 0 .. MaxInodes
  BY CursorFileAssumption DEF Create, FilesOK, AckedInv, To
<1>2. disk' \in LedgerFile /\ disk' # NoLedger
  <2>1. [ino |-> inodes + 1, recs |-> <<>>, torn |-> FALSE] \in LedgerFile
    BY <1>1 DEF LedgerFile
  <2> QED  BY <1>1, <2>1, CursorFileAssumption
<1>3. Sound(disk)'
  BY <1>1, <1>2 DEF Sound
<1>4. staged # NoLedger => Sound(staged)'
  BY <1>1, StaysSound DEF FilesOK
<1>5. FilesOK'
  BY <1>1, <1>2, <1>3, <1>4 DEF FilesOK, Phases
<1>6. AckedInv' /\ PhaseInv'
  BY <1>1, <1>2 DEF AckedInv, PhaseInv
<1>7. SafeInv'
  BY <1>1, <1>2 DEF SafeInv, Survivors, Opens
<1> QED  BY <1>5, <1>6, <1>7

(* Steps that change nothing on the disk, and no inode or record.          *)
LEMMA FileQuiet ==
  ASSUME FileInv, UNCHANGED <<disk, durable, proof, staged, acked, records, inodes, faults, exposed, restored>>,
         phase' \in Phases, PhaseInv', AckedInv'
  PROVE  FileInv'
<1>1. FilesOK'
  BY DEF FileInv, FilesOK, Sound
<1>2. Survivors' = Survivors
  BY DEF Survivors, Beginnings
<1>3. SafeInv'
  BY <1>2 DEF FileInv, SafeInv, Opens, Matches
<1> QED  BY <1>1, <1>3 DEF FileInv

(* A process opens the file, and adopts what its proof vouches for.        *)
LEMMA OpenKeeps ==
  ASSUME FileInv, Open
  PROVE  FileInv'
<1>1. UNCHANGED <<disk, durable, proof, staged, acked, records, inodes, faults, exposed, restored>>
        /\ phase' = "observe" /\ disk # NoLedger /\ Opens(disk, proof)
  BY DEF Open, To, CountedBy, Past
<1>2. acked \subseteq Range(disk.recs)
  BY <1>1, OpensHolds DEF FileInv, FilesOK, Sound
<1>3. PhaseInv' /\ AckedInv'
  BY <1>1, <1>2 DEF FileInv, PhaseInv, AckedInv
<1> QED  BY <1>1, <1>3, FileQuiet DEF Phases

(* A process that is done, or dies, lets the file be.                      *)
LEMMA CloseKeeps ==
  ASSUME FileInv, Close
  PROVE  FileInv'
<1>1. UNCHANGED <<disk, durable, proof, staged, acked, records, inodes, faults, exposed, restored>>
        /\ phase' = "closed"
  BY DEF Close, To, CountedBy, Past
<1>2. PhaseInv' /\ AckedInv'
  BY <1>1 DEF FileInv, PhaseInv, AckedInv
<1> QED  BY <1>1, <1>2, FileQuiet DEF Phases

(* What a proof of the ledger says and makes durable.                      *)
LEMMA ProofWritten ==
  ASSUME FileInv, disk # NoLedger, NEW next, next # NoLedger => Sound(next), WriteProof(disk, next),
         UNCHANGED disk
  PROVE  /\ proof' = [current |-> disk, next |-> next] /\ proof' # NoLedger
         /\ Matches(proof'.current, disk')
         /\ durable' = disk' \/ (durable' = durable /\ durable # NoLedger /\ durable.ino = disk.ino)
<1>1. proof' = [current |-> disk, next |-> next]
  BY DEF WriteProof
<1>2. proof' # NoLedger
  <2>1. disk \in LedgerFile /\ next \in LedgerFile \cup {NoLedger}
    BY DEF FileInv, FilesOK, Sound
  <2>2. [current |-> disk, next |-> next] \in Proof
    BY <2>1 DEF Proof
  <2> QED  BY <1>1, <2>2, CursorFileAssumption
<1>3. Matches(disk, disk)
  BY MatchesSelf DEF FileInv, FilesOK, Sound
<1> QED  BY <1>1, <1>2, <1>3 DEF WriteProof, FileInv, FilesOK

(* The ledger is written to the proof as it was found.                     *)
LEMMA ObserveKeeps ==
  ASSUME FileInv, Observe
  PROVE  FileInv'
<1> USE DEF FileInv
<1>1. /\ phase = "observe" /\ phase' = "open"
      /\ UNCHANGED <<disk, staged, acked, records, inodes, faults, restored>>
      /\ exposed' = (exposed \/ durable' # disk)
      /\ disk # NoLedger /\ Sound(disk) /\ disk \in LedgerFile
  BY DEF Observe, To, CountedBy, AckedInv, FilesOK, Sound
<1>2. /\ proof' = [current |-> disk, next |-> NoLedger] /\ proof' # NoLedger
      /\ Matches(disk, disk)
      /\ durable' = disk' \/ durable' = durable
  <2>1. CASE proof = [current |-> disk, next |-> NoLedger]
    <3>1. disk \in LedgerFile
      BY <1>1
    <3>2. [current |-> disk, next |-> NoLedger] \in Proof
      BY <3>1 DEF Proof
    <3> QED  BY <1>1, <2>1, <3>1, <3>2, MatchesSelf, CursorFileAssumption DEF Observe
  <2>2. CASE proof # [current |-> disk, next |-> NoLedger]
    BY <1>1, <2>2, ProofWritten, MatchesSelf DEF Observe
  <2> QED  BY <2>1, <2>2
<1>3. Sound(disk)' /\ (durable' # NoLedger => Sound(durable)') /\ (staged # NoLedger => Sound(staged)')
  BY <1>1, <1>2 DEF FilesOK, Sound
<1>4. FilesOK'
  BY <1>1, <1>2, <1>3 DEF FilesOK, Phases, Sound
<1>5. AckedInv'
  BY <1>1, <1>2 DEF AckedInv
<1>6. PhaseInv'
  BY <1>1, <1>2 DEF PhaseInv
<1>7. SafeInv'
  <2> SUFFICES ASSUME ~restored', ~exposed', NEW f \in Survivors'
               PROVE  Opens(f, proof)'
    BY DEF SafeInv
  <2>1. durable' = disk'
    BY <1>1
  <2>2. f = disk
    BY <1>1, <1>3, <2>1, SyncedSurvives
  <2> QED  BY <1>1, <1>2, <2>2 DEF Opens
<1> QED  BY <1>4, <1>5, <1>6, <1>7

(* A beginning of a ledger's lines.                                        *)
LEMMA CutIs ==
  ASSUME NEW s \in Seq(Nat), NEW n \in 0 .. Len(s)
  PROVE  LET cut == SubSeq(s, 1, n)
         IN  cut \in Seq(Nat) /\ Len(cut) = n /\ DOMAIN cut = 1 .. n /\ \A i \in 1 .. n : cut[i] = s[i]
<1>1. \A i \in 1 .. n : s[i] \in Nat
  OBVIOUS
<1> QED  BY <1>1

(* When what is on the disk and what is durable both begin with what the   *)
(* proof describes, so does whatever a power failure leaves.               *)
LEMMA BeginningsOpen ==
  ASSUME disk' \in LedgerFile, durable' \in LedgerFile, proof' # NoLedger, proof'.current \in LedgerFile,
         Matches(proof'.current, disk'), Matches(proof'.current, durable'),
         NEW f \in Survivors'
  PROVE  Opens(f, proof)'
<1>1. CASE f \in {durable', disk'}
  BY <1>1 DEF Opens
<1>2. CASE f \in Beginnings' /\ durable'.ino = disk'.ino
  <2>1. PICK n \in 0 .. Len(disk'.recs) : f.recs = SubSeq(disk'.recs, 1, n)
    BY <1>2 DEF Beginnings
  <2>2. disk'.recs \in Seq(Nat) /\ disk'.ino \in Nat
    BY DEF LedgerFile
  <2>3. f.recs \in Seq(Nat)
    BY <2>1, <2>2, CutIs
  <2>4. f = [ino |-> f.ino, recs |-> f.recs, torn |-> f.torn] /\ f.ino = disk'.ino /\ f.torn \in BOOLEAN
    BY <1>2 DEF Beginnings
  <2>5. f \in LedgerFile
    BY <2>2, <2>3, <2>4 DEF LedgerFile
  <2>6. IsPrefix(durable'.recs, f.recs) /\ (durable'.torn => f = durable')
    BY <1>2 DEF Beginnings
  <2>7. Matches(proof'.current, f)
    BY <1>2, <2>4, <2>5, <2>6, MatchesOn
  <2> QED  BY <2>7 DEF Opens
<1> QED  BY <1>1, <1>2 DEF Survivors

(* A line is appended to an open ledger.                                   *)
LEMMA WriteKeeps ==
  ASSUME FileInv, WriteLedger
  PROVE  FileInv'
<1> USE DEF FileInv
<1>1. /\ phase = "open" /\ phase' = "sync" /\ ~disk.torn /\ records < MaxRecords
      /\ UNCHANGED <<durable, proof, staged, acked, inodes, faults, exposed, restored>>
      /\ disk' = [disk EXCEPT !.recs = Append(@, records + 1)] /\ records' = records + 1
      /\ disk # NoLedger /\ Sound(disk) /\ disk \in LedgerFile
      /\ proof # NoLedger /\ Matches(proof.current, disk) /\ proof.current \in LedgerFile
      /\ (~exposed => durable = disk)
  BY DEF WriteLedger, To, CountedBy, Past, AckedInv, PhaseInv, FilesOK, Sound
<1>2. MaxRecords \in Nat /\ records \in Nat /\ inodes \in Nat /\ records' \in 0 .. MaxRecords /\ inodes' = inodes
        /\ records <= records' /\ records' \in Nat /\ inodes <= inodes'
  BY <1>1, CursorFileAssumption DEF FilesOK
<1>3. /\ disk' \in LedgerFile /\ disk'.ino = disk.ino /\ disk'.torn = disk.torn
      /\ disk'.recs = Append(disk.recs, records + 1) /\ disk'.ino \in 1 .. inodes'
  <2>1. disk = [ino |-> disk.ino, recs |-> disk.recs, torn |-> disk.torn]
          /\ disk.ino \in Nat /\ disk.recs \in Seq(Nat) /\ disk.torn \in BOOLEAN
    BY <1>1 DEF LedgerFile
  <2>2. disk' = [ino |-> disk.ino, recs |-> Append(disk.recs, records + 1), torn |-> disk.torn]
    BY <1>1, <2>1
  <2>3. records + 1 \in Nat
    BY <1>2
  <2>4. Append(disk.recs, records + 1) \in Seq(Nat)
    BY <2>1, <2>3
  <2>5. [ino |-> disk.ino, recs |-> Append(disk.recs, records + 1), torn |-> disk.torn] \in LedgerFile
    BY <2>1, <2>4 DEF LedgerFile
  <2> QED  BY <1>1, <1>2, <2>2, <2>5 DEF Sound
<1>4. /\ Sound(disk)' /\ IsPrefix(disk.recs, disk'.recs) /\ Range(disk.recs) \subseteq Range(disk'.recs)
      /\ Last(disk'.recs) \in Range(disk'.recs)
  <2>1. \A g \in LedgerFile : g.ino \in 1 .. inodes' /\ g.recs = Append(disk.recs, records + 1)
           => /\ Sound(g)' /\ IsPrefix(disk.recs, g.recs) /\ Range(disk.recs) \subseteq Range(g.recs)
              /\ Last(g.recs) \in Range(g.recs)
    BY <1>1, <1>2, AppendSound
  <2>2. PICK g \in LedgerFile : g = disk'
    BY <1>3
  <2>3. Sound(g)'
    BY <1>3, <2>1, <2>2
  <2> QED  BY <1>3, <2>1, <2>2, <2>3 DEF Sound
<1>5. disk' # NoLedger
  BY <1>3, CursorFileAssumption
<1>6. FilesOK'
  <2>1. \A f : Sound(f) => Sound(f)'
    BY <1>2, StaysSound
  <2>2. (durable' # NoLedger => Sound(durable)') /\ (staged' # NoLedger => Sound(staged)')
    BY <1>1, <2>1 DEF FilesOK, Sound
  <2>3. proof' # NoLedger => /\ proof' = [current |-> proof'.current, next |-> proof'.next]
                             /\ Sound(proof.current)'
                             /\ (proof'.next # NoLedger => Sound(proof.next)')
    BY <1>1, <2>1 DEF FilesOK, Sound
  <2>4. acked' \subseteq 1 .. records'
    BY <1>1, <1>2 DEF FilesOK
  <2> QED  BY <1>1, <1>2, <1>4, <1>5, <2>2, <2>3, <2>4 DEF FilesOK, Phases
<1>7. AckedInv'
  BY <1>1, <1>4, <1>5 DEF AckedInv
<1>8. Matches(proof'.current, disk')
  BY <1>1, <1>3, <1>4, MatchesOn
<1>9. disk'.recs # <<>>
  BY <1>1, <1>3 DEF LedgerFile
<1>10. PhaseInv'
  BY <1>1, <1>8, <1>9 DEF PhaseInv
<1>11. SafeInv'
  <2> SUFFICES ASSUME ~restored', ~exposed', NEW f \in Survivors'
               PROVE  Opens(f, proof)'
    BY DEF SafeInv
  <2> QED  BY <1>1, <1>3, <1>8, BeginningsOpen
<1> QED  BY <1>6, <1>7, <1>10, <1>11

(* What was appended is synced.                                            *)
LEMMA SyncKeeps ==
  ASSUME FileInv, Sync
  PROVE  FileInv'
<1> USE DEF FileInv
<1>1. /\ phase = "sync" /\ phase' = "prove" /\ durable' = disk /\ disk' = disk
      /\ UNCHANGED <<disk, proof, staged, acked, records, inodes, faults, restored>> /\ exposed' = FALSE
      /\ disk # NoLedger /\ Sound(disk) /\ disk \in LedgerFile
      /\ proof # NoLedger /\ Matches(proof.current, disk) /\ proof.current \in LedgerFile
  BY DEF Sync, To, CountedBy, AckedInv, PhaseInv, FilesOK, Sound
<1>2. FilesOK'
  BY <1>1 DEF FilesOK, Phases, Sound
<1>3. AckedInv' /\ PhaseInv'
  BY <1>1 DEF AckedInv, PhaseInv
<1>4. SafeInv'
  <2> SUFFICES ASSUME NEW f \in Survivors'
               PROVE  Opens(f, proof)'
    BY DEF SafeInv
  <2> QED  BY <1>1, BeginningsOpen
<1> QED  BY <1>2, <1>3, <1>4

(* The synced record is proved, and its append returns.                    *)
LEMMA ReturnKeeps ==
  ASSUME FileInv, Return
  PROVE  FileInv'
<1> USE DEF FileInv
<1>1. /\ phase = "prove" /\ phase' = "open" /\ durable = disk /\ disk.recs # <<>>
      /\ UNCHANGED <<disk, staged, records, inodes, faults, exposed, restored>>
      /\ acked' = acked \cup {Last(disk.recs)} /\ WriteProof(disk, NoLedger)
      /\ disk # NoLedger /\ Sound(disk) /\ disk \in LedgerFile /\ records \in Nat
  BY CursorFileAssumption DEF Return, To, CountedBy, Past, AckedInv, PhaseInv, FilesOK, Sound
<1>2. /\ proof' = [current |-> disk, next |-> NoLedger] /\ proof' # NoLedger
      /\ Matches(proof'.current, disk') /\ durable' = disk'
  BY <1>1, ProofWritten
<1>3. Last(disk.recs) \in Range(disk.recs) /\ Last(disk.recs) \in 1 .. records
  <2>1. disk.recs \in Seq(Nat) /\ Len(disk.recs) \in DOMAIN disk.recs
    BY <1>1 DEF LedgerFile
  <2> QED  BY <1>1, <2>1 DEF Range, Last, Sound
<1>4. FilesOK'
  <2>1. Sound(disk)' /\ Sound(durable)' /\ (staged' # NoLedger => Sound(staged)') /\ Sound(proof.current)'
          /\ proof'.next = NoLedger
    BY <1>1, <1>2 DEF FilesOK, Sound
  <2>2. acked' \subseteq 1 .. records'
    BY <1>1, <1>3 DEF FilesOK
  <2> QED  BY <1>1, <1>2, <2>1, <2>2 DEF FilesOK, Phases
<1>5. AckedInv'
  BY <1>1, <1>2, <1>3 DEF AckedInv
<1>6. PhaseInv'
  BY <1>1, <1>2 DEF PhaseInv
<1>7. SafeInv'
  <2> SUFFICES ASSUME NEW f \in Survivors'
               PROVE  Opens(f, proof)'
    BY DEF SafeInv
  <2> QED  BY <1>1, <1>2, BeginningsOpen
<1> QED  BY <1>4, <1>5, <1>6, <1>7

(* A replacement is written beside the ledger.                             *)
LEMMA StageKeeps ==
  ASSUME FileInv, Stage
  PROVE  FileInv'
<1> USE DEF FileInv
<1>1. /\ phase = "open" /\ phase' = "replace" /\ inodes < MaxInodes /\ inodes' = inodes + 1
      /\ UNCHANGED <<disk, durable, proof, acked, faults, exposed, restored>>
      /\ disk # NoLedger /\ Sound(disk) /\ disk \in LedgerFile
      /\ proof # NoLedger /\ Matches(proof.current, disk) /\ (~exposed => durable = disk)
  BY DEF Stage, To, Past, AckedInv, PhaseInv, FilesOK, Sound
<1>2. MaxRecords \in Nat /\ MaxInodes \in Nat /\ records \in 0 .. MaxRecords /\ inodes \in Nat
        /\ inodes' \in 0 .. MaxInodes /\ inodes <= inodes' /\ inodes' \in Nat /\ records \in Nat
  BY <1>1, CursorFileAssumption DEF FilesOK
<1>3. disk = [ino |-> disk.ino, recs |-> disk.recs, torn |-> disk.torn]
        /\ disk.ino \in Nat /\ disk.recs \in Seq(Nat) /\ disk.torn \in BOOLEAN
  BY <1>1 DEF LedgerFile
<1>4. /\ records' \in 0 .. MaxRecords /\ records <= records' /\ records' \in Nat
      /\ staged' \in LedgerFile /\ staged'.ino = inodes + 1 /\ Sound(staged)'
      /\ Range(disk.recs) \subseteq Range(staged'.recs)
  <2>1. CASE disk.torn
    <3>1. /\ records < MaxRecords /\ records' = records + 1
          /\ staged' = [ino |-> inodes + 1, recs |-> Append(disk.recs, records + 1), torn |-> FALSE]
      BY <2>1 DEF Stage
    <3>2. records + 1 \in Nat /\ records' \in 0 .. MaxRecords /\ records <= records' /\ inodes + 1 \in Nat
            /\ inodes + 1 \in 1 .. inodes'
      BY <1>1, <1>2, <3>1
    <3>3. Append(disk.recs, records + 1) \in Seq(Nat)
      BY <1>3, <3>2
    <3>4. [ino |-> inodes + 1, recs |-> Append(disk.recs, records + 1), torn |-> FALSE] \in LedgerFile
      BY <3>2, <3>3 DEF LedgerFile
    <3>5. PICK g \in LedgerFile : g = [ino |-> inodes + 1, recs |-> Append(disk.recs, records + 1), torn |-> FALSE]
      BY <3>4
    <3>6. g.ino \in 1 .. inodes' /\ g.recs = Append(disk.recs, records + 1)
      BY <3>2, <3>5
    <3>7. Sound(g)' /\ Range(disk.recs) \subseteq Range(g.recs)
      BY <1>1, <1>2, <3>1, <3>6, AppendSound
    <3>8. staged' = g
      BY <3>1, <3>5
    <3> QED  BY <3>2, <3>5, <3>7, <3>8 DEF Sound
  <2>2. CASE ~disk.torn
    <3>1. records' = records /\ staged' = [ino |-> inodes + 1, recs |-> disk.recs, torn |-> disk.torn]
      BY <1>3, <2>2 DEF Stage
    <3>2. staged' \in LedgerFile
      BY <1>2, <1>3, <3>1 DEF LedgerFile
    <3>3. staged'.ino \in 1 .. inodes'
      BY <1>1, <1>2, <3>1
    <3>4. Sound(staged)'
      BY <1>1, <3>1, <3>2, <3>3 DEF Sound
    <3> QED  BY <1>2, <3>1, <3>2, <3>4
  <2> QED  BY <2>1, <2>2
<1>5. staged' # NoLedger
  BY <1>4, CursorFileAssumption
<1>6. FilesOK'
  <2>1. \A f : Sound(f) => Sound(f)'
    BY <1>2, <1>4, StaysSound
  <2>2. Sound(disk)' /\ (durable' # NoLedger => Sound(durable)')
    BY <1>1, <2>1 DEF FilesOK, Sound
  <2>3. proof' # NoLedger => /\ proof' = [current |-> proof'.current, next |-> proof'.next]
                             /\ Sound(proof.current)'
                             /\ (proof'.next # NoLedger => Sound(proof.next)')
    BY <1>1, <2>1 DEF FilesOK, Sound
  <2>4. acked' \subseteq 1 .. records'
    BY <1>1, <1>2, <1>4 DEF FilesOK
  <2> QED  BY <1>1, <1>2, <1>4, <2>2, <2>3, <2>4 DEF FilesOK, Phases
<1>7. AckedInv'
  BY <1>1, <1>4 DEF AckedInv
<1>8. PhaseInv'
  <2>1. staged'.ino # disk'.ino /\ (durable' # NoLedger => durable'.ino # staged'.ino)
    BY <1>1, <1>2, <1>4 DEF FilesOK, Sound
  <2> QED  BY <1>1, <1>5, <2>1 DEF PhaseInv
<1>9. SafeInv'
  <2>1. Survivors' = Survivors
    BY <1>1 DEF Survivors, Beginnings
  <2> QED  BY <1>1, <2>1 DEF SafeInv, Opens, Matches
<1> QED  BY <1>6, <1>7, <1>8, <1>9

(* The proof names the ledger and its replacement.                         *)
LEMMA AnnounceKeeps ==
  ASSUME FileInv, Announce
  PROVE  FileInv'
<1> USE DEF FileInv
<1>1. /\ phase = "replace" /\ phase' = "rename" /\ WriteProof(disk, staged)
      /\ UNCHANGED <<disk, staged, acked, records, inodes, faults, exposed, restored>>
      /\ disk # NoLedger /\ Sound(disk) /\ disk \in LedgerFile
      /\ (~exposed => durable = disk) /\ staged # NoLedger /\ Sound(staged) /\ staged.ino # disk.ino
      /\ (durable # NoLedger => durable.ino # staged.ino)
      /\ acked \subseteq Range(disk.recs) /\ acked \subseteq Range(staged.recs)
  BY DEF Announce, To, CountedBy, Past, AckedInv, PhaseInv, FilesOK, Sound
<1>2. /\ proof' = [current |-> disk, next |-> staged] /\ proof' # NoLedger
      /\ Matches(proof'.current, disk')
      /\ durable' = disk' \/ (durable' = durable /\ durable # NoLedger /\ durable.ino = disk.ino)
  BY <1>1, ProofWritten
<1>3. FilesOK'
  <2>1. Sound(disk)' /\ Sound(durable)' /\ Sound(staged)' /\ Sound(proof.current)' /\ Sound(proof.next)'
    BY <1>1, <1>2 DEF FilesOK, Sound
  <2> QED  BY <1>1, <1>2, <2>1 DEF FilesOK, Phases
<1>4. AckedInv'
  BY <1>1, <1>2 DEF AckedInv
<1>5. PhaseInv'
  BY <1>1, <1>2 DEF PhaseInv
<1>6. SafeInv'
  <2> SUFFICES ASSUME ~exposed', NEW f \in Survivors'
               PROVE  Opens(f, proof)'
    BY DEF SafeInv
  <2>1. durable' = disk'
    BY <1>1, <1>2
  <2> QED  BY <1>1, <1>2, <2>1, BeginningsOpen
<1> QED  BY <1>3, <1>4, <1>5, <1>6

(* The replacement takes the ledger's name.                                *)
LEMMA RenameKeeps ==
  ASSUME FileInv, Rename
  PROVE  FileInv'
<1> USE DEF FileInv
<1>1. /\ phase = "rename" /\ phase' = "settle" /\ disk' = staged /\ staged' = NoLedger
      /\ UNCHANGED <<durable, proof, acked, records, inodes, faults, exposed, restored>>
      /\ staged # NoLedger /\ Sound(staged) /\ staged \in LedgerFile
      /\ (durable # NoLedger => durable.ino # staged.ino)
      /\ acked \subseteq Range(staged.recs) /\ proof # NoLedger /\ proof.next = staged
  BY DEF Rename, To, CountedBy, Past, AckedInv, PhaseInv, FilesOK, Sound
<1>2. FilesOK'
  BY <1>1 DEF FilesOK, Phases, Sound
<1>3. AckedInv' /\ PhaseInv'
  BY <1>1 DEF AckedInv, PhaseInv
<1>4. SafeInv'
  <2> SUFFICES ASSUME ~restored', ~exposed', NEW f \in Survivors'
               PROVE  Opens(f, proof)'
    BY DEF SafeInv
  <2>1. f \in {durable, staged}
    BY <1>1 DEF Survivors
  <2>2. Matches(staged, staged)
    BY <1>1, MatchesSelf
  <2>3. Opens(durable, proof) /\ Opens(staged, proof)
    BY <1>1, <2>2 DEF SafeInv, Survivors, Opens
  <2> QED  BY <1>1, <2>1, <2>3 DEF Opens, Matches
<1> QED  BY <1>2, <1>3, <1>4

(* The proof names the replacement alone.                                  *)
LEMMA SettleKeeps ==
  ASSUME FileInv, SettleFile
  PROVE  FileInv'
<1> USE DEF FileInv
<1>1. /\ phase = "settle" /\ phase' = "open" /\ WriteProof(disk, NoLedger) /\ exposed' = FALSE
      /\ UNCHANGED <<disk, staged, acked, records, inodes, faults, restored>>
      /\ disk # NoLedger /\ Sound(disk) /\ disk \in LedgerFile
      /\ acked \subseteq Range(disk.recs) /\ (durable # NoLedger => durable.ino # disk.ino)
  BY DEF SettleFile, To, CountedBy, AckedInv, PhaseInv, FilesOK, Sound
<1>2. /\ proof' = [current |-> disk, next |-> NoLedger] /\ proof' # NoLedger
      /\ Matches(proof'.current, disk') /\ durable' = disk'
  BY <1>1, ProofWritten
<1>3. FilesOK'
  <2>1. Sound(disk)' /\ Sound(durable)' /\ Sound(proof.current)' /\ (staged' # NoLedger => Sound(staged)')
    BY <1>1, <1>2 DEF FilesOK, Sound
  <2> QED  BY <1>1, <1>2, <2>1 DEF FilesOK, Phases
<1>4. AckedInv' /\ PhaseInv'
  BY <1>1, <1>2 DEF AckedInv, PhaseInv
<1>5. SafeInv'
  <2> SUFFICES ASSUME NEW f \in Survivors'
               PROVE  Opens(f, proof)'
    BY DEF SafeInv
  <2> QED  BY <1>1, <1>2, BeginningsOpen
<1> QED  BY <1>3, <1>4, <1>5

(* The process dies.                                                       *)
LEMMA LedgerCrashKeeps ==
  ASSUME FileInv, LedgerCrash
  PROVE  FileInv'
<1> USE DEF FileInv
<1>1. /\ phase' = "closed" /\ staged' = NoLedger /\ faults' = faults + 1 /\ faults < MaxFaults
      /\ UNCHANGED <<disk, durable, proof, acked, records, inodes, exposed, restored>>
  BY DEF LedgerCrash, To, Past
<1>2. faults' \in 0 .. MaxFaults
  BY <1>1, CursorFileAssumption DEF FilesOK
<1>3. FilesOK' /\ AckedInv' /\ PhaseInv'
  BY <1>1, <1>2 DEF FilesOK, AckedInv, PhaseInv, Phases, Sound
<1>4. SafeInv'
  <2>1. Survivors' = Survivors
    BY <1>1 DEF Survivors, Beginnings
  <2> QED  BY <1>1, <2>1 DEF SafeInv, Opens, Matches
<1> QED  BY <1>3, <1>4

(* It dies in the middle of a line.                                        *)
LEMMA TearKeeps ==
  ASSUME FileInv, Tear
  PROVE  FileInv'
<1> USE DEF FileInv
<1>1. /\ phase = "open" /\ phase' = "closed" /\ ~disk.torn /\ faults' = faults + 1 /\ faults < MaxFaults
      /\ UNCHANGED <<durable, proof, staged, acked, records, inodes, exposed, restored>>
      /\ disk' = [disk EXCEPT !.torn = TRUE]
      /\ disk # NoLedger /\ Sound(disk) /\ disk \in LedgerFile
      /\ proof # NoLedger /\ Matches(proof.current, disk) /\ proof.current \in LedgerFile
      /\ (~exposed => durable = disk)
  BY DEF Tear, To, CountedBy, Past, AckedInv, PhaseInv, FilesOK, Sound
<1>2. faults' \in 0 .. MaxFaults
  BY <1>1, CursorFileAssumption DEF FilesOK
<1>3. disk' = [ino |-> disk.ino, recs |-> disk.recs, torn |-> TRUE] /\ disk' \in LedgerFile
  BY <1>1 DEF LedgerFile
<1>4. disk' # NoLedger /\ Sound(disk)'
  BY <1>1, <1>3, CursorFileAssumption DEF Sound
<1>5. FilesOK'
  BY <1>1, <1>2, <1>4 DEF FilesOK, Phases, Sound
<1>6. AckedInv' /\ PhaseInv'
  BY <1>1 DEF AckedInv, PhaseInv
<1>7. SafeInv'
  <2> SUFFICES ASSUME ~exposed', NEW f \in Survivors'
               PROVE  Opens(f, proof)'
    BY DEF SafeInv
  <2>1. IsPrefix(disk.recs, disk.recs)
    BY <1>1, MatchesSelf DEF Matches
  <2>2. Matches(proof.current, disk')
    BY <1>1, <1>3, <2>1, MatchesOn
  <2> QED  BY <1>1, <1>3, <2>2, BeginningsOpen
<1> QED  BY <1>5, <1>6, <1>7

(* The power fails, and a beginning of what was written survives.          *)
LEMMA PowerKeeps ==
  ASSUME FileInv, PowerFails
  PROVE  FileInv'
<1> USE DEF FileInv
<1>1. /\ phase' = "closed" /\ staged' = NoLedger /\ faults' = faults + 1 /\ faults < MaxFaults
      /\ UNCHANGED <<proof, acked, records, inodes, exposed, restored>>
  BY DEF PowerFails, To, Past
<1>2. PICK left \in Survivors : disk' = left /\ durable' = left
  BY DEF PowerFails
<1>3. faults' \in 0 .. MaxFaults
  BY <1>1, CursorFileAssumption DEF FilesOK
<1>4. left = NoLedger \/ Sound(left)
  BY <1>2, SurvivorsSound
<1>5. FilesOK' /\ AckedInv' /\ PhaseInv'
  BY <1>1, <1>2, <1>3, <1>4 DEF FilesOK, AckedInv, PhaseInv, Phases, Sound
<1>6. SafeInv'
  <2> SUFFICES ASSUME ~restored', ~exposed', NEW f \in Survivors'
               PROVE  Opens(f, proof)'
    BY DEF SafeInv
  <2>1. f = left
    BY <1>2, <1>4, SyncedSurvives DEF Sound
  <2> QED  BY <1>1, <1>2, <2>1 DEF SafeInv, Opens, Matches
<1> QED  BY <1>5, <1>6

(* An older state of the ledger is brought back, in place or as a file.    *)
LEMMA RestoreKeeps ==
  ASSUME FileInv, RestoreBackup
  PROVE  FileInv'
<1> USE DEF FileInv
<1>1. /\ phase = "closed" /\ disk # NoLedger /\ faults < MaxFaults
      /\ faults' = faults + 1 /\ restored' = TRUE /\ durable' = disk'
      /\ UNCHANGED <<proof, staged, phase, acked, records, exposed>>
      /\ disk = [ino |-> disk.ino, recs |-> disk.recs, torn |-> disk.torn]
      /\ disk.ino \in Nat /\ disk.recs \in Seq(Nat) /\ disk.torn \in BOOLEAN
      /\ disk.ino \in 1 .. inodes /\ Len(disk.recs) <= records
      /\ \A i \in DOMAIN disk.recs : disk.recs[i] \in 1 .. records
  BY DEF RestoreBackup, FilesOK, Sound, LedgerFile
<1>2. MaxInodes \in Nat /\ inodes \in Nat /\ records \in Nat /\ faults' \in 0 .. MaxFaults
  BY <1>1, CursorFileAssumption DEF FilesOK
<1>3. \E n \in 0 .. Len(disk.recs) : \E ino \in 1 .. inodes' :
         disk' = [ino |-> ino, recs |-> SubSeq(disk.recs, 1, n), torn |-> FALSE]
           /\ inodes' \in 0 .. MaxInodes /\ inodes <= inodes'
  <2>1. CASE /\ \E n \in 0 .. Len(disk.recs) : disk' = [disk EXCEPT !.recs = SubSeq(@, 1, n), !.torn = FALSE]
             /\ inodes' = inodes
    <3>1. PICK n \in 0 .. Len(disk.recs) : disk' = [disk EXCEPT !.recs = SubSeq(disk.recs, 1, n), !.torn = FALSE]
      BY <2>1
    <3>2. disk' = [ino |-> disk.ino, recs |-> SubSeq(disk.recs, 1, n), torn |-> FALSE]
      BY <1>1, <3>1
    <3>3. inodes' \in 0 .. MaxInodes /\ inodes <= inodes' /\ disk.ino \in 1 .. inodes'
      BY <1>1, <1>2, <2>1 DEF FilesOK
    <3> QED  BY <3>2, <3>3
  <2>2. CASE /\ inodes < MaxInodes /\ inodes' = inodes + 1
             /\ \E n \in 0 .. Len(disk.recs) :
                  disk' = [ino |-> inodes + 1, recs |-> SubSeq(disk.recs, 1, n), torn |-> FALSE]
    <3>1. inodes' \in 0 .. MaxInodes /\ inodes <= inodes' /\ inodes + 1 \in 1 .. inodes'
      BY <1>2, <2>2
    <3> QED  BY <2>2, <3>1
  <2> QED  BY <2>1, <2>2 DEF RestoreBackup
<1>4. PICK n \in 0 .. Len(disk.recs), ino \in 1 .. inodes' :
         disk' = [ino |-> ino, recs |-> SubSeq(disk.recs, 1, n), torn |-> FALSE]
           /\ inodes' \in 0 .. MaxInodes /\ inodes <= inodes'
  BY <1>3
<1>5. SubSeq(disk.recs, 1, n) \in Seq(Nat) /\ Len(SubSeq(disk.recs, 1, n)) = n
        /\ DOMAIN SubSeq(disk.recs, 1, n) = 1 .. n /\ \A i \in 1 .. n : SubSeq(disk.recs, 1, n)[i] = disk.recs[i]
  BY <1>1, CutIs
<1>6. disk' \in LedgerFile /\ disk' # NoLedger
  <2>1. ino \in Nat
    BY <1>2, <1>4
  <2>2. [ino |-> ino, recs |-> SubSeq(disk.recs, 1, n), torn |-> FALSE] \in LedgerFile
    BY <1>5, <2>1 DEF LedgerFile
  <2> QED  BY <1>4, <2>2, CursorFileAssumption
<1>7. Sound(disk)'
  <2>1. Len(disk.recs) \in Nat /\ n <= records /\ 1 .. n \subseteq DOMAIN disk.recs
    BY <1>1, <1>2
  <2>2. disk'.recs = SubSeq(disk.recs, 1, n) /\ disk'.ino = ino
    BY <1>4
  <2> QED  BY <1>1, <1>5, <1>6, <2>1, <2>2 DEF Sound
<1>8. FilesOK'
  <2>1. \A f : Sound(f) => Sound(f)'
    <3>1. records <= records' /\ records' \in Nat /\ inodes' \in Nat
      BY <1>1, <1>2, <1>4
    <3> QED  BY <1>2, <1>4, <3>1, StaysSound
  <2>2. (staged' # NoLedger => Sound(staged)') /\ Sound(durable)'
    BY <1>1, <1>7, <2>1 DEF FilesOK, Sound
  <2>3. proof' # NoLedger => /\ proof' = [current |-> proof'.current, next |-> proof'.next]
                             /\ Sound(proof.current)'
                             /\ (proof'.next # NoLedger => Sound(proof.next)')
    BY <1>1, <2>1 DEF FilesOK, Sound
  <2> QED  BY <1>1, <1>2, <1>4, <1>6, <1>7, <2>2, <2>3 DEF FilesOK, Phases
<1>9. AckedInv' /\ PhaseInv' /\ SafeInv'
  BY <1>1 DEF AckedInv, PhaseInv, SafeInv
<1> QED  BY <1>8, <1>9

(* Every step keeps the invariant. *)
LEMMA FileStep ==
  ASSUME FileInv, [FileNext]_fileVars
  PROVE  FileInv'
<1>1. CASE UNCHANGED fileVars
  <2>1. UNCHANGED <<disk, durable, proof, staged, acked, records, inodes, faults, exposed, restored>> /\ phase' = phase
    BY <1>1 DEF fileVars
  <2>2. PhaseInv' /\ AckedInv' /\ phase' \in Phases
    BY <2>1 DEF FileInv, PhaseInv, AckedInv, FilesOK
  <2> QED  BY <2>1, <2>2, FileQuiet
<1>2. CASE FileNext
  BY <1>2, CreateKeeps, OpenKeeps, ObserveKeeps, CloseKeeps, WriteKeeps, SyncKeeps, ReturnKeeps, StageKeeps,
     AnnounceKeeps, RenameKeeps, SettleKeeps, LedgerCrashKeeps, TearKeeps, PowerKeeps, RestoreKeeps DEF FileNext
<1> QED  BY <1>1, <1>2

(* A file of the Cursor ledger that nobody tampered with opens again after *)
(* a crash at any step (the proof written before it allows its outcome),   *)
(* and whoever gets to read it finds every record whose append has         *)
(* returned (withLedgerFile, writeLedgerProof).                            *)
THEOREM LedgerSurvives == FileSpec => []LedgerIsDurable
<1>1. FileInit => FileInv
  BY FileInitInv
<1>2. FileInv /\ [FileNext]_fileVars => FileInv'
  BY FileStep
<1>3. FileInv => LedgerIsDurable
  <2> SUFFICES ASSUME FileInv
               PROVE  LedgerIsDurable
    OBVIOUS
  <2>1. OpensAgain
    BY DEF FileInv, SafeInv, Survivors, OpensAgain
  <2>2. NoRollback
    BY DEF FileInv, AckedInv, NoRollback
  <2> QED  BY <2>1, <2>2 DEF LedgerIsDurable
<1> QED  BY <1>1, <1>2, <1>3, PTL DEF FileSpec

-----------------------------------------------------------------------------
(***************************************************************************)
(* The history of a year (History).  HistoryInv says what a cursor, and a  *)
(* snapshot that waits, has behind it on the server: for every day on which *)
(* a pass of the year began, each day between the cursor and the rolling   *)
(* range of that day is observed.  The connector's copy of the server's    *)
(* report may be old, so it also says what an old report still implies.    *)
(***************************************************************************)

(* Every day lies in a year that has begun by then.                        *)
LEMMA YearOf ==
  ASSUME NEW d \in Int
  PROVE  Year(d) \in Int /\ YearStart(Year(d)) \in Int /\ YearStart(Year(d)) <= d
           /\ d < YearStart(Year(d)) + YearLength
BY HistoryAssumption DEF Year, YearStart

(* Years are in the order of their days.                                   *)
LEMMA YearOrder ==
  ASSUME NEW d \in Int, NEW e \in Int, d <= e
  PROVE  Year(d) <= Year(e)
<1> DEFINE p == Year(d)
           q == Year(e)
<1>1. p \in Int /\ q \in Int /\ YearStart(p) <= d /\ e < YearStart(q) + YearLength
  BY YearOf
<1>2. YearLength \in Nat /\ YearLength > 0
  BY HistoryAssumption
<1> HIDE DEF p, q
<1>3. ASSUME q + 1 <= p
      PROVE  FALSE
  <2>1. (q + 1) * YearLength <= p * YearLength
    BY <1>1, <1>2, <1>3
  <2>2. (q + 1) * YearLength = q * YearLength + YearLength
    BY <1>1, <1>2
  <2> QED  BY <1>1, <1>2, <2>1, <2>2 DEF YearStart
<1>4. p <= q
  BY <1>1, <1>3
<1> QED  BY <1>4 DEF p, q

(* The days from the start of a day's year are of that year.               *)
LEMMA InYear ==
  ASSUME NEW e \in Int, NEW d \in Int, YearStart(Year(e)) <= d, d <= e
  PROVE  Year(d) = Year(e)
<1> DEFINE p == Year(d)
           q == Year(e)
<1>1. p \in Int /\ q \in Int /\ YearStart(q) <= d /\ d < YearStart(p) + YearLength /\ p <= q
  BY YearOf, YearOrder
<1>2. YearLength \in Nat /\ YearLength > 0
  BY HistoryAssumption
<1> HIDE DEF p, q
<1>3. ASSUME p + 1 <= q
      PROVE  FALSE
  <2>1. (p + 1) * YearLength <= q * YearLength
    BY <1>1, <1>2, <1>3
  <2>2. (p + 1) * YearLength = p * YearLength + YearLength
    BY <1>1, <1>2
  <2> QED  BY <1>1, <1>2, <2>1, <2>2 DEF YearStart
<1>4. p = q
  BY <1>1, <1>3
<1> QED  BY <1>4 DEF p, q

(* Where a pass that begins on a day starts going backward.                *)
LEMMA FirstEndOf ==
  ASSUME NEW d \in Int
  PROVE  FirstEnd(d) \in Int /\ YearStart(Year(d)) <= FirstEnd(d) + 1 /\ d - RangeDays <= FirstEnd(d) /\ FirstEnd(d) < d
BY YearOf, HistoryAssumption DEF FirstEnd, Highest

(* Later in the same year it starts later.                                 *)
LEMMA FirstEndOrder ==
  ASSUME NEW d \in Int, NEW e \in Int, d <= e, Year(d) = Year(e)
  PROVE  FirstEnd(d) <= FirstEnd(e)
BY YearOf, HistoryAssumption DEF FirstEnd, Highest

-----------------------------------------------------------------------------
(* The server has observed a day, or reports it as unresolved.             *)
Obs == covered \cup remote.open

Known(y) == \E b \in begun : Year(b) = y
Now == Year(date)
Terminated == {"complete", "partial"}
Loaded == payload # Nil \/ sync.pc \in {"post", "remember", "apply"}

(* A day of the year y from which on a pass leaves nothing out.            *)
Whole(y, next) ==
  \A b \in begun : Year(b) = y =>
    \A d \in Int : YearStart(y) <= d /\ next < d /\ d <= FirstEnd(b) => d \in Obs

(* A cursor, or an advance that is to become one, of the year that the     *)
(* server is in: what it has behind it has been observed; a gap is only    *)
(* gone back for once the year has been gone through.                      *)
CursorOK(c) ==
  /\ c.year \in Int /\ c.start \in Int /\ c.next \in Int
  /\ c.mode \in {"initial", "gap", "full"}
  /\ c.year <= Now /\ Known(c.year)
  /\ c.mode # "gap" =>
       /\ c.start = YearStart(c.year)
       /\ c.year = Now => YearStart(Now) <= FirstEnd(date)
       /\ c.year >= remote.status.year => Whole(c.year, c.next)
  /\ c.mode = "gap" /\ c.year >= remote.status.year =>
       c.year = remote.status.year /\ remote.status.is \in Terminated

PayloadOK(p) ==
  /\ p = Snapshot(p.kind, p.from, p.to, p.complete, p.yearIs, p.advance)
  /\ p.kind \in {"rolling", "chunk"} /\ p.from \in Int /\ p.to \in Int
  /\ Year(p.to) <= Now /\ remote.status.year <= Year(p.to)
  /\ p.yearIs \in Terminated \cup {Nil}
  /\ p.kind = "rolling" =>
       /\ p.from <= p.to
       /\ p.yearIs # Nil => p.from <= YearStart(Year(p.to))
       /\ p.yearIs = Nil /\ Year(p.to) = Now => YearStart(Now) <= FirstEnd(date)
       /\ Year(p.to) = Now => Known(Now)
       /\ p.advance = Nil \/ (p.advance.is = p.yearIs /\ p.yearIs # Nil /\ p.advance.mode = "initial"
                                /\ p.advance.year = Year(p.to))
  /\ p.kind = "chunk" =>
       LET a == p.advance
       IN  /\ a.year = Year(p.to) /\ a.is \in Terminated \cup {Nil}
           /\ a.is = Nil => a.next = p.from - 1
           /\ CursorOK([mode |-> a.mode, year |-> a.year, start |-> a.start, next |-> p.to])
           /\ p.yearIs # Nil => p.from = YearStart(a.year) /\ p.yearIs = a.is
           /\ a.mode # "gap" => p.yearIs = a.is

WorldTypes ==
  /\ date \in Nat
  /\ remote = [status |-> remote.status, rolled |-> remote.rolled, open |-> remote.open]
  /\ remote.status = YearStatus(remote.status.year, remote.status.is)
  /\ remote.status.year \in Int /\ remote.status.is \in Terminated \cup {"pending"}
  /\ remote.rolled # Nil => remote.rolled \in Int
  /\ remote.open \subseteq Int /\ IsFiniteSet(remote.open) /\ covered \subseteq Int
  /\ \A b \in begun : b \in Nat /\ b <= date
  /\ remote.status.year <= Now

ConfOK(c) ==
  /\ c = [status |-> YearStatus(c.status.year, c.status.is), gap |-> c.gap]
  /\ c.status.year \in Int /\ c.status.is \in Terminated \cup {"pending"}
  /\ c.gap # Nil => c.gap.first \in Int /\ c.gap.last \in Int

LocalOK(s) ==
  s = [cursor |-> s.cursor, retry |-> s.retry, attempt |-> s.attempt, generation |-> s.generation]

SyncOK(s) ==
  /\ s = [pc |-> s.pc, to |-> s.to, full |-> s.full, most |-> s.most, chunk |-> s.chunk,
          fresh |-> s.fresh, tried |-> s.tried, chunks |-> s.chunks]
  /\ s.to \in Int /\ s.to <= date
  /\ s.chunk # Nil => s.chunk.from \in Int /\ s.chunk.to \in Int

HTypes == WorldTypes /\ LocalOK(local) /\ SyncOK(sync)

(* Years follow one another at the server.                                 *)
ServerInv ==
  /\ remote.rolled # Nil => Year(remote.rolled) <= remote.status.year
  /\ \A d \in remote.open : Year(d) <= remote.status.year
  /\ remote.rolled # Nil /\ Year(remote.rolled) = Now => Known(Now)
  \* The first unresolved days of a year come with a pass to make.
  /\ remote.status.year = Now /\ remote.status.is = "pending" /\ FirstEnd(date) < YearStart(Now) =>
       \A d \in remote.open : Year(d) # Now

(* What the connector was told is what was once true.                      *)
Told(c) ==
  /\ ConfOK(c)
  /\ c.status.year <= remote.status.year
  /\ c.status.year = remote.status.year /\ c.status.is # "pending" => remote.status.is # "pending"
  /\ c.gap # Nil => Year(c.gap.first) <= c.status.year
  /\ c.gap # Nil /\ Year(c.gap.first) = Now /\ FirstEnd(date) < YearStart(Now) =>
       remote.status.is # "pending"

(* The rolling ranges leave nothing out once a pass of the year began.     *)
RolledInv ==
  \A b \in begun :
    remote.rolled # Nil /\ Year(b) = remote.status.year /\ Year(remote.rolled) = remote.status.year =>
      \A d \in Int : FirstEnd(b) < d /\ d <= remote.rolled => d \in Obs \cup overlooked

(* A year called complete or partial has been gone through.                *)
TerminatedInv ==
  remote.status.is \in Terminated =>
    LET y == remote.status.year
    IN  \/ /\ remote.rolled # Nil /\ Year(remote.rolled) = y
           /\ \A d \in Int : YearStart(y) <= d /\ d <= remote.rolled => d \in Obs \cup overlooked
        \/ Known(y) /\ Whole(y, YearStart(y) - 1)

SyncInv ==
  /\ sync.pc \in {"collect", "next"} => payload = Nil
  /\ sync.pc # "idle" /\ sync.chunk = Nil =>
       /\ remote.status.year <= Year(sync.to)
       /\ Loaded => Year(payload.to) <= Year(sync.to)
  /\ sync.chunk # Nil /\ sync.pc \in {"range", "collect"} =>
       payload = Nil /\ (local.cursor # Nil => remote.status.year <= local.cursor.year)
  /\ sync.chunk # Nil /\ sync.pc \in {"post", "remember", "apply"} => sync.fresh
  /\ sync.pc = "collect" /\ Year(sync.to) = Now => Known(Now)
  /\ sync.pc \in {"remember", "apply"} =>
       /\ remote.status.year = Year(payload.to)
       /\ \A d \in Int : payload.from <= d /\ d <= payload.to /\ Year(d) = Year(payload.to) => d \in Obs
       /\ payload.yearIs # Nil => remote.status.is = payload.yearIs
  /\ sync.pc = "apply" => conf = Reported(remote)

(* What a state of the connector must satisfy on a day.                    *)
CursorsOf(s) ==
  /\ s.cursor # Nil => CursorOK(s.cursor)
  /\ s.retry = Now => YearStart(Now) <= FirstEnd(date)
  /\ s.retry # Nil => s.retry \in Int /\ s.retry <= Now

CursorsInv ==
  /\ CursorsOf(local)
  /\ Loaded => PayloadOK(payload)

HistoryInv ==
  HTypes /\ ServerInv /\ Told(conf) /\ RolledInv /\ TerminatedInv /\ SyncInv /\ CursorsInv

-----------------------------------------------------------------------------
(* Every nonempty set of naturals has a least element.                     *)
LEMMA LeastNumber ==
  ASSUME NEW T, T \subseteq Nat, T # {}
  PROVE  \E x \in T : \A y \in T : x <= y
<1>1. \E x \in T : \A y \in T : ~(<<y, x>> \in OpToRel(<, Nat))
  BY WFMin, NatLessThanWellFounded
<1>2. PICK x \in T : \A y \in T : ~(<<y, x>> \in OpToRel(<, Nat))
  BY <1>1
<1>3. \A y \in T : ~(y < x) /\ y \in Nat /\ x \in Nat
  BY <1>2 DEF OpToRel
<1> QED
  BY <1>3

(* A nonempty finite set of integers has a least element, which Min finds. *)
LEMMA MinOf ==
  ASSUME NEW T, T \subseteq Int, IsFiniteSet(T), T # {}
  PROVE  Min(T) \in T /\ \A y \in T : Min(T) <= y
<1> DEFINE HasMin(U) == \E m \in U : \A y \in U : m <= y
           Bad == {n \in Nat : \E U \in SUBSET T : U # {} /\ Cardinality(U) = n /\ ~HasMin(U)}
<1>1. ASSUME NEW U \in SUBSET T
      PROVE  /\ IsFiniteSet(U) /\ Cardinality(U) \in Nat
             /\ \A x \in U : Cardinality(U \ {x}) = Cardinality(U) - 1
  <2>1. IsFiniteSet(U)
    BY FS_Subset
  <2> QED  BY <2>1, FS_CardinalityType, FS_RemoveElement
<1>2. Bad = {}
  <2>1. SUFFICES ASSUME Bad # {}
                 PROVE  FALSE
    OBVIOUS
  <2>2. PICK n \in Bad : \A k \in Bad : n <= k
    BY <2>1, LeastNumber
  <2>3. \A k \in Bad : ~(k < n)
    BY <2>2
  <2>4. PICK U \in SUBSET T : U # {} /\ Cardinality(U) = n /\ ~HasMin(U)
    OBVIOUS
  <2>5. PICK x \in U : TRUE
    BY <2>4
  <2> HIDE DEF HasMin
  <2>6. /\ U \ {x} \in SUBSET T /\ Cardinality(U \ {x}) = n - 1 /\ n - 1 \in Nat
    BY <1>1, <2>4, <2>5
  <2>7. CASE U \ {x} = {}
    <3>1. U = {x} /\ x \in Int
      BY <2>5, <2>7
    <3> QED  BY <2>4, <3>1 DEF HasMin
  <2>8. CASE U \ {x} # {}
    <3>1. HasMin(U \ {x})
      BY <2>3, <2>6, <2>8
    <3>2. PICK m \in U \ {x} : \A y \in U \ {x} : m <= y
      BY <3>1 DEF HasMin
    <3>3. m \in Int /\ x \in Int
      BY <2>5, <3>2
    <3>4. CASE m <= x
      BY <2>4, <3>2, <3>4 DEF HasMin
    <3>5. CASE x <= m
      <4>1. \A y \in U : x <= y
        BY <3>2, <3>3, <3>5
      <4> QED  BY <2>4, <2>5, <4>1 DEF HasMin
    <3> QED  BY <3>3, <3>4, <3>5
  <2> QED  BY <2>7, <2>8
<1>3. HasMin(T)
  BY <1>1, <1>2
<1>4. PICK m \in T : \A y \in T : m <= y
  BY <1>3
<1> QED  BY <1>4 DEF Min

(* It has a greatest one too, which Max finds.                             *)
LEMMA MaxOf ==
  ASSUME NEW T, T \subseteq Int, IsFiniteSet(T), T # {}
  PROVE  Max(T) \in T /\ \A y \in T : y <= Max(T)
<1> DEFINE HasMax(U) == \E m \in U : \A y \in U : y <= m
           Bad == {n \in Nat : \E U \in SUBSET T : U # {} /\ Cardinality(U) = n /\ ~HasMax(U)}
<1>1. ASSUME NEW U \in SUBSET T
      PROVE  /\ IsFiniteSet(U) /\ Cardinality(U) \in Nat
             /\ \A x \in U : Cardinality(U \ {x}) = Cardinality(U) - 1
  <2>1. IsFiniteSet(U)
    BY FS_Subset
  <2> QED  BY <2>1, FS_CardinalityType, FS_RemoveElement
<1>2. Bad = {}
  <2>1. SUFFICES ASSUME Bad # {}
                 PROVE  FALSE
    OBVIOUS
  <2>2. PICK n \in Bad : \A k \in Bad : n <= k
    BY <2>1, LeastNumber
  <2>3. \A k \in Bad : ~(k < n)
    BY <2>2
  <2>4. PICK U \in SUBSET T : U # {} /\ Cardinality(U) = n /\ ~HasMax(U)
    OBVIOUS
  <2>5. PICK x \in U : TRUE
    BY <2>4
  <2> HIDE DEF HasMax
  <2>6. /\ U \ {x} \in SUBSET T /\ Cardinality(U \ {x}) = n - 1 /\ n - 1 \in Nat
    BY <1>1, <2>4, <2>5
  <2>7. CASE U \ {x} = {}
    <3>1. U = {x} /\ x \in Int
      BY <2>5, <2>7
    <3> QED  BY <2>4, <3>1 DEF HasMax
  <2>8. CASE U \ {x} # {}
    <3>1. HasMax(U \ {x})
      BY <2>3, <2>6, <2>8
    <3>2. PICK m \in U \ {x} : \A y \in U \ {x} : y <= m
      BY <3>1 DEF HasMax
    <3>3. m \in Int /\ x \in Int
      BY <2>5, <3>2
    <3>4. CASE x <= m
      BY <2>4, <3>2, <3>4 DEF HasMax
    <3>5. CASE m <= x
      <4>1. \A y \in U : y <= x
        BY <3>2, <3>3, <3>5
      <4> QED  BY <2>4, <2>5, <4>1 DEF HasMax
    <3> QED  BY <3>3, <3>4, <3>5
  <2> QED  BY <2>7, <2>8
<1>3. HasMax(T)
  BY <1>1, <1>2
<1>4. PICK m \in T : \A y \in T : y <= m
  BY <1>3
<1> QED  BY <1>4 DEF Max

(* The state with another retry and attempt.                              *)
LEMMA RetryAttempt ==
  ASSUME NEW s, s = [cursor |-> s.cursor, retry |-> s.retry, attempt |-> s.attempt, generation |-> s.generation],
         NEW a, NEW b
  PROVE  [s EXCEPT !.retry = a, !.attempt = b]
           = [cursor |-> s.cursor, retry |-> a, attempt |-> b, generation |-> s.generation]
<1>1. PICK t : t = [s EXCEPT !.retry = a, !.attempt = b]
  OBVIOUS
<1>2. t = [cursor |-> t.cursor, retry |-> t.retry, attempt |-> t.attempt, generation |-> t.generation]
  BY <1>1
<1>3. t.cursor = s.cursor /\ t.retry = a /\ t.attempt = b /\ t.generation = s.generation
  BY <1>1
<1>4. t = [cursor |-> s.cursor, retry |-> a, attempt |-> b, generation |-> s.generation]
  BY <1>2, <1>3
<1> QED  BY <1>1, <1>4

(* The state with another attempt and cursor.                             *)
LEMMA AttemptCursor ==
  ASSUME NEW s, s = [cursor |-> s.cursor, retry |-> s.retry, attempt |-> s.attempt, generation |-> s.generation],
         NEW a, NEW b
  PROVE  [s EXCEPT !.attempt = a, !.cursor = b]
           = [cursor |-> b, retry |-> s.retry, attempt |-> a, generation |-> s.generation]
<1>1. PICK t : t = [s EXCEPT !.attempt = a, !.cursor = b]
  OBVIOUS
<1>2. t = [cursor |-> t.cursor, retry |-> t.retry, attempt |-> t.attempt, generation |-> t.generation]
  BY <1>1
<1>3. t.cursor = b /\ t.retry = s.retry /\ t.attempt = a /\ t.generation = s.generation
  BY <1>1
<1>4. t = [cursor |-> b, retry |-> s.retry, attempt |-> a, generation |-> s.generation]
  BY <1>2, <1>3
<1> QED  BY <1>1, <1>4

(* The state with another retry and cursor.                               *)
LEMMA RetryCursor ==
  ASSUME NEW s, s = [cursor |-> s.cursor, retry |-> s.retry, attempt |-> s.attempt, generation |-> s.generation],
         NEW a, NEW b
  PROVE  [s EXCEPT !.retry = a, !.cursor = b]
           = [cursor |-> b, retry |-> a, attempt |-> s.attempt, generation |-> s.generation]
<1>1. PICK t : t = [s EXCEPT !.retry = a, !.cursor = b]
  OBVIOUS
<1>2. t = [cursor |-> t.cursor, retry |-> t.retry, attempt |-> t.attempt, generation |-> t.generation]
  BY <1>1
<1>3. t.cursor = b /\ t.retry = a /\ t.attempt = s.attempt /\ t.generation = s.generation
  BY <1>1
<1>4. t = [cursor |-> b, retry |-> a, attempt |-> s.attempt, generation |-> s.generation]
  BY <1>2, <1>3
<1> QED  BY <1>1, <1>4

(* The state with all three.                                              *)
LEMMA CursorRetryAttempt ==
  ASSUME NEW s, s = [cursor |-> s.cursor, retry |-> s.retry, attempt |-> s.attempt, generation |-> s.generation],
         NEW a, NEW b, NEW c
  PROVE  [s EXCEPT !.cursor = a, !.retry = b, !.attempt = c]
           = [cursor |-> a, retry |-> b, attempt |-> c, generation |-> s.generation]
<1>1. PICK t : t = [s EXCEPT !.cursor = a, !.retry = b, !.attempt = c]
  OBVIOUS
<1>2. t = [cursor |-> t.cursor, retry |-> t.retry, attempt |-> t.attempt, generation |-> t.generation]
  BY <1>1
<1>3. t.cursor = a /\ t.retry = b /\ t.attempt = c /\ t.generation = s.generation
  BY <1>1
<1>4. t = [cursor |-> a, retry |-> b, attempt |-> c, generation |-> s.generation]
  BY <1>2, <1>3
<1> QED  BY <1>1, <1>4

(* The cursor after a reconciliation is the one before, none, or one that  *)
(* begins a pass for which there is a reason.                              *)
LEMMA ReconciledIs ==
  ASSUME NEW s, s = [cursor |-> s.cursor, retry |-> s.retry, attempt |-> s.attempt, generation |-> s.generation],
         NEW c, NEW day \in Int
  PROVE  LET r == Reconciled(s, c, day)
             y == Year(day)
         IN  /\ r = [cursor |-> r.cursor, retry |-> r.retry, attempt |-> r.attempt, generation |-> s.generation]
             /\ r.retry \in {s.retry, Nil}
             /\ \/ r.cursor \in {s.cursor, Nil}
                \/ r.cursor = Restarted("full", day) /\ s.retry = y
                \/ r.cursor = Restarted("initial", day) /\ ~(FirstEnd(day) < YearStart(y))
                \/ /\ r.cursor = Cursor("gap", y, c.gap.first, c.gap.last)
                   /\ c.gap # Nil /\ Year(c.gap.first) = y
                   /\ ~(FirstEnd(day) >= YearStart(y)) \/ c.status # YearStatus(y, "pending")
<1> DEFINE r == Reconciled(s, c, day)
           year == Year(day)
           retry == IF s.retry = year THEN year ELSE Nil
           attempt == IF s.attempt # Nil /\ s.attempt.year = year THEN s.attempt ELSE Nil
           Made(cursor, a) == [cursor |-> cursor, retry |-> retry, attempt |-> a, generation |-> s.generation]
           initial == WholeYear(s.cursor, "initial", day)
           old == [s EXCEPT !.retry = retry, !.attempt = attempt]
<1>0. retry \in {s.retry, Nil}
  OBVIOUS
<1>11. year \in Int /\ year # Nil
  BY YearOf, HistoryAssumption
<1>12. FirstEnd(day) \in Int /\ YearStart(year) \in Int
  BY FirstEndOf, YearOf
<1>1. r = IF retry = year
     THEN [old EXCEPT !.cursor = IF WholeYear(@, "full", day) THEN @ ELSE Restarted("full", day)]
     ELSE IF /\ FirstEnd(day) >= YearStart(year)
             /\ initial \/ c.status = YearStatus(year, "pending")
     THEN [old EXCEPT !.cursor = IF initial THEN @ ELSE Restarted("initial", day)]
     ELSE IF GapIn(c, day)
     THEN IF Exhausted(attempt, c.gap, s.generation)
          THEN [old EXCEPT !.cursor = IF @ # Nil /\ @.mode = "gap" THEN Nil ELSE @]
          ELSE [old EXCEPT !.cursor = GapCursor(@, c.gap, day)]
     ELSE [old EXCEPT !.attempt = Nil,
             !.cursor = IF Terminal(c, day) \/ FirstEnd(day) < YearStart(year) THEN Nil
                        ELSE IF @ # Nil /\ @.year = year THEN @
                        ELSE Restarted("initial", day)]
  BY DEF Reconciled
<1> HIDE DEF retry, attempt, year, initial, r
<1>2. old = Made(s.cursor, attempt)
  BY RetryAttempt
<1> HIDE DEF old
<1>3. ASSUME NEW x
      PROVE  [old EXCEPT !.cursor = x] = Made(x, attempt)
  BY <1>2
<1>4. ASSUME NEW x
      PROVE  [old EXCEPT !.attempt = Nil, !.cursor = x] = Made(x, Nil)
  <2>1. PICK t : t = old
    OBVIOUS
  <2>2. /\ t = [cursor |-> t.cursor, retry |-> t.retry, attempt |-> t.attempt, generation |-> t.generation]
        /\ t.retry = retry /\ t.generation = s.generation
    BY <1>2, <2>1
  <2>3. [t EXCEPT !.attempt = Nil, !.cursor = x]
          = [cursor |-> x, retry |-> t.retry, attempt |-> Nil, generation |-> t.generation]
    BY ONLY AttemptCursor, <2>2
  <2> QED  BY <2>1, <2>2, <2>3
<1>5. old.cursor = s.cursor
  BY <1>2
<1> DEFINE Reason(x) ==
      \/ x \in {s.cursor, Nil}
      \/ x = Restarted("full", day) /\ s.retry = year
      \/ x = Restarted("initial", day) /\ ~(FirstEnd(day) < YearStart(year))
      \/ /\ x = Cursor("gap", year, c.gap.first, c.gap.last)
         /\ c.gap # Nil /\ Year(c.gap.first) = year
         /\ ~(FirstEnd(day) >= YearStart(year)) \/ c.status # YearStatus(year, "pending")
<1>6. \E x, a : r = Made(x, a) /\ Reason(x)
  <2>1. CASE retry = year
    <3> DEFINE x == IF WholeYear(s.cursor, "full", day) THEN s.cursor ELSE Restarted("full", day)
    <3>1. r = Made(x, attempt)
      BY <1>1, <1>3, <1>5, <2>1
    <3>2. s.retry = year
      BY <1>11, <2>1 DEF retry
    <3>3. Reason(x)
      BY <3>2
    <3> QED  BY <3>1, <3>3
  <2>2. CASE /\ retry # year /\ FirstEnd(day) >= YearStart(year)
             /\ initial \/ c.status = YearStatus(year, "pending")
    <3> DEFINE x == IF initial THEN s.cursor ELSE Restarted("initial", day)
    <3>1. r = Made(x, attempt)
      BY <1>1, <1>3, <1>5, <2>2
    <3>2. ~(FirstEnd(day) < YearStart(year))
      BY <1>12, <2>2
    <3>3. Reason(x)
      BY <3>2
    <3> QED  BY <3>1, <3>3
  <2>3. CASE /\ retry # year
             /\ ~(FirstEnd(day) >= YearStart(year) /\ (initial \/ c.status = YearStatus(year, "pending")))
             /\ GapIn(c, day)
    <3>1. CASE Exhausted(attempt, c.gap, s.generation)
      <4> DEFINE x == IF s.cursor # Nil /\ s.cursor.mode = "gap" THEN Nil ELSE s.cursor
      <4>1. r = Made(x, attempt)
        BY <1>1, <1>3, <1>5, <2>3, <3>1
      <4>2. Reason(x)
        OBVIOUS
      <4> QED  BY <4>1, <4>2
    <3>2. CASE ~Exhausted(attempt, c.gap, s.generation)
      <4> DEFINE x == GapCursor(s.cursor, c.gap, day)
      <4>1. r = Made(x, attempt)
        BY <1>1, <1>3, <1>5, <2>3, <3>2
      <4>2. x = s.cursor \/ x = Cursor("gap", year, c.gap.first, c.gap.last)
        BY DEF GapCursor, year
      <4>3. c.gap # Nil /\ Year(c.gap.first) = year
        BY <2>3 DEF GapIn, year
      <4>4. ~(FirstEnd(day) >= YearStart(year)) \/ c.status # YearStatus(year, "pending")
        BY <2>3
      <4> HIDE DEF x
      <4>5. Reason(x)
        BY <4>2, <4>3, <4>4
      <4> QED  BY <4>1, <4>5
    <3> QED  BY <3>1, <3>2
  <2>4. CASE /\ retry # year
             /\ ~(FirstEnd(day) >= YearStart(year) /\ (initial \/ c.status = YearStatus(year, "pending")))
             /\ ~GapIn(c, day)
    <3> DEFINE x == IF Terminal(c, day) \/ FirstEnd(day) < YearStart(year) THEN Nil
                    ELSE IF s.cursor # Nil /\ s.cursor.year = year THEN s.cursor
                    ELSE Restarted("initial", day)
    <3>1. r = Made(x, Nil)
      BY <1>1, <1>4, <1>5, <2>4
    <3>2. Reason(x)
      OBVIOUS
    <3> QED  BY <3>1, <3>2
  <2> QED  BY <2>1, <2>2, <2>3, <2>4
<1>7. PICK x, a : r = Made(x, a) /\ Reason(x)
  BY <1>6
<1>8. r.cursor = x /\ r = [cursor |-> r.cursor, retry |-> r.retry, attempt |-> r.attempt, generation |-> s.generation]
        /\ r.retry = retry
  BY <1>7
<1>9. Reason(r.cursor)
  BY <1>7, <1>8
<1> HIDE DEF Reason
<1>10. /\ r = [cursor |-> r.cursor, retry |-> r.retry, attempt |-> r.attempt, generation |-> s.generation]
       /\ r.retry \in {s.retry, Nil} /\ Reason(r.cursor)
  BY <1>0, <1>8, <1>9
<1> QED  BY <1>10 DEF r, year, Reason
-----------------------------------------------------------------------------
(* What every step but the delivery of a snapshot does to the days, to     *)
(* the server, and to the days on which passes began.                      *)
Moves ==
  /\ date' \in {date, date + 1}
  /\ UNCHANGED <<remote, covered, overlooked>>
  /\ begun' \in {begun, Begun}

(* A pass is noted to begin in a year only once.                           *)
LEMMA BegunOnce ==
  ASSUME WorldTypes, Moves
  PROVE  /\ begun \subseteq begun'
         /\ \A b \in begun' \ begun : b = date /\ ~Known(Year(b))
         /\ \A y : Known(y) => Known(y)'
BY DEF WorldTypes, Moves, Begun, Known, Now

(* The year does not go back.                                              *)
LEMMA NowMoves ==
  ASSUME WorldTypes, Moves
  PROVE  /\ date' \in Nat /\ date <= date'
         /\ Now \in Int /\ Now' \in Int /\ Now <= Now'
         /\ FirstEnd(date) \in Int /\ FirstEnd(date)' \in Int
         /\ Now' = Now => FirstEnd(date) <= FirstEnd(date)'
         /\ YearStart(Now) \in Int /\ YearStart(Now)' \in Int
<1>1. date \in Nat /\ date' \in Nat /\ date <= date'
  BY DEF WorldTypes, Moves
<1>2. \A d \in Int, e \in Int : d <= e => Year(d) <= Year(e) /\ (Year(d) = Year(e) => FirstEnd(d) <= FirstEnd(e))
  BY YearOrder, FirstEndOrder
<1>3. \A d \in Int : Year(d) \in Int /\ FirstEnd(d) \in Int /\ YearStart(Year(d)) \in Int
  BY YearOf, FirstEndOf
<1>4. FirstEnd(date)' = FirstEnd(date') /\ Now' = Year(date') /\ YearStart(Now)' = YearStart(Year(date'))
  BY DEF FirstEnd, Now, Year, YearStart, Highest
<1> QED  BY <1>1, <1>2, <1>3, <1>4 DEF Now

(* What has been gone through stays gone through.                          *)
LEMMA WholeMoves ==
  ASSUME WorldTypes, Moves, NEW y \in Int, NEW next, Known(y), Whole(y, next)
  PROVE  Known(y)' /\ Whole(y, next)'
<1>1. Known(y)'
  BY BegunOnce
<1>2. Obs' = Obs
  BY DEF Obs, Moves
<1>3. ASSUME NEW b \in begun', Year(b) = y
      PROVE  b \in begun
  BY <1>3, BegunOnce
<1> QED  BY <1>1, <1>2, <1>3 DEF Whole

(* A cursor stays sound.                                                   *)
LEMMA CursorMoves ==
  ASSUME WorldTypes, Moves, NEW c, CursorOK(c)
  PROVE  CursorOK(c)'
<1>1. c.year \in Int /\ c.year <= Now /\ Known(c.year)
  BY DEF CursorOK
<1>2. Known(c.year)'
  BY <1>1, BegunOnce
<1>3. Whole(c.year, c.next) => Whole(c.year, c.next)'
  BY <1>1, WholeMoves
<1>4. remote' = remote
  BY DEF Moves
<1>5. c.year = Now' => Now' = Now
  BY <1>1, NowMoves
<1>6. c.mode # "gap" /\ c.year = Now' => YearStart(Now)' <= FirstEnd(date)'
  <2>1. SUFFICES ASSUME c.mode # "gap", c.year = Now'
                 PROVE  YearStart(Now)' <= FirstEnd(date)'
    OBVIOUS
  <2>2. Now' = Now /\ YearStart(Now) <= FirstEnd(date) /\ FirstEnd(date) <= FirstEnd(date)'
    BY <1>5, <2>1, NowMoves DEF CursorOK
  <2>3. YearStart(Now)' = YearStart(Now)
    BY <2>2 DEF YearStart
  <2> QED  BY <2>2, <2>3, NowMoves
<1>7. c.year <= Now'
  BY <1>1, NowMoves
<1> QED  BY <1>1, <1>2, <1>3, <1>4, <1>6, <1>7 DEF CursorOK


(* So does a snapshot.                                                     *)
LEMMA PayloadMoves ==
  ASSUME WorldTypes, Moves, NEW p, PayloadOK(p)
  PROVE  PayloadOK(p)'
<1>1. p.to \in Int /\ Year(p.to) \in Int /\ Year(p.to) <= Now
  BY YearOf, YearOrder DEF PayloadOK, WorldTypes, Now
<1>2. Year(p.to) = Now' => Now' = Now
  BY <1>1, NowMoves
<1>3. remote' = remote /\ Year(p.to) <= Now'
  BY <1>1, NowMoves DEF Moves, WorldTypes
<1>4. ASSUME p.kind = "rolling"
      PROVE  /\ p.yearIs = Nil /\ Year(p.to) = Now' => YearStart(Now)' <= FirstEnd(date)'
             /\ Year(p.to) = Now' => Known(Now)'
  <2>1. CASE Now' # Now
    BY <1>2, <2>1
  <2>2. CASE Now' = Now
    <3>1. YearStart(Now)' = YearStart(Now)
      BY <2>2 DEF YearStart
    <3>2. p.yearIs = Nil /\ Year(p.to) = Now' => YearStart(Now)' <= FirstEnd(date)'
      <4>1. p.yearIs = Nil /\ Year(p.to) = Now => YearStart(Now) <= FirstEnd(date)
        BY <1>4 DEF PayloadOK
      <4> QED  BY <2>2, <3>1, <4>1, NowMoves
    <3>3. Known(Now) => Known(Now)'
      <4>1. PICK y : y = Now
        OBVIOUS
      <4>2. Known(y) => Known(y)'
        BY BegunOnce
      <4>3. Known(Now)' = Known(y)'
        BY <2>2, <4>1 DEF Known
      <4> QED  BY <4>1, <4>2, <4>3
    <3>4. Year(p.to) = Now' => Known(Now)'
      BY <1>4, <2>2, <3>3 DEF PayloadOK
    <3> QED  BY <3>2, <3>4
  <2> QED  BY <2>1, <2>2
<1>5. ASSUME p.kind = "chunk"
      PROVE  CursorOK([mode |-> p.advance.mode, year |-> p.advance.year, start |-> p.advance.start, next |-> p.to])'
  <2>1. PICK c : c = [mode |-> p.advance.mode, year |-> p.advance.year, start |-> p.advance.start, next |-> p.to]
    OBVIOUS
  <2>2. CursorOK(c)
    BY <1>5, <2>1 DEF PayloadOK
  <2>3. CursorOK(c)'
    BY <2>2, CursorMoves
  <2> QED  BY <2>1, <2>3
<1> HIDE DEF CursorOK
<1> QED  BY <1>3, <1>4, <1>5 DEF PayloadOK

(* What the connector was told stays true.                                 *)
LEMMA ToldMoves ==
  ASSUME WorldTypes, Moves, NEW c, Told(c)
  PROVE  Told(c)'
<1>1. remote' = remote
  BY DEF Moves
<1>2. c.gap # Nil => Year(c.gap.first) \in Int /\ Year(c.gap.first) <= c.status.year
  BY YearOf DEF Told, ConfOK
<1>3. ASSUME c.gap # Nil, Year(c.gap.first) = Now', FirstEnd(date)' < YearStart(Now)'
      PROVE  remote.status.is # "pending"
  <2>1. Now' <= Now
    BY <1>2, <1>3, NowMoves DEF Told, ConfOK, WorldTypes
  <2>2. Now' = Now /\ FirstEnd(date) <= FirstEnd(date)'
    BY <2>1, NowMoves
  <2>3. YearStart(Now)' = YearStart(Now)
    BY <2>2 DEF YearStart
  <2>4. FirstEnd(date) < YearStart(Now)
    BY <1>3, <2>2, <2>3, NowMoves
  <2> QED  BY <1>3, <2>2, <2>4 DEF Told
<1> QED  BY <1>1, <1>3 DEF Told, ConfOK

(* The server's invariants do too.                                         *)
LEMMA ServerMoves ==
  ASSUME WorldTypes, Moves, ServerInv
  PROVE  ServerInv'
<1>1. remote' = remote
  BY DEF Moves
<1>2. remote.rolled # Nil => Year(remote.rolled) \in Int
  BY YearOf DEF WorldTypes
<1>3. ASSUME remote.rolled # Nil, Year(remote.rolled) = Now'
      PROVE  Known(Now)'
  <2>1. Now' = Now
    BY <1>2, <1>3, NowMoves DEF ServerInv, WorldTypes
  <2>2. PICK y : y = Now
    OBVIOUS
  <2>3. Known(y) => Known(y)'
    BY BegunOnce
  <2>4. Known(Now)' = Known(y)'
    BY <2>1, <2>2 DEF Known
  <2> QED  BY <1>3, <2>1, <2>2, <2>3, <2>4 DEF ServerInv
<1>4. ASSUME remote.status.year = Now', FirstEnd(date)' < YearStart(Now)'
      PROVE  Now' = Now /\ FirstEnd(date) < YearStart(Now)
  <2>1. Now' = Now /\ FirstEnd(date) <= FirstEnd(date)'
    BY <1>4, NowMoves DEF WorldTypes
  <2>2. YearStart(Now)' = YearStart(Now)
    BY <2>1 DEF YearStart
  <2> QED  BY <1>4, <2>1, <2>2, NowMoves
<1> QED  BY <1>1, <1>3, <1>4 DEF ServerInv

(* A year of which a rolling range was taken has had its pass begin.       *)
LEMMA RolledMoves ==
  ASSUME WorldTypes, Moves, ServerInv, RolledInv
  PROVE  RolledInv'
<1>1. remote' = remote /\ Obs' = Obs /\ overlooked' = overlooked
  BY DEF Moves, Obs
<1>2. ASSUME NEW b \in begun', remote.rolled # Nil,
             Year(b) = remote.status.year, Year(remote.rolled) = remote.status.year
      PROVE  b \in begun
  <2>1. CASE b \notin begun
    <3>1. b = date /\ ~Known(Year(b))
      BY <2>1, BegunOnce
    <3>2. Year(b) = Now
      BY <3>1 DEF Now
    <3> QED  BY <1>2, <3>1, <3>2 DEF ServerInv
  <2> QED  BY <2>1
<1> QED  BY <1>1, <1>2 DEF RolledInv

(* And what was called complete stays gone through.                        *)
LEMMA TerminatedMoves ==
  ASSUME WorldTypes, Moves, TerminatedInv
  PROVE  TerminatedInv'
<1>1. remote' = remote /\ Obs' = Obs /\ overlooked' = overlooked
  BY DEF Moves, Obs
<1>2. PICK y : y = remote.status.year
  OBVIOUS
<1>3. y \in Int
  BY <1>2 DEF WorldTypes
<1>4. Known(y) /\ Whole(y, YearStart(y) - 1) => Known(y)' /\ Whole(y, YearStart(y) - 1)'
  BY <1>3, WholeMoves
<1> HIDE DEF Known, Whole
<1> QED  BY <1>1, <1>2, <1>4 DEF TerminatedInv

(* The types of the world stay.                                            *)
LEMMA TypesMove ==
  ASSUME WorldTypes, Moves
  PROVE  WorldTypes'
<1>1. \A b \in begun' : b \in Nat /\ b <= date'
  BY BegunOnce, NowMoves DEF WorldTypes
<1>2. remote' = remote /\ covered' = covered
  BY DEF Moves
<1> QED  BY <1>1, <1>2, NowMoves DEF WorldTypes

-----------------------------------------------------------------------------
(* What the server reports is true when it does.                           *)
LEMMA ReportedTold ==
  ASSUME WorldTypes, ServerInv
  PROVE  Told(Reported(remote))
<1> DEFINE c == Reported(remote)
<1>1. c.status = remote.status /\ c.gap = IF remote.open = {} THEN Nil ELSE [first |-> Min(remote.open), last |-> Max(remote.open)]
  BY DEF Reported
<1>2. c = [status |-> YearStatus(c.status.year, c.status.is), gap |-> c.gap]
  BY DEF Reported, WorldTypes
<1> HIDE DEF c
<1>3. ASSUME c.gap # Nil
      PROVE  /\ c.gap.first \in remote.open /\ c.gap.first \in Int /\ c.gap.last \in Int
             /\ Year(c.gap.first) <= c.status.year
  <2>1. remote.open # {} /\ c.gap.first = Min(remote.open) /\ c.gap.last = Max(remote.open)
    BY <1>1, <1>3
  <2>2. Min(remote.open) \in remote.open /\ Max(remote.open) \in remote.open
    BY <2>1, MinOf, MaxOf DEF WorldTypes
  <2> QED  BY <1>1, <2>1, <2>2 DEF WorldTypes, ServerInv
<1>4. ASSUME c.gap # Nil, Year(c.gap.first) = Now, FirstEnd(date) < YearStart(Now)
      PROVE  remote.status.is # "pending"
  <2>1. remote.status.year = Now
    <3>1. Year(c.gap.first) <= remote.status.year /\ remote.status.year <= Now
      BY <1>1, <1>3, <1>4 DEF WorldTypes
    <3>2. Now \in Int /\ remote.status.year \in Int
      BY YearOf DEF WorldTypes, Now
    <3> QED  BY <1>4, <3>1, <3>2
  <2> QED  BY <1>3, <1>4, <2>1 DEF ServerInv
<1>5. Told(c)
  BY <1>1, <1>2, <1>3, <1>4 DEF Told, ConfOK, WorldTypes
<1> QED  BY <1>5 DEF c

(* The pass of the year that begins on a day has nothing behind it.        *)
LEMMA RestartedOK ==
  ASSUME WorldTypes, Moves, date' = date, begun' = Begun,
         NEW mode \in {"initial", "full"}, YearStart(Now) <= FirstEnd(date)
  PROVE  CursorOK(Restarted(mode, date))'
<1> DEFINE c == Restarted(mode, date)
<1>1. /\ c.year = Now /\ c.start = YearStart(Now) /\ c.next = FirstEnd(date) /\ c.mode = mode
  BY DEF Restarted, Cursor, Now
<1>2. Now' = Now /\ FirstEnd(date)' = FirstEnd(date) /\ YearStart(Now)' = YearStart(Now)
  BY DEF Now, FirstEnd, YearStart, Highest, Year
<1>3. Known(Now)'
  BY <1>2 DEF Known, Begun, Now, Year
<1>4. PICK y : y = Now
  OBVIOUS
<1>5. Whole(y, FirstEnd(date))'
  <2>1. SUFFICES ASSUME NEW b \in begun', Year(b) = y, NEW d \in Int, FirstEnd(date) < d, d <= FirstEnd(b)
                 PROVE  FALSE
    BY <1>2 DEF Whole
  <2>2. b \in Int /\ b <= date
    BY BegunOnce DEF WorldTypes
  <2>3. FirstEnd(b) <= FirstEnd(date) /\ FirstEnd(b) \in Int /\ FirstEnd(date) \in Int
    BY <1>4, <2>1, <2>2, FirstEndOrder, FirstEndOf DEF WorldTypes, Now
  <2> QED  BY <2>1, <2>3
<1>6. mode # "gap" /\ mode \in {"initial", "gap", "full"}
  OBVIOUS
<1>7. Known(y)' /\ Now' = y
  BY <1>2, <1>3, <1>4
<1>8. PICK x : x = c
  OBVIOUS
<1>9. x.year = y /\ x.start = YearStart(y) /\ x.next = FirstEnd(date) /\ x.mode = mode
  BY <1>1, <1>4, <1>8
<1>10. y \in Int /\ YearStart(y) \in Int /\ FirstEnd(date) \in Int
  BY <1>4, NowMoves
<1>11. Whole(y, x.next)'
  <2>1. PICK e : e = FirstEnd(date)
    OBVIOUS
  <2>2. FirstEnd(date)' = e
    BY <1>2, <2>1
  <2> QED  BY <1>5, <1>9, <2>1, <2>2 DEF Whole
<1>12. CursorOK(x)'
  BY <1>2, <1>4, <1>6, <1>7, <1>9, <1>10, <1>11 DEF CursorOK
<1>13. Restarted(mode, date)' = Restarted(mode, date)
  BY <1>2 DEF Restarted, Now, Year
<1> QED  BY <1>8, <1>12, <1>13

(* The pass of a gap that was reported begins once the year has been gone  *)
(* through.                                                                *)
LEMMA GapOK ==
  ASSUME WorldTypes, Moves, date' = date, begun' = Begun,
         NEW c, Told(c), c.gap # Nil, Year(c.gap.first) = Now,
         ~(FirstEnd(date) >= YearStart(Now)) \/ c.status # YearStatus(Now, "pending")
  PROVE  CursorOK(Cursor("gap", Now, c.gap.first, c.gap.last))'
<1>1. PICK x : x = Cursor("gap", Now, c.gap.first, c.gap.last)
  OBVIOUS
<1>2. x.year = Now /\ x.mode = "gap" /\ x.start = c.gap.first /\ x.next = c.gap.last
  BY <1>1 DEF Cursor
<1>3. Now' = Now /\ remote' = remote
  BY DEF Now, Year, Moves
<1>4. Known(Now)'
  BY <1>3 DEF Known, Begun, Now, Year
<1>5. Now \in Int /\ YearStart(Now) \in Int /\ FirstEnd(date) \in Int
  BY NowMoves
<1>6. Now >= remote.status.year => Now = remote.status.year /\ remote.status.is # "pending"
  <2>1. Now <= c.status.year /\ c.status.year <= remote.status.year /\ remote.status.year <= Now
    BY DEF Told, WorldTypes
  <2>2. c.status.year \in Int /\ remote.status.year \in Int
    BY DEF Told, ConfOK, WorldTypes
  <2>3. Now = c.status.year /\ Now = remote.status.year
    BY <1>5, <2>1, <2>2
  <2>4. CASE c.status.is = "pending"
    <3>1. c.status = YearStatus(c.status.year, c.status.is)
      BY DEF Told, ConfOK
    <3>2. FirstEnd(date) < YearStart(Now)
      BY <1>5, <2>3, <2>4, <3>1
    <3> QED  BY <2>3, <3>2 DEF Told
  <2>5. CASE c.status.is # "pending"
    BY <2>3, <2>5 DEF Told
  <2> QED  BY <2>4, <2>5
<1>7. c.gap.first \in Int /\ c.gap.last \in Int
  BY DEF Told, ConfOK
<1>8. PICK y : y = Now
  OBVIOUS
<1>9. x.year = y /\ Now' = y /\ Known(y)' /\ y \in Int
  BY <1>2, <1>3, <1>4, <1>5, <1>8
<1>10. y >= remote.status.year => y = remote.status.year /\ remote.status.is \in Terminated
  BY <1>6, <1>8 DEF WorldTypes
<1>11. CursorOK(x)'
  BY <1>2, <1>3, <1>7, <1>9, <1>10 DEF CursorOK
<1>12. Cursor("gap", Now, c.gap.first, c.gap.last)' = Cursor("gap", Now, c.gap.first, c.gap.last)
  BY <1>3 DEF Cursor
<1> QED  BY <1>1, <1>11, <1>12

(* A reconciliation leaves a sound cursor.                                 *)
LEMMA ReconciledOK ==
  ASSUME WorldTypes, Moves, date' = date, begun' = Begun,
         NEW s, LocalOK(s), CursorsOf(s), NEW c, Told(c), NEW r, r = Reconciled(s, c, date)
  PROVE  /\ LocalOK(r) /\ CursorsOf(r)' /\ r.generation = s.generation
         /\ r.cursor \in {s.cursor, Nil} \/ r.cursor.year = Now
<1>1. date \in Int /\ Now = Year(date)
  BY DEF WorldTypes, Now
<1> DEFINE y == Year(date)
<1>2. /\ r = [cursor |-> r.cursor, retry |-> r.retry, attempt |-> r.attempt, generation |-> s.generation]
      /\ r.retry \in {s.retry, Nil}
      /\ \/ r.cursor \in {s.cursor, Nil}
         \/ r.cursor = Restarted("full", date) /\ s.retry = y
         \/ r.cursor = Restarted("initial", date) /\ ~(FirstEnd(date) < YearStart(y))
         \/ /\ r.cursor = Cursor("gap", y, c.gap.first, c.gap.last)
            /\ c.gap # Nil /\ Year(c.gap.first) = y
            /\ ~(FirstEnd(date) >= YearStart(y)) \/ c.status # YearStatus(y, "pending")
  BY <1>1, ReconciledIs DEF LocalOK
<1>3. /\ Now' = Now /\ YearStart(Now)' = YearStart(Now) /\ FirstEnd(date)' = FirstEnd(date)
  BY DEF Now, FirstEnd, YearStart, Highest, Year
<1>4. LocalOK(r) /\ r.generation = s.generation
  BY <1>2 DEF LocalOK
<1>5. Now \in Int /\ YearStart(Now) \in Int /\ FirstEnd(date) \in Int
  BY NowMoves
<1>6. /\ r.retry = Now => YearStart(Now) <= FirstEnd(date)
      /\ r.retry # Nil => r.retry \in Int /\ r.retry <= Now
  BY <1>2, <1>5, HistoryAssumption DEF CursorsOf
<1>7. (r.cursor # Nil => CursorOK(r.cursor)') /\ (r.cursor \in {s.cursor, Nil} \/ r.cursor.year = Now)
  <2>1. CASE r.cursor = s.cursor
    BY <2>1, CursorMoves DEF CursorsOf
  <2>2. CASE r.cursor = Nil
    BY <2>2
  <2>3. ASSUME NEW mode \in {"initial", "full"}, r.cursor = Restarted(mode, date), YearStart(Now) <= FirstEnd(date)
        PROVE  CursorOK(r.cursor)' /\ r.cursor.year = Now
    <3>1. CursorOK(Restarted(mode, date))'
      BY <2>3, RestartedOK
    <3>2. Restarted(mode, date)' = Restarted(mode, date)
      BY DEF Restarted, Year
    <3>3. r.cursor.year = Now
      BY <1>1, <2>3 DEF Restarted, Cursor
    <3> QED  BY <2>3, <3>1, <3>2, <3>3
  <2>4. CASE r.cursor = Restarted("full", date) /\ s.retry = y
    BY <1>1, <2>3, <2>4 DEF CursorsOf
  <2>5. CASE r.cursor = Restarted("initial", date) /\ ~(FirstEnd(date) < YearStart(y))
    <3>1. YearStart(Now) <= FirstEnd(date)
      BY <1>1, <1>5, <2>5
    <3> QED  BY <2>3, <2>5, <3>1
  <2>6. CASE /\ r.cursor = Cursor("gap", y, c.gap.first, c.gap.last)
             /\ c.gap # Nil /\ Year(c.gap.first) = y
             /\ ~(FirstEnd(date) >= YearStart(y)) \/ c.status # YearStatus(y, "pending")
    <3>1. CursorOK(Cursor("gap", Now, c.gap.first, c.gap.last))'
      BY <1>1, <2>6, GapOK
    <3>2. Cursor("gap", Now, c.gap.first, c.gap.last)' = r.cursor
      BY <1>1, <1>3, <2>6 DEF Cursor
    <3>3. r.cursor.year = Now
      BY <1>1, <2>6 DEF Cursor
    <3> QED  BY <3>1, <3>2, <3>3
  <2> QED  BY <1>2, <2>1, <2>2, <2>4, <2>5, <2>6
<1> HIDE DEF y
<1> QED  BY <1>3, <1>4, <1>6, <1>7 DEF CursorsOf

(* sync --full leaves one too.                                             *)
LEMMA PreparedOK ==
  ASSUME WorldTypes, Moves, date' = date, begun' = Begun,
         NEW s, LocalOK(s), CursorsOf(s)', NEW r, r = Prepared(s, date)
  PROVE  /\ LocalOK(r) /\ CursorsOf(r)'
         /\ r.cursor = s.cursor \/ r.cursor.year = Now
<1>1. CASE r = s
  BY <1>1
<1>2. CASE r # s
  <2>1. /\ ~(FirstEnd(date) < YearStart(Now))
        /\ r = [s EXCEPT !.retry = Now, !.cursor = Restarted("full", date)]
    BY <1>2 DEF Prepared, Now
  <2>2. r = [cursor |-> Restarted("full", date), retry |-> Now, attempt |-> s.attempt, generation |-> s.generation]
    BY <2>1, RetryCursor DEF LocalOK
  <2>3. YearStart(Now) <= FirstEnd(date)
    BY <2>1, NowMoves
  <2>4. CursorOK(Restarted("full", date))'
    BY <2>3, RestartedOK
  <2>5. Restarted("full", date)' = r.cursor
    BY <2>2 DEF Restarted, Year
  <2>6. /\ Now' = Now /\ YearStart(Now)' = YearStart(Now) /\ FirstEnd(date)' = FirstEnd(date)
    BY DEF Now, FirstEnd, YearStart, Highest, Year
  <2>7. r.cursor.year = Now
    BY <2>2 DEF Restarted, Cursor, Now
  <2>8. CursorOK(r.cursor)' /\ LocalOK(r) /\ r.retry = Now
    BY <2>2, <2>4, <2>5 DEF LocalOK
  <2>9. Now \in Int
    BY NowMoves
  <2> QED  BY <2>3, <2>6, <2>7, <2>8, <2>9 DEF CursorsOf
<1> QED  BY <1>1, <1>2

-----------------------------------------------------------------------------
(* What a step that delivers nothing leaves as it was.                     *)
LEMMA MovesKeep ==
  ASSUME HistoryInv, Moves
  PROVE  /\ WorldTypes' /\ ServerInv' /\ RolledInv' /\ TerminatedInv'
         /\ \A c : Told(c) => Told(c)'
         /\ \A p : PayloadOK(p) => PayloadOK(p)'
         /\ \A x : CursorOK(x) => CursorOK(x)'
<1>1. WorldTypes /\ ServerInv /\ RolledInv /\ TerminatedInv
  BY DEF HistoryInv, HTypes
<1> QED  BY <1>1, TypesMove, ServerMoves, RolledMoves, TerminatedMoves, ToldMoves, PayloadMoves, CursorMoves

(* The state of the connector stays sound while it is left alone.          *)
LEMMA CursorsMove ==
  ASSUME WorldTypes, Moves, NEW s, CursorsOf(s)
  PROVE  CursorsOf(s)'
<1>1. s.cursor # Nil => CursorOK(s.cursor)'
  BY CursorMoves DEF CursorsOf
<1>2. s.retry # Nil => s.retry \in Int /\ s.retry <= Now'
  BY NowMoves DEF CursorsOf
<1>3. s.retry = Now' => YearStart(Now)' <= FirstEnd(date)'
  <2>1. SUFFICES ASSUME s.retry = Now'
                 PROVE  YearStart(Now)' <= FirstEnd(date)'
    OBVIOUS
  <2>2. s.retry # Nil
    BY <2>1, NowMoves, HistoryAssumption
  <2>3. Now' = Now /\ FirstEnd(date) <= FirstEnd(date)' /\ YearStart(Now) <= FirstEnd(date)
    BY <2>1, <2>2, NowMoves DEF CursorsOf
  <2>4. YearStart(Now)' = YearStart(Now)
    BY <2>3 DEF YearStart
  <2> QED  BY <2>3, <2>4, NowMoves
<1> QED  BY <1>1, <1>2, <1>3 DEF CursorsOf

(* A step of the connector's own that tells nobody.                        *)
LEMMA Quiet ==
  ASSUME HistoryInv, UNCHANGED <<date, remote, covered, conf, notes>>,
         LocalOK(local)', local'.cursor = local.cursor, local'.retry = local.retry,
         SyncOK(sync)', SyncInv', (Loaded => PayloadOK(payload))'
  PROVE  HistoryInv'
<1>1. Moves
  BY DEF Moves, notes
<1>2. WorldTypes' /\ ServerInv' /\ RolledInv' /\ TerminatedInv'
  BY <1>1, MovesKeep
<1>3. Told(conf)'
  <2>1. Told(conf)
    BY DEF HistoryInv
  <2>2. PICK c : c = conf
    OBVIOUS
  <2>3. Told(c)'
    BY <1>1, <2>1, <2>2, MovesKeep
  <2> QED  BY <2>2, <2>3 
<1>4. CursorsOf(local)'
  <2>1. CursorsOf(local)
    BY DEF HistoryInv, CursorsInv
  <2>2. PICK x : x = local
    OBVIOUS
  <2>3. CursorsOf(x)'
    BY <1>1, <2>1, <2>2, CursorsMove DEF HistoryInv, HTypes
  <2>4. PICK z : z = local'
    OBVIOUS
  <2>5. z.cursor = x.cursor /\ z.retry = x.retry
    BY <2>2, <2>4
  <2>6. CursorsOf(z)'
    BY <2>3, <2>5 DEF CursorsOf
  <2> QED  BY <2>4, <2>6
<1> QED  BY <1>2, <1>3, <1>4 DEF HistoryInv, HTypes, CursorsInv

(* A sync that goes on keeps the rest of what it holds.                    *)
LEMMA GoesOn ==
  ASSUME SyncOK(sync), date' = date, NEW k, sync' = [sync EXCEPT !.pc = k]
  PROVE  /\ SyncOK(sync)'
         /\ sync'.pc = k /\ sync'.to = sync.to /\ sync'.chunk = sync.chunk /\ sync'.fresh = sync.fresh
BY DEF SyncOK

(* As does one that also notes whether its own snapshot is on the way.     *)
LEMMA GoesFresh ==
  ASSUME SyncOK(sync), date' = date, NEW k, NEW f, sync' = [sync EXCEPT !.pc = k, !.fresh = f]
  PROVE  /\ SyncOK(sync)'
         /\ sync'.pc = k /\ sync'.to = sync.to /\ sync'.chunk = sync.chunk /\ sync'.fresh = f
<1>1. PICK t : t = [sync EXCEPT !.pc = k, !.fresh = f]
  OBVIOUS
<1>2. t = [pc |-> t.pc, to |-> t.to, full |-> t.full, most |-> t.most, chunk |-> t.chunk,
          fresh |-> t.fresh, tried |-> t.tried, chunks |-> t.chunks]
  BY <1>1 DEF SyncOK
<1>3. t.pc = k /\ t.fresh = f /\ t.to = sync.to /\ t.chunk = sync.chunk
  BY <1>1 DEF SyncOK
<1>4. sync' = t
  BY <1>1
<1> QED  BY <1>2, <1>3, <1>4 DEF SyncOK

(* The sync that has ended holds nothing.                                  *)
LEMMA EndsIdle ==
  ASSUME date \in Nat, date' = date, sync' = NoSync
  PROVE  SyncOK(sync)' /\ sync'.pc = "idle" /\ sync'.chunk = Nil
BY DEF SyncOK, NoSync

(* What the types of a sync, and of what it holds, come from.              *)
LEMMA Holds ==
  ASSUME HistoryInv
  PROVE  /\ WorldTypes /\ date \in Nat /\ LocalOK(local) /\ SyncOK(sync) /\ SyncInv
         /\ (Loaded => PayloadOK(payload)) /\ CursorsOf(local) /\ Told(conf) /\ ServerInv
         /\ Nil \notin Int /\ Now \in Int /\ YearStart(Now) \in Int /\ FirstEnd(date) \in Int
BY HistoryAssumption, YearOf, FirstEndOf DEF HistoryInv, HTypes, WorldTypes, CursorsInv, Now

(* When the connector's local state and its snapshot are left alone.       *)
LEMMA QuietSync ==
  ASSUME HistoryInv, UNCHANGED <<date, remote, covered, conf, notes, local, payload>>,
         Loaded' => Loaded, SyncOK(sync)', SyncInv'
  PROVE  HistoryInv'
<1>1. LocalOK(local)'
  BY Holds DEF LocalOK
<1>2. Loaded' => PayloadOK(payload)'
  <2>1. PICK p : p = payload
    OBVIOUS
  <2>2. Moves
    BY DEF Moves, notes
  <2>3. PayloadOK(p) => PayloadOK(p)'
    BY <2>2, MovesKeep
  <2>4. PayloadOK(payload)' = PayloadOK(p)'
    BY <2>1
  <2> QED  BY <2>1, <2>3, <2>4, Holds
<1> QED  BY <1>1, <1>2, Quiet

(* A sync dies, or ends.                                                   *)
LEMMA IdleKeeps ==
  ASSUME HistoryInv, UNCHANGED <<date, remote, covered, conf, notes, local, payload>>, sync' = NoSync
  PROVE  HistoryInv'
<1>1. SyncOK(sync)' /\ sync'.pc = "idle" /\ sync'.chunk = Nil
  BY Holds, EndsIdle
<1>2. SyncInv'
  BY <1>1 DEF SyncInv
<1>3. Loaded' => Loaded
  BY <1>1 DEF Loaded
<1> QED  BY <1>1, <1>2, <1>3, QuietSync

(* A sync begins: everything the server has is of its year or before.      *)
LEMMA BeginKeeps ==
  ASSUME HistoryInv, BeginSync
  PROVE  HistoryInv'
<1>1. PICK automatic, full \in BOOLEAN :
        sync' = [NoSync EXCEPT !.pc = "range", !.to = date, !.full = full,
                              !.most = IF automatic THEN 1 ELSE YearLength]
  BY DEF BeginSync, Goes
<1>2. PICK t : t = [NoSync EXCEPT !.pc = "range", !.to = date, !.full = full,
                              !.most = IF automatic THEN 1 ELSE YearLength]
  OBVIOUS
<1>3. t = [pc |-> t.pc, to |-> t.to, full |-> t.full, most |-> t.most, chunk |-> t.chunk,
          fresh |-> t.fresh, tried |-> t.tried, chunks |-> t.chunks]
  BY <1>2 DEF NoSync
<1>4. t.pc = "range" /\ t.to = date /\ t.chunk = Nil
  BY <1>2 DEF NoSync
<1>5. sync' = t /\ UNCHANGED <<date, remote, covered, conf, notes, local, payload>> /\ sync.pc = "idle"
  BY <1>1, <1>2 DEF BeginSync
<1>6. SyncOK(sync)'
  BY <1>3, <1>4, <1>5, Holds DEF SyncOK
<1>7. Loaded' => Loaded
  BY <1>4, <1>5 DEF Loaded
<1>8. remote.status.year <= Year(date) /\ (Loaded => Year(payload.to) <= Year(date))
  <2>2. Loaded => Year(payload.to) <= Year(date)
    BY Holds DEF PayloadOK, Now
  <2> QED  BY <2>2, Holds DEF WorldTypes, Now
<1>9. SyncInv'
  <2>1. sync'.pc = "range" /\ sync'.chunk = Nil /\ sync'.to = date
    BY <1>4, <1>5
  <2>2. remote' = remote /\ payload' = payload
    BY <1>5
  <2> QED  BY <1>7, <1>8, <2>1, <2>2 DEF SyncInv, Year
<1> QED  BY <1>5, <1>6, <1>7, <1>9, QuietSync

(* What waits is delivered first.                                          *)
LEMMA FirstDeliverKeeps ==
  ASSUME HistoryInv, FirstDeliver
  PROVE  HistoryInv'
<1>1. /\ UNCHANGED <<date, remote, covered, conf, notes, local, payload>>
      /\ sync.pc = "range" /\ payload # Nil /\ sync' = [sync EXCEPT !.pc = "post"]
  BY DEF FirstDeliver, Goes
<1>2. SyncOK(sync)' /\ sync'.pc = "post" /\ sync'.chunk = sync.chunk /\ sync'.to = sync.to
  BY <1>1, Holds, GoesOn
<1>3. Loaded
  BY <1>1 DEF Loaded
<1>4. SyncInv'
  BY <1>1, <1>2, <1>3, Holds DEF SyncInv, Year
<1> QED  BY <1>1, <1>2, <1>3, <1>4, QuietSync

(* An automatic sync that has nothing new to send.                         *)
LEMMA UnchangedKeeps ==
  ASSUME HistoryInv, RollingUnchanged
  PROVE  HistoryInv'
<1>1. /\ UNCHANGED <<date, remote, covered, conf, notes, local, payload>>
      /\ sync.pc = "collect" /\ sync.chunk = Nil /\ sync' = [sync EXCEPT !.pc = "next"]
  BY DEF RollingUnchanged, Goes
<1>2. SyncOK(sync)' /\ sync'.pc = "next" /\ sync'.chunk = sync.chunk /\ sync'.to = sync.to
  BY <1>1, Holds, GoesOn
<1>3. payload' = Nil
  BY <1>1, Holds DEF SyncInv
<1>4. ~Loaded'
  BY <1>2, <1>3 DEF Loaded
<1>5. SyncInv'
  BY <1>1, <1>2, <1>3, <1>4, Holds DEF SyncInv, Year
<1> QED  BY <1>1, <1>2, <1>4, <1>5, QuietSync

(* A collection fails.                                                     *)
LEMMA FailsKeeps ==
  ASSUME HistoryInv, CollectFails
  PROVE  HistoryInv'
<1>1. /\ UNCHANGED <<date, remote, covered, conf, notes, local, payload>>
      /\ sync.pc = "collect"
      /\ sync' = IF sync.chunk = Nil THEN [sync EXCEPT !.pc = "next"] ELSE NoSync
  BY DEF CollectFails, Goes
<1>2. CASE sync' = NoSync
  BY <1>1, <1>2, IdleKeeps
<1>3. CASE sync.chunk = Nil /\ sync' = [sync EXCEPT !.pc = "next"]
  <2>2. SyncOK(sync)' /\ sync'.pc = "next" /\ sync'.chunk = sync.chunk /\ sync'.to = sync.to
    BY <1>1, <1>3, Holds, GoesOn
  <2>3. payload' = Nil
    BY <1>1, Holds DEF SyncInv
  <2>4. ~Loaded'
    BY <2>2, <2>3 DEF Loaded
  <2>5. SyncInv'
    BY <1>1, <1>3, <2>2, <2>3, <2>4, Holds DEF SyncInv, Year
  <2> QED  BY <1>1, <2>2, <2>4, <2>5, QuietSync
<1> QED  BY <1>1, <1>2, <1>3

(* The next chunk is taken from a cursor of this year.                     *)
LEMMA NextChunkKeeps ==
  ASSUME HistoryInv, NextChunk
  PROVE  HistoryInv'
<1>1. /\ UNCHANGED <<date, remote, covered, conf, notes, local, payload>>
      /\ sync.pc = "next" /\ Eligible(local.cursor)
      /\ sync' = [sync EXCEPT !.pc = "range", !.chunk = ChunkOf(local.cursor),
                       !.tried = @ \cup {CursorKey(local.cursor)}, !.chunks = @ + 1]
  BY DEF NextChunk, Goes
<1>2. local.cursor # Nil /\ local.cursor.year = Now /\ CursorOK(local.cursor)
  BY <1>1, Holds DEF Eligible, CursorsOf, Now
<1>3. PICK k : k = ChunkOf(local.cursor)
  OBVIOUS
<1>4. k = [from |-> k.from, to |-> k.to] /\ k.from \in Int /\ k.to \in Int
  BY <1>2, <1>3, HistoryAssumption DEF ChunkOf, CursorOK, Highest
<1>5. k # Nil
  BY <1>4, HistoryAssumption
<1>6. PICK t : t = [sync EXCEPT !.pc = "range", !.chunk = k,
                       !.tried = @ \cup {CursorKey(local.cursor)}, !.chunks = @ + 1]
  OBVIOUS
<1>7. t = [pc |-> t.pc, to |-> t.to, full |-> t.full, most |-> t.most, chunk |-> t.chunk,
          fresh |-> t.fresh, tried |-> t.tried, chunks |-> t.chunks]
  BY <1>6, Holds DEF SyncOK
<1>8. t.pc = "range" /\ t.to = sync.to /\ t.chunk = k
  BY <1>6, Holds DEF SyncOK
<1>9. sync' = t
  BY <1>1, <1>3, <1>6
<1>10. SyncOK(sync)'
  BY <1>1, <1>4, <1>7, <1>8, <1>9, Holds DEF SyncOK
<1>11. payload' = Nil
  BY <1>1, Holds DEF SyncInv
<1>12. sync'.pc = "range" /\ sync'.chunk = k /\ sync'.to = sync.to /\ ~Loaded'
  BY <1>8, <1>9, <1>11 DEF Loaded
<1>13. remote.status.year <= local.cursor.year
  BY <1>2, Holds DEF WorldTypes
<1>14. SyncInv'
  BY <1>1, <1>5, <1>11, <1>12, <1>13 DEF SyncInv
<1> QED  BY <1>1, <1>10, <1>12, <1>14, QuietSync

(* The rolling range of a sync is a sound snapshot.                        *)
LEMMA RollingOK ==
  ASSUME HistoryInv, sync.pc = "collect", sync.chunk = Nil, NEW complete \in BOOLEAN
  PROVE  PayloadOK(RollingSnapshot(sync.to, complete)) /\ RollingSnapshot(sync.to, complete).to = sync.to
<1> DEFINE to == sync.to
           from == to - RangeDays + 1
           start == YearStart(Year(to))
<1>1. /\ to \in Int /\ to <= date /\ remote.status.year <= Year(to)
      /\ Year(to) = Now => Known(Now)
      /\ Year(to) <= Now
  BY Holds, YearOrder DEF SyncOK, SyncInv, Now
<1>2. /\ RangeDays \in Nat /\ RangeDays > 0 /\ start \in Int /\ date \in Int
      /\ Nil # "complete" /\ Nil # "partial"
  BY <1>1, Holds, YearOf, HistoryAssumption
<1>3. from \in Int /\ from <= to
  BY <1>1, <1>2
<1>4. PICK p : p = RollingSnapshot(to, complete)
  OBVIOUS
<1>5. CASE from > start
  <2>1. p = Snapshot("rolling", from, to, complete, Nil, Nil)
    BY <1>4, <1>5 DEF RollingSnapshot
  <2>2. /\ p.kind = "rolling" /\ p.from = from /\ p.to = to /\ p.complete = complete /\ p.yearIs = Nil
        /\ p.advance = Nil
    BY <2>1 DEF Snapshot
  <2>3. Year(to) = Now => YearStart(Now) <= FirstEnd(date)
    BY <1>1, <1>2, <1>5, Holds, FirstEndOf
  <2> HIDE DEF to, from, start
  <2>4. PayloadOK(p) /\ p.to = to
    BY <1>1, <1>3, <2>1, <2>2, <2>3 DEF PayloadOK
  <2> QED  BY <1>4, <2>4 DEF to
<1>6. CASE ~(from > start)
  <2>1. p = Snapshot("rolling", from, to, complete, Word(complete),
                   Advance("initial", Year(to), start, Nil, ~complete, Word(complete)))
    BY <1>4, <1>6 DEF RollingSnapshot
  <2>2. /\ p.kind = "rolling" /\ p.from = from /\ p.to = to /\ p.complete = complete
        /\ p.yearIs = Word(complete)
        /\ p.advance = Advance("initial", Year(to), start, Nil, ~complete, Word(complete))
    BY <2>1 DEF Snapshot
  <2>3. p.advance.is = p.yearIs /\ p.advance.mode = "initial" /\ p.advance.year = Year(to)
    BY <2>2 DEF Advance
  <2>4. p.yearIs \in Terminated /\ p.yearIs # Nil
    BY <1>2, <2>2 DEF Word, Terminated
  <2>5. from <= start
    BY <1>2, <1>3, <1>6
  <2>6. p = Snapshot(p.kind, p.from, p.to, p.complete, p.yearIs, p.advance)
    BY <2>1, <2>2
  <2>7. p.from <= YearStart(Year(p.to))
    BY <2>2, <2>5
  <2> HIDE DEF to, from, start
  <2>8. PayloadOK(p) /\ p.to = to
    BY <1>1, <1>3, <2>2, <2>3, <2>4, <2>6, <2>7 DEF PayloadOK
  <2> QED  BY <1>4, <2>8 DEF to
<1> QED  BY <1>5, <1>6

(* A snapshot is as sound as before while the world is as before.          *)
LEMMA PayloadStays ==
  ASSUME HistoryInv, UNCHANGED <<date, remote, covered, conf, notes>>, PayloadOK(payload')
  PROVE  PayloadOK(payload)'
<1>1. PICK p : p = payload'
  OBVIOUS
<1>2. PayloadOK(p)
  BY <1>1
<1>3. Moves
  BY DEF Moves, notes
<1>4. PayloadOK(p)'
  BY <1>2, <1>3, MovesKeep
<1> QED  BY <1>1, <1>4

(* The rolling range is collected.                                         *)
LEMMA RollingKeeps ==
  ASSUME HistoryInv, CollectRolling
  PROVE  HistoryInv'
<1>1. /\ UNCHANGED <<date, remote, covered, conf, notes>>
      /\ sync.pc = "collect" /\ sync.chunk = Nil
      /\ sync' = [sync EXCEPT !.pc = "post", !.fresh = TRUE]
      /\ local' = [local EXCEPT !.generation = generations']
  BY DEF CollectRolling, Goes
<1>2. SyncOK(sync)' /\ sync'.pc = "post" /\ sync'.chunk = sync.chunk /\ sync'.to = sync.to
  BY <1>1, Holds, GoesFresh
<1>3. PayloadOK(payload') /\ payload'.to = sync.to
  <2>1. PICK complete \in BOOLEAN : payload' = RollingSnapshot(sync.to, complete)
    BY DEF CollectRolling
  <2> QED  BY <1>1, <2>1, RollingOK
<1>4. PayloadOK(payload)'
  BY <1>1, <1>3, PayloadStays
<1>5. LocalOK(local)' /\ local'.cursor = local.cursor /\ local'.retry = local.retry
  BY <1>1, Holds DEF LocalOK
<1>6. SyncInv'
  <2>1. remote.status.year <= Year(sync.to)
    BY <1>1, Holds DEF SyncInv
  <2>2. Year(sync.to) <= Year(sync.to)
    BY Holds, YearOf DEF SyncOK
  <2> QED  BY <1>1, <1>2, <1>3, <2>1, <2>2 DEF SyncInv, Year
<1> QED  BY <1>1, <1>2, <1>4, <1>5, <1>6, Quiet

(* The chunk of the current cursor is a sound snapshot.                    *)
LEMMA ChunkOK ==
  ASSUME HistoryInv, sync.pc = "collect", sync.chunk # Nil, Current(sync.chunk), NEW complete \in BOOLEAN
  PROVE  PayloadOK(ChunkSnapshot(local.cursor, sync.chunk.from, sync.chunk.to, complete))
<1>1. PICK c : c = local.cursor
  OBVIOUS
<1>2. PICK from, to : from = sync.chunk.from /\ to = sync.chunk.to
  OBVIOUS
<1>3. /\ c # Nil /\ CursorOK(c) /\ c.year = Year(to) /\ c.next = to
      /\ from \in Int /\ to \in Int /\ remote.status.year <= c.year
  BY <1>1, <1>2, Holds DEF Current, CursorsOf, SyncOK, SyncInv
<1>4. Nil # "complete" /\ Nil # "partial"
  BY HistoryAssumption
<1>5. PICK p : p = ChunkSnapshot(c, from, to, complete)
  OBVIOUS
<1>6. PICK partial : partial = (c.partial \/ ~complete)
  OBVIOUS
<1>7. PICK is : is = IF from = c.start THEN Word(~partial) ELSE Nil
  OBVIOUS
<1> DEFINE yearIs == IF c.start = YearStart(c.year) THEN is ELSE Nil
           a == Advance(c.mode, c.year, c.start, IF is = Nil THEN from - 1 ELSE Nil, partial, is)
<1>8. p = Snapshot("chunk", from, to, complete, yearIs, a)
  BY <1>5, <1>6, <1>7 DEF ChunkSnapshot
<1>9. is \in Terminated \cup {Nil} /\ (is # Nil => from = c.start)
  BY <1>7 DEF Word, Terminated
<1>10. /\ p.kind = "chunk" /\ p.from = from /\ p.to = to /\ p.complete = complete
       /\ p.yearIs = yearIs /\ p.advance = a
  BY <1>8 DEF Snapshot
<1>11. /\ a.year = c.year /\ a.is = is /\ a.mode = c.mode /\ a.start = c.start
       /\ is = Nil => a.next = from - 1
  BY DEF Advance
<1> HIDE DEF a
<1>12. p = Snapshot(p.kind, p.from, p.to, p.complete, p.yearIs, p.advance)
  BY <1>8, <1>10
<1>13. /\ yearIs \in Terminated \cup {Nil}
       /\ yearIs # Nil => from = YearStart(c.year) /\ yearIs = is
       /\ c.mode # "gap" => yearIs = is
  BY <1>3, <1>9 DEF CursorOK
<1> HIDE DEF yearIs
<1>14. CursorOK([mode |-> a.mode, year |-> a.year, start |-> a.start, next |-> p.to])
  <2>1. PICK x : x = [mode |-> a.mode, year |-> a.year, start |-> a.start, next |-> p.to]
    OBVIOUS
  <2>2. x.mode = c.mode /\ x.year = c.year /\ x.start = c.start /\ x.next = c.next
    BY <1>3, <1>10, <1>11, <2>1
  <2>3. CursorOK(x)
    BY <1>3, <2>2 DEF CursorOK
  <2> QED  BY <2>1, <2>3
<1>15. Year(to) <= Now
  BY <1>3 DEF CursorOK
<1>16. PayloadOK(p)
  BY <1>3, <1>9, <1>10, <1>11, <1>12, <1>13, <1>14, <1>15 DEF PayloadOK
<1> QED  BY <1>1, <1>2, <1>5, <1>16

(* A chunk is collected.                                                   *)
LEMMA ChunkKeeps ==
  ASSUME HistoryInv, CollectChunk
  PROVE  HistoryInv'
<1>1. /\ UNCHANGED <<date, remote, covered, conf, notes, local>>
      /\ sync.pc = "collect" /\ sync.chunk # Nil /\ Current(sync.chunk)
      /\ sync' = [sync EXCEPT !.pc = "post", !.fresh = TRUE]
  BY DEF CollectChunk, Goes
<1>2. SyncOK(sync)' /\ sync'.pc = "post" /\ sync'.chunk = sync.chunk /\ sync'.to = sync.to /\ sync'.fresh
  BY <1>1, Holds, GoesFresh
<1>3. PayloadOK(payload')
  <2>1. PICK complete \in BOOLEAN :
          payload' = ChunkSnapshot(local.cursor, sync.chunk.from, sync.chunk.to, complete)
    BY DEF CollectChunk
  <2> QED  BY <1>1, <2>1, ChunkOK
<1>4. PayloadOK(payload)'
  BY <1>1, <1>3, PayloadStays
<1>5. LocalOK(local)'
  BY <1>1, Holds DEF LocalOK
<1>6. SyncInv'
  BY <1>1, <1>2 DEF SyncInv
<1> QED  BY <1>1, <1>2, <1>4, <1>5, <1>6, Quiet

(* A day passes.                                                           *)
LEMMA DayKeeps ==
  ASSUME HistoryInv, DayPasses
  PROVE  HistoryInv'
<1>1. date' = date + 1 /\ UNCHANGED <<remote, covered, conf, local, payload, sync, begun, overlooked>>
  BY DEF DayPasses, notes
<1>2. Moves
  BY <1>1 DEF Moves
<1>3. WorldTypes' /\ ServerInv' /\ RolledInv' /\ TerminatedInv'
  BY <1>2, MovesKeep
<1>4. Told(conf)'
  <2>1. PICK c : c = conf
    OBVIOUS
  <2>2. Told(c)'
    BY <1>2, <2>1, Holds, MovesKeep
  <2> QED  BY <1>1, <2>1, <2>2
<1>5. CursorsOf(local)'
  <2>1. PICK s : s = local
    OBVIOUS
  <2>2. CursorsOf(s)'
    BY <1>2, <2>1, Holds, CursorsMove
  <2> QED  BY <1>1, <2>1, <2>2
<1>6. Loaded' => PayloadOK(payload)'
  <2>1. PICK p : p = payload
    OBVIOUS
  <2>2. PayloadOK(p) => PayloadOK(p)'
    BY <1>2, MovesKeep
  <2>3. Loaded' = Loaded
    BY <1>1 DEF Loaded
  <2> QED  BY <1>1, <2>1, <2>2, <2>3, Holds
<1>7. LocalOK(local)' /\ SyncOK(sync)'
  BY <1>1, Holds DEF LocalOK, SyncOK
<1>8. SyncInv'
  <2>1. Year(sync.to) \in Int /\ Year(sync.to) <= Now
    BY Holds, YearOf, YearOrder DEF SyncOK, Now
  <2>2. sync.pc = "collect" /\ Year(sync.to) = Now' => Known(Now)'
    <3>1. Year(sync.to) = Now' => Now' = Now
      BY <2>1, <1>2, NowMoves, Holds
    <3>2. PICK y : y = Now
      OBVIOUS
    <3>3. Known(y)' = Known(y) /\ (Now' = Now => Known(Now)' = Known(y)')
      BY <1>1, <3>2 DEF Known
    <3> QED  BY <3>1, <3>2, <3>3, Holds DEF SyncInv
  <2>3. Loaded' = Loaded
    BY <1>1 DEF Loaded
  <2>4. Obs' = Obs
    BY <1>1 DEF Obs
  <2> HIDE DEF Known, Now, Obs, Loaded
  <2> QED  BY <1>1, <2>2, <2>3, <2>4, Holds DEF SyncInv, Year, Reported, Max, Min
<1> QED  BY <1>3, <1>4, <1>5, <1>6, <1>7, <1>8 DEF HistoryInv, HTypes, CursorsInv

(* A step that reconciles the cursors.                                     *)
LEMMA Reconciles ==
  ASSUME HistoryInv, UNCHANGED <<date, remote, covered, overlooked>>, begun' = Begun,
         Told(conf'), LocalOK(local)', CursorsOf(local)',
         SyncOK(sync)', SyncInv', (Loaded' => Loaded /\ payload' = payload)
  PROVE  HistoryInv'
<1>1. Moves
  BY DEF Moves
<1>2. WorldTypes' /\ ServerInv' /\ RolledInv' /\ TerminatedInv'
  BY <1>1, MovesKeep
<1>3. Told(conf)'
  <2>1. PICK c : c = conf'
    OBVIOUS
  <2>2. Told(c)'
    BY <1>1, <2>1, MovesKeep
  <2> QED  BY <2>1, <2>2
<1>4. Loaded' => PayloadOK(payload)'
  <2>1. SUFFICES ASSUME Loaded'
                 PROVE  PayloadOK(payload)'
    OBVIOUS
  <2>2. PICK p : p = payload
    OBVIOUS
  <2>3. PayloadOK(p)'
    BY <1>1, <2>1, <2>2, Holds, MovesKeep
  <2> QED  BY <2>1, <2>2, <2>3
<1> QED  BY <1>2, <1>3, <1>4 DEF HistoryInv, HTypes, CursorsInv

(* The cursors are reconciled before a collection.                         *)
LEMMA ReconcileKeeps ==
  ASSUME HistoryInv, ReconcileState
  PROVE  HistoryInv'
<1>1. /\ sync.pc = "range" /\ payload = Nil /\ UNCHANGED <<date, remote, covered, payload, overlooked>>
      /\ begun' = Begun /\ conf' \in {conf, Reported(remote)}
      /\ local' = IF sync.full /\ sync.chunk = Nil THEN Prepared(Reconciled(local, conf', date), date)
                  ELSE Reconciled(local, conf', date)
      /\ sync' = [sync EXCEPT !.pc = "collect"]
  BY DEF ReconcileState, Goes
<1>2. Moves
  BY <1>1 DEF Moves
<1>3. Told(conf')
  BY <1>1, Holds, ReportedTold
<1>4. PICK c, r : c = conf' /\ r = Reconciled(local, c, date)
  OBVIOUS
<1>5. LocalOK(r) /\ CursorsOf(r)' /\ (r.cursor \in {local.cursor, Nil} \/ r.cursor.year = Now)
  <2>1. PICK s : s = local
    OBVIOUS
  <2>2. LocalOK(s) /\ CursorsOf(s) /\ Told(c) /\ WorldTypes
    BY <1>3, <1>4, <2>1, Holds
  <2>3. LocalOK(r) /\ CursorsOf(r)' /\ (r.cursor \in {s.cursor, Nil} \/ r.cursor.year = Now)
    BY <1>1, <1>2, <1>4, <2>1, <2>2, ReconciledOK
  <2> QED  BY <2>1, <2>3
<1>6. PICK q : q = Prepared(r, date)
  OBVIOUS
<1>7. LocalOK(q) /\ CursorsOf(q)' /\ (q.cursor = r.cursor \/ q.cursor.year = Now)
  BY <1>1, <1>2, <1>5, <1>6, Holds, PreparedOK
<1>8. PICK z : z = local'
  OBVIOUS
<1>9. z \in {r, q}
  BY <1>1, <1>4, <1>6, <1>8
<1>10. LocalOK(z) /\ CursorsOf(z)' /\ (z.cursor \in {local.cursor, Nil} \/ z.cursor.year = Now)
  BY <1>5, <1>7, <1>9
<1>11. LocalOK(local)' /\ CursorsOf(local)'
  BY <1>8, <1>10 DEF LocalOK
<1>12. SyncOK(sync)' /\ sync'.pc = "collect" /\ sync'.chunk = sync.chunk /\ sync'.to = sync.to
  BY <1>1, Holds, GoesOn
<1>13. ~Loaded'
  BY <1>1, <1>12 DEF Loaded
<1>14. Known(Now)'
  BY <1>1 DEF Known, Now, Begun, Year
<1>15. sync.chunk # Nil => (local'.cursor # Nil => remote.status.year <= local'.cursor.year)
  <2>1. sync.chunk # Nil => (local.cursor # Nil => remote.status.year <= local.cursor.year)
    BY <1>1, Holds DEF SyncInv
  <2>2. remote.status.year <= Now
    BY Holds DEF WorldTypes
  <2> QED  BY <1>8, <1>10, <2>1, <2>2
<1>16. sync.chunk = Nil => remote.status.year <= Year(sync.to)
  BY <1>1, Holds DEF SyncInv
<1>17. SyncInv'
  BY <1>1, <1>12, <1>13, <1>14, <1>15, <1>16 DEF SyncInv, Year
<1> QED  BY <1>1, <1>3, <1>11, <1>12, <1>13, <1>17, Reconciles

(* The server's answer is remembered.                                      *)
LEMMA RememberKeeps ==
  ASSUME HistoryInv, RememberReport
  PROVE  HistoryInv'
<1>1. /\ sync.pc = "remember" /\ UNCHANGED <<date, remote, covered, payload, overlooked>>
      /\ begun' = Begun /\ conf' = Reported(remote)
      /\ local' = Reconciled(local, conf', date)
      /\ sync' = [sync EXCEPT !.pc = "apply"]
  BY DEF RememberReport, Goes
<1>2. Moves
  BY <1>1 DEF Moves
<1>3. Told(conf')
  BY <1>1, Holds, ReportedTold
<1>4. LocalOK(local)' /\ CursorsOf(local)'
  <2>1. PICK s, c, r : s = local /\ c = conf' /\ r = Reconciled(s, c, date)
    OBVIOUS
  <2>2. LocalOK(s) /\ CursorsOf(s) /\ Told(c) /\ WorldTypes
    BY <1>3, <2>1, Holds
  <2>3. LocalOK(r) /\ CursorsOf(r)'
    BY <1>1, <1>2, <2>1, <2>2, ReconciledOK
  <2>4. local' = r
    BY <1>1, <2>1
  <2> QED  BY <2>3, <2>4 DEF LocalOK
<1>5. /\ SyncOK(sync)' /\ sync'.pc = "apply" /\ sync'.chunk = sync.chunk /\ sync'.to = sync.to
      /\ sync'.fresh = sync.fresh
  BY <1>1, Holds, GoesOn
<1>6. Loaded
  BY <1>1 DEF Loaded
<1>7. conf' = Reported(remote)'
  BY <1>1 DEF Reported
<1>8. Obs' = Obs
  BY <1>1 DEF Obs
<1>9. SyncInv'
  <2> HIDE DEF Obs, Known, Now, Loaded
  <2> QED  BY <1>1, <1>5, <1>6, <1>7, <1>8, Holds DEF SyncInv, Year
<1> QED  BY <1>1, <1>3, <1>4, <1>5, <1>6, <1>9, Reconciles

(* The advance does not change what the server reported.                   *)
LEMMA ConfStays ==
  ASSUME HistoryInv, sync.pc = "apply"
  PROVE  AdvancedConf(conf, payload.advance) = conf
<1> DEFINE a == payload.advance
<1>1. PayloadOK(payload) /\ conf = Reported(remote) /\ remote.status.year = Year(payload.to)
        /\ (payload.yearIs # Nil => remote.status.is = payload.yearIs)
  BY Holds DEF Loaded, SyncInv
<1>2. CASE a = Nil \/ a.is = Nil \/ a.mode = "gap"
  BY <1>2 DEF AdvancedConf
<1>3. CASE a # Nil /\ a.is # Nil /\ a.mode # "gap"
  <2>1. a.year = Year(payload.to) /\ payload.yearIs = a.is
    BY <1>1, <1>3 DEF PayloadOK
  <2>2. remote.status = YearStatus(a.year, a.is)
    BY <1>1, <1>3, <2>1, Holds DEF WorldTypes
  <2>3. conf.status = remote.status /\ conf = [status |-> conf.status, gap |-> conf.gap]
    BY <1>1 DEF Reported
  <2> HIDE DEF a
  <2>4. [conf EXCEPT !.status = YearStatus(a.year, a.is)] = conf
    BY <2>2, <2>3
  <2>5. AdvancedConf(conf, a) = [conf EXCEPT !.status = YearStatus(a.year, a.is)]
    BY <1>3 DEF AdvancedConf
  <2> QED  BY <2>4, <2>5 DEF a
<1> QED  BY <1>2, <1>3

(* The cursor a chunk moves on leaves behind what was observed.            *)
LEMMA AdvanceOK ==
  ASSUME HistoryInv, sync.pc = "apply", payload.advance.is = Nil, payload.advance # Nil
  PROVE  LET a == payload.advance
         IN  /\ a.next \in Int
             /\ CursorOK([[mode |-> a.mode, year |-> a.year, start |-> a.start, next |-> a.next, partial |-> FALSE]
                            EXCEPT !.partial = a.partial])
<1> DEFINE a == payload.advance
<1>1. PayloadOK(payload) /\ remote.status.year = Year(payload.to)
  BY Holds DEF Loaded, SyncInv
<1>2. payload.kind = "chunk"
  BY <1>1 DEF PayloadOK
<1>3. PICK to, from : to = payload.to /\ from = payload.from
  OBVIOUS
<1>4. PICK c : c = [mode |-> a.mode, year |-> a.year, start |-> a.start, next |-> to]
  OBVIOUS
<1>5. /\ a.year = Year(to) /\ a.next = from - 1 /\ from \in Int /\ to \in Int /\ CursorOK(c)
      /\ remote.status.year = Year(to)
  BY <1>1, <1>2, <1>3, <1>4 DEF PayloadOK
<1>6. \A d \in Int : from <= d /\ d <= to /\ Year(d) = Year(to) => d \in Obs
  BY <1>3, Holds DEF SyncInv
<1>7. PICK x : x = [[mode |-> a.mode, year |-> a.year, start |-> a.start, next |-> a.next, partial |-> FALSE]
                       EXCEPT !.partial = a.partial]
  OBVIOUS
<1>8. x.mode = a.mode /\ x.year = a.year /\ x.start = a.start /\ x.next = a.next
  BY <1>7
<1>9. c.mode = a.mode /\ c.year = a.year /\ c.start = a.start /\ c.next = to
  BY <1>4
<1> HIDE DEF a
<1>10. x.mode # "gap" /\ x.year >= remote.status.year => Whole(x.year, x.next)
  <2>1. SUFFICES ASSUME x.mode # "gap", x.year >= remote.status.year,
                        NEW b \in begun, Year(b) = x.year,
                        NEW d \in Int, YearStart(x.year) <= d, x.next < d, d <= FirstEnd(b)
                 PROVE  d \in Obs
    BY DEF Whole
  <2>2. Whole(c.year, to)
    BY <1>8, <1>9, <1>5, <2>1 DEF CursorOK
  <2>3. CASE to < d
    BY <1>8, <1>9, <2>1, <2>2, <2>3 DEF Whole
  <2>4. CASE d <= to
    <3>1. b \in Int /\ FirstEnd(b) < b /\ FirstEnd(b) \in Int
      BY <2>1, Holds, FirstEndOf DEF WorldTypes
    <3>2. Year(d) = Year(b)
      BY <2>1, <3>1, InYear
    <3>3. from <= d
      BY <1>5, <1>8, <2>1
    <3> QED  BY <1>5, <1>6, <1>8, <2>1, <2>4, <3>2, <3>3
  <2> QED  BY <1>5, <2>1, <2>3, <2>4
<1>11. a.next \in Int
  BY <1>5
<1>12. CursorOK(x)
  <2>1. x.mode = c.mode /\ x.year = c.year /\ x.start = c.start /\ x.next \in Int
    BY <1>8, <1>9, <1>11
  <2> HIDE DEF Whole
  <2> QED  BY <1>5, <1>10, <2>1 DEF CursorOK
<1> QED  BY <1>7, <1>11, <1>12 DEF a

(* The acknowledged snapshot advances its cursor.                          *)
LEMMA ApplyKeeps ==
  ASSUME HistoryInv, ApplyAdvance
  PROVE  HistoryInv'
<1>1. /\ sync.pc = "apply" /\ UNCHANGED <<date, remote, covered, overlooked>>
      /\ begun' = Begun /\ conf' = AdvancedConf(conf, payload.advance) /\ payload' = Nil
      /\ local' = Advanced(local, conf, payload.advance, date)
      /\ sync' = [sync EXCEPT !.pc = IF sync.fresh THEN "next" ELSE "range", !.fresh = FALSE]
  BY DEF ApplyAdvance, Goes
<1>2. Moves
  BY <1>1 DEF Moves
<1>3. conf' = conf /\ Told(conf')
  BY <1>1, Holds, ConfStays
<1>4. LocalOK(local)' /\ CursorsOf(local)'
  <2>1. PICK a, s, c, z : a = payload.advance /\ s = local /\ c = conf /\ z = local'
    OBVIOUS
  <2>2. z = Advanced(s, c, a, date)
    BY <1>1, <2>1
  <2>3. LocalOK(s) /\ CursorsOf(s) /\ CursorsOf(s)' /\ Told(c)
    BY <1>2, <2>1, Holds, CursorsMove
  <2>4. CASE a = Nil
    <3>1. z = s
      BY <2>2, <2>4 DEF Advanced
    <3> QED  BY <2>1, <2>3, <3>1 DEF LocalOK
  <2>5. CASE a # Nil /\ a.is = Nil
    <3>1. PICK x : x = [[mode |-> a.mode, year |-> a.year, start |-> a.start, next |-> a.next, partial |-> FALSE]
                          EXCEPT !.partial = a.partial]
      OBVIOUS
    <3>2. z = [s EXCEPT !.cursor = x]
      BY <2>2, <2>5, <3>1 DEF Advanced, Cursor
    <3>3. z = [cursor |-> x, retry |-> s.retry, attempt |-> s.attempt, generation |-> s.generation]
      BY <2>3, <3>2 DEF LocalOK
    <3>4. CursorOK(x)
      BY <1>1, <2>1, <2>5, <3>1, AdvanceOK
    <3>5. CursorOK(x)'
      BY <1>2, <3>4, MovesKeep
    <3>6. CursorsOf(z)' /\ LocalOK(z)
      BY <2>3, <3>3, <3>5 DEF CursorsOf, LocalOK
    <3> QED  BY <2>1, <3>6 DEF LocalOK
  <2>6. CASE a # Nil /\ a.is # Nil
    <3>1. PICK t : t = [s EXCEPT !.cursor = Nil,
                   !.retry = IF a.mode = "full" THEN Nil ELSE @,
                   !.attempt = IF a.mode # "initial" /\ a.is = "partial" /\ c.gap # Nil
                               THEN Attempt(a, c.gap, s.generation) ELSE @]
      OBVIOUS
    <3>2. t = [s EXCEPT !.cursor = Nil,
                   !.retry = IF a.mode = "full" THEN Nil ELSE s.retry,
                   !.attempt = IF a.mode # "initial" /\ a.is = "partial" /\ c.gap # Nil
                               THEN Attempt(a, c.gap, s.generation) ELSE s.attempt]
      BY <3>1
    <3>3. t = [cursor |-> Nil, retry |-> IF a.mode = "full" THEN Nil ELSE s.retry,
               attempt |-> IF a.mode # "initial" /\ a.is = "partial" /\ c.gap # Nil
                           THEN Attempt(a, c.gap, s.generation) ELSE s.attempt,
               generation |-> s.generation]
      BY <2>3, <3>2, CursorRetryAttempt DEF LocalOK
    <3>4. t.cursor = Nil /\ t.retry \in {s.retry, Nil} /\ LocalOK(t)
      BY <3>3 DEF LocalOK
    <3>5. CursorsOf(t)
      BY <2>3, <3>4, Holds DEF CursorsOf
    <3>6. z = Reconciled(t, AdvancedConf(c, a), date)
      BY <2>2, <2>6, <3>1 DEF Advanced
    <3>7. AdvancedConf(c, a) = c
      BY <1>1, <2>1, ConfStays
    <3>8. LocalOK(z) /\ CursorsOf(z)'
      BY <1>1, <1>2, <2>3, <3>4, <3>5, <3>6, <3>7, Holds, ReconciledOK
    <3> QED  BY <2>1, <3>8 DEF LocalOK
  <2> QED  BY <2>4, <2>5, <2>6
<1>5. /\ SyncOK(sync)' /\ sync'.pc = (IF sync.fresh THEN "next" ELSE "range") /\ sync'.chunk = sync.chunk
      /\ sync'.to = sync.to
  BY <1>1, Holds, GoesFresh
<1>6. ~Loaded'
  BY <1>1, <1>5 DEF Loaded
<1>7. sync.chunk # Nil => sync'.pc = "next"
  BY <1>1, <1>5, Holds DEF SyncInv
<1>8. SyncInv'
  <2>1. sync.chunk = Nil => remote.status.year <= Year(sync.to)
    BY <1>1, Holds DEF SyncInv
  <2>2. sync'.pc \in {"next", "range"}
    BY <1>5
  <2> QED  BY <1>1, <1>5, <1>6, <1>7, <2>1, <2>2 DEF SyncInv, Year
<1> QED  BY <1>1, <1>3, <1>4, <1>5, <1>6, <1>8, Reconciles

-----------------------------------------------------------------------------
(* What the server has of a snapshot once it took it.                      *)
LEMMA Taken ==
  ASSUME HistoryInv, Post
  PROVE  LET p == payload
             y == Year(payload.to)
         IN  /\ PayloadOK(p) /\ y \in Int /\ remote.status.year <= y /\ y <= Now
             /\ remote' = [status |-> remote'.status, rolled |-> remote'.rolled, open |-> remote'.open]
             /\ remote'.status.year = y
             /\ remote'.status = YearStatus(remote'.status.year, remote'.status.is)
             /\ p.yearIs # Nil => remote'.status.is = p.yearIs
             /\ p.yearIs = Nil /\ remote.status.year = y => remote'.status = remote.status
             /\ p.yearIs = Nil /\ remote.status.year # y => remote'.status.is = "pending"
             /\ remote'.rolled = IF p.kind = "rolling" THEN p.to ELSE remote.rolled
             /\ remote'.open = Unresolved(p, remote.rolled, remote.open)
             /\ covered' = IF p.complete THEN covered \cup (p.from .. p.to) ELSE covered
<1> DEFINE p == payload
           y == Year(p.to)
<1>1. PayloadOK(p)
  BY Holds DEF Post, Loaded
<1>2. y \in Int /\ remote.status.year <= y /\ y <= Now
  BY <1>1, YearOf DEF PayloadOK
<1>3. remote' = TakenIn(p, remote)
  BY DEF Post
<1>4. /\ remote'.status = StatusAfter(p, remote.status)
      /\ remote'.rolled = (IF p.kind = "rolling" THEN p.to ELSE remote.rolled)
      /\ remote'.open = Unresolved(p, remote.rolled, remote.open)
      /\ remote' = [status |-> remote'.status, rolled |-> remote'.rolled, open |-> remote'.open]
  BY <1>3 DEF TakenIn
<1>5. remote.status = YearStatus(remote.status.year, remote.status.is)
  BY Holds DEF WorldTypes
<1>6. covered' = IF p.complete THEN covered \cup (p.from .. p.to) ELSE covered
  BY DEF Post
<1> HIDE DEF p, y
<1>7. CASE p.yearIs # Nil
  <2>1. remote'.status = YearStatus(y, p.yearIs)
    BY <1>4, <1>7 DEF StatusAfter, y
  <2> QED  BY <1>1, <1>2, <1>4, <1>6, <1>7, <2>1 DEF YearStatus, p, y
<1>8. CASE p.yearIs = Nil /\ remote.status.year = y
  <2>1. remote'.status = remote.status
    BY <1>4, <1>8 DEF StatusAfter, y
  <2> QED  BY <1>1, <1>2, <1>4, <1>5, <1>6, <1>8, <2>1 DEF p, y
<1>9. CASE p.yearIs = Nil /\ remote.status.year # y
  <2>1. remote'.status = YearStatus(y, "pending")
    BY <1>4, <1>9 DEF StatusAfter, y
  <2> QED  BY <1>1, <1>2, <1>4, <1>6, <1>9, <2>1 DEF YearStatus, p, y
<1> QED  BY <1>7, <1>8, <1>9

(* Days observed of the snapshot's year or a later one, those of the       *)
(* snapshot, and those between two rolling ranges, are observed after it.  *)
LEMMA Observed ==
  ASSUME HistoryInv, Post
  PROVE  LET p == payload
             y == Year(payload.to)
         IN  /\ \A d \in Int : d \in Obs /\ Year(d) >= y => d \in Obs'
             /\ \A d \in Int : p.from <= d /\ d <= p.to => d \in Obs'
             /\ \A d \in Int : p.kind = "rolling" /\ remote.rolled # Nil /\ Year(remote.rolled) = y
                                 /\ remote.rolled < d /\ d < p.from => d \in Obs'
<1> DEFINE p == payload
           y == Year(p.to)
           kept == {d \in remote.open : Year(d) = Year(p.to)}
           skipped == IF p.kind = "rolling" /\ remote.rolled # Nil
                      THEN IF Year(remote.rolled) = Year(p.to) THEN (remote.rolled + 1) .. (p.from - 1)
                           ELSE {}
                      ELSE {}
           days == p.from .. p.to
<1>1. /\ remote'.open = IF p.complete THEN (kept \cup skipped) \ days ELSE kept \cup skipped \cup days
      /\ covered' = IF p.complete THEN covered \cup days ELSE covered
      /\ p.from \in Int /\ p.to \in Int /\ y \in Int /\ remote.status.year <= y
  <2>1. /\ remote'.open = Unresolved(p, remote.rolled, remote.open)
        /\ covered' = IF p.complete THEN covered \cup days ELSE covered
        /\ PayloadOK(p) /\ y \in Int /\ remote.status.year <= y
    BY Taken
  <2>2. p.from \in Int /\ p.to \in Int
    BY <2>1 DEF PayloadOK
  <2> QED  BY <2>1, <2>2 DEF Unresolved
<1>2. kept \cup skipped \cup days \subseteq Obs'
  BY <1>1 DEF Obs
<1>3. ASSUME NEW d \in Int, d \in Obs, Year(d) >= y
      PROVE  d \in Obs'
  <2>1. CASE d \in covered
    BY <1>1, <2>1 DEF Obs
  <2>2. CASE d \in remote.open
    <3>1. Year(d) <= remote.status.year /\ Year(d) \in Int /\ remote.status.year \in Int
      BY <2>2, Holds, YearOf DEF ServerInv, WorldTypes
    <3>2. Year(d) = y
      BY <1>1, <1>3, <3>1
    <3> QED  BY <1>2, <2>2, <3>2
  <2> QED  BY <1>3, <2>1, <2>2 DEF Obs
<1>4. ASSUME NEW d \in Int, p.from <= d, d <= p.to
      PROVE  d \in Obs'
  <2>1. d \in days
    BY <1>1, <1>4
  <2> QED  BY <1>2, <2>1
<1>5. ASSUME NEW d \in Int, p.kind = "rolling", remote.rolled # Nil, Year(remote.rolled) = y,
             remote.rolled < d, d < p.from
      PROVE  d \in Obs'
  <2>1. remote.rolled \in Int
    BY <1>5, Holds DEF WorldTypes
  <2>2. d \in skipped
    BY <1>1, <1>5, <2>1
  <2> QED  BY <1>2, <2>2
<1> QED  BY <1>3, <1>4, <1>5

(* What stays as it was.                                                   *)
LEMMA PostLeaves ==
  ASSUME HistoryInv, Post
  PROVE  /\ UNCHANGED <<date, conf, local, payload, begun>>
         /\ overlooked \subseteq overlooked'
         /\ Now' = Now /\ FirstEnd(date)' = FirstEnd(date) /\ YearStart(Now)' = YearStart(Now)
         /\ \A y : Known(y)' = Known(y)
<1>1. UNCHANGED <<date, conf, local, payload, begun>> /\ overlooked' = overlooked \cup Overlooked
  BY DEF Post
<1> QED  BY <1>1 DEF Now, FirstEnd, YearStart, Highest, Year, Known

(* What a pass has gone through stays so.                                  *)
LEMMA WholePosts ==
  ASSUME HistoryInv, Post, NEW z \in Int, NEW next, z >= Year(payload.to), Whole(z, next)
  PROVE  Whole(z, next)'
<1>1. SUFFICES ASSUME NEW b \in begun, Year(b) = z,
                      NEW d \in Int, YearStart(z) <= d, next < d, d <= FirstEnd(b)
               PROVE  d \in Obs'
  BY PostLeaves DEF Whole
<1>2. d \in Obs
  BY <1>1 DEF Whole
<1>3. b \in Int /\ FirstEnd(b) < b /\ FirstEnd(b) \in Int
  BY <1>1, Holds, FirstEndOf DEF WorldTypes
<1>4. Year(d) = z
  BY <1>1, <1>3, InYear
<1> QED  BY <1>2, <1>4, Observed

(* A sound cursor is sound after any snapshot was taken.                   *)
LEMMA CursorPosts ==
  ASSUME HistoryInv, Post, NEW c, CursorOK(c)
  PROVE  CursorOK(c)'
<1> DEFINE y == Year(payload.to)
<1>1. /\ PayloadOK(payload) /\ y \in Int /\ remote.status.year <= y /\ remote'.status.year = y
      /\ (payload.yearIs # Nil => remote'.status.is = payload.yearIs)
      /\ (payload.yearIs = Nil /\ remote.status.year = y => remote'.status = remote.status)
  BY Taken
<1>2. remote.status.year \in Int
  BY Holds DEF WorldTypes
<1> HIDE DEF y
<1>3. c.mode # "gap" /\ c.year >= y => Whole(c.year, c.next)'
  <2>1. SUFFICES ASSUME c.mode # "gap", c.year >= y
                 PROVE  Whole(c.year, c.next)'
    OBVIOUS
  <2>2. c.year \in Int /\ Whole(c.year, c.next)
    BY <1>1, <1>2, <2>1 DEF CursorOK
  <2> QED  BY <2>1, <2>2, WholePosts DEF y
<1>4. c.mode = "gap" /\ c.year >= y => c.year = y /\ remote'.status.is \in Terminated
  <2>1. SUFFICES ASSUME c.mode = "gap", c.year >= y
                 PROVE  c.year = y /\ remote'.status.is \in Terminated
    OBVIOUS
  <2>2. c.year \in Int /\ c.year = remote.status.year /\ remote.status.is \in Terminated
    BY <1>1, <1>2, <2>1 DEF CursorOK
  <2>3. c.year = y
    BY <1>1, <1>2, <2>1, <2>2
  <2>4. payload.yearIs \in Terminated \cup {Nil}
    BY <1>1 DEF PayloadOK
  <2> QED  BY <1>1, <2>2, <2>3, <2>4
<1>5. /\ c.year \in Int /\ c.start \in Int /\ c.next \in Int
      /\ c.mode \in {"initial", "gap", "full"}
      /\ c.year <= Now /\ Known(c.year)
      /\ (c.mode # "gap" => c.start = YearStart(c.year) /\ (c.year = Now => YearStart(Now) <= FirstEnd(date)))
  BY DEF CursorOK
<1>6. Known(c.year)'
  BY <1>5, PostLeaves
<1> HIDE DEF Whole, Known
<1> QED  BY <1>1, <1>3, <1>4, <1>5, <1>6, PostLeaves DEF CursorOK

(* The types of the world after a snapshot was taken.                      *)
LEMMA TypesPost ==
  ASSUME HistoryInv, Post
  PROVE  WorldTypes'
<1> DEFINE p == payload
<1>1. /\ PayloadOK(p) /\ Year(p.to) \in Int /\ Year(p.to) <= Now /\ remote'.status.year = Year(p.to)
      /\ remote' = [status |-> remote'.status, rolled |-> remote'.rolled, open |-> remote'.open]
      /\ remote'.status = YearStatus(remote'.status.year, remote'.status.is)
      /\ remote'.rolled = (IF p.kind = "rolling" THEN p.to ELSE remote.rolled)
      /\ remote'.open = Unresolved(p, remote.rolled, remote.open)
      /\ covered' = IF p.complete THEN covered \cup (p.from .. p.to) ELSE covered
  BY Taken
<1>2. remote'.status.is \in Terminated \cup {"pending"}
  <2>1. p.yearIs \in Terminated \cup {Nil}
    BY <1>1 DEF PayloadOK
  <2> QED  BY <2>1, Taken, Holds DEF WorldTypes
<1>3. p.from \in Int /\ p.to \in Int
  BY <1>1 DEF PayloadOK
<1>4. /\ remote.open \subseteq Int /\ IsFiniteSet(remote.open) /\ covered \subseteq Int
      /\ (remote.rolled # Nil => remote.rolled \in Int)
  BY Holds DEF WorldTypes
<1>5. remote'.open \subseteq Int /\ IsFiniteSet(remote'.open)
  <2> DEFINE kept == {d \in remote.open : Year(d) = Year(p.to)}
             skipped == IF p.kind = "rolling" /\ remote.rolled # Nil
                        THEN IF Year(remote.rolled) = Year(p.to) THEN (remote.rolled + 1) .. (p.from - 1)
                             ELSE {}
                        ELSE {}
             days == p.from .. p.to
  <2>1. remote'.open = IF p.complete THEN (kept \cup skipped) \ days ELSE kept \cup skipped \cup days
    BY <1>1 DEF Unresolved
  <2>2. kept \subseteq Int /\ IsFiniteSet(kept)
    BY <1>4, FS_Subset
  <2>3. days \subseteq Int /\ IsFiniteSet(days)
    BY <1>3, FS_Interval
  <2>4. skipped \subseteq Int /\ IsFiniteSet(skipped)
    <3>1. CASE skipped = {}
      BY <3>1, FS_EmptySet
    <3>2. CASE remote.rolled # Nil /\ skipped = (remote.rolled + 1) .. (p.from - 1)
      <4>1. remote.rolled + 1 \in Int /\ p.from - 1 \in Int
        BY <1>3, <1>4, <3>2
      <4> QED  BY <3>2, <4>1, FS_Interval
    <3> QED  BY <3>1, <3>2
  <2> HIDE DEF kept, skipped, days
  <2>5. IsFiniteSet((kept \cup skipped) \cup days)
    BY <2>2, <2>3, <2>4, FS_Union
  <2>6. remote'.open \subseteq (kept \cup skipped) \cup days
    BY <2>1
  <2> QED  BY <2>2, <2>3, <2>4, <2>5, <2>6, FS_Subset
<1>6. covered' \subseteq Int
  BY <1>1, <1>3, <1>4
<1>7. remote'.rolled # Nil => remote'.rolled \in Int
  BY <1>1, <1>3, <1>4
<1>8. date' \in Nat /\ \A b \in begun' : b \in Nat /\ b <= date'
  BY Holds, PostLeaves DEF WorldTypes
<1> QED  BY <1>1, <1>2, <1>5, <1>6, <1>7, <1>8, PostLeaves DEF WorldTypes

(* Years still follow one another at the server.                           *)
LEMMA ServerPost ==
  ASSUME HistoryInv, Post
  PROVE  ServerInv'
<1> DEFINE p == payload
           y == Year(payload.to)
<1>1. /\ PayloadOK(p) /\ y \in Int /\ remote.status.year <= y /\ y <= Now /\ remote'.status.year = y
      /\ remote'.rolled = (IF p.kind = "rolling" THEN p.to ELSE remote.rolled)
      /\ (p.yearIs # Nil => remote'.status.is = p.yearIs)
      /\ (p.yearIs = Nil /\ remote.status.year = y => remote'.status = remote.status)
      /\ remote'.open = Unresolved(p, remote.rolled, remote.open)
  BY Taken
<1>2. remote.status.year \in Int /\ (remote.rolled # Nil => remote.rolled \in Int /\ Year(remote.rolled) \in Int)
        /\ remote.open \subseteq Int
  BY Holds, YearOf DEF WorldTypes
<1>3. p.from \in Int /\ p.to \in Int /\ p.kind \in {"rolling", "chunk"} /\ (p.kind = "rolling" => p.from <= p.to)
  BY <1>1 DEF PayloadOK
<1>4. remote'.rolled # Nil => Year(remote'.rolled) <= y
  <2>1. CASE p.kind = "rolling"
    BY <1>1, <2>1
  <2>2. CASE p.kind = "chunk"
    BY <1>1, <1>2, <2>2, Holds DEF ServerInv
  <2> QED  BY <1>3, <2>1, <2>2
<1>5. \A d \in remote'.open : Year(d) <= y
  <2>1. SUFFICES ASSUME NEW d \in remote'.open
                 PROVE  Year(d) <= y
    OBVIOUS
  <2>2. \/ Year(d) = y
        \/ p.kind = "rolling" /\ remote.rolled # Nil /\ d \in (remote.rolled + 1) .. (p.from - 1)
        \/ d \in p.from .. p.to
    BY <1>1, <2>1 DEF Unresolved
  <2>3. d \in Int /\ d <= p.to => Year(d) <= y
    BY <1>3, YearOrder
  <2>4. Year(d) = y \/ (d \in Int /\ d <= p.to)
    <3>1. CASE p.kind = "rolling" /\ remote.rolled # Nil /\ d \in (remote.rolled + 1) .. (p.from - 1)
      BY <1>2, <1>3, <3>1
    <3>2. CASE d \in p.from .. p.to
      BY <1>3, <3>2
    <3> QED  BY <2>2, <3>1, <3>2
  <2> QED  BY <1>1, <2>3, <2>4
<1>6. remote'.rolled # Nil /\ Year(remote'.rolled) = Now => Known(Now)'
  <2>1. PICK n : n = Now
    OBVIOUS
  <2>2. remote'.rolled # Nil /\ Year(remote'.rolled) = Now => Known(Now)
    <3>1. CASE p.kind = "rolling"
      BY <1>1, <3>1 DEF PayloadOK
    <3>2. CASE p.kind = "chunk"
      BY <1>1, <3>2, Holds DEF ServerInv
    <3> QED  BY <1>3, <3>1, <3>2
  <2>3. Known(Now)' = Known(n)' /\ Known(n) = Known(Now) /\ Known(n)' = Known(n)
    BY <2>1, PostLeaves DEF Known
  <2> QED  BY <2>2, <2>3
<1>7. ~(y = Now /\ remote'.status.is = "pending" /\ FirstEnd(date) < YearStart(Now))
  <2>1. SUFFICES ASSUME y = Now, remote'.status.is = "pending", FirstEnd(date) < YearStart(Now)
                 PROVE  FALSE
    OBVIOUS
  <2>2. p.yearIs = Nil
    BY <1>1, <2>1 DEF PayloadOK, Terminated
  <2>3. CASE p.kind = "rolling"
    BY <1>1, <2>1, <2>2, <2>3, Holds DEF PayloadOK
  <2>4. CASE p.kind = "chunk"
    <3>1. PICK c : c = [mode |-> p.advance.mode, year |-> p.advance.year, start |-> p.advance.start, next |-> p.to]
      OBVIOUS
    <3>2. CursorOK(c) /\ c.year = Now
      BY <1>1, <2>1, <2>4, <3>1 DEF PayloadOK
    <3>3. CASE c.mode # "gap"
      BY <2>1, <3>2, <3>3, Holds DEF CursorOK
    <3>4. CASE c.mode = "gap"
      <4>1. Now = remote.status.year /\ remote.status.is \in Terminated
        BY <1>1, <1>2, <2>1, <3>2, <3>4 DEF CursorOK
      <4>2. remote'.status = remote.status
        BY <1>1, <2>1, <2>2, <4>1
      <4> QED  BY <2>1, <4>1, <4>2 DEF Terminated
    <3> QED  BY <3>3, <3>4
  <2> QED  BY <1>3, <2>3, <2>4
<1> HIDE DEF Known, Now, y
<1> QED  BY <1>1, <1>4, <1>5, <1>6, <1>7, PostLeaves DEF ServerInv, Year

(* What the connector was told before is still true.                       *)
LEMMA ToldPost ==
  ASSUME HistoryInv, Post
  PROVE  Told(conf)'
<1> DEFINE p == payload
           y == Year(payload.to)
<1>1. /\ PayloadOK(p) /\ y \in Int /\ remote.status.year <= y /\ y <= Now /\ remote'.status.year = y
      /\ (p.yearIs # Nil => remote'.status.is = p.yearIs)
      /\ (p.yearIs = Nil /\ remote.status.year = y => remote'.status = remote.status)
  BY Taken
<1>2. /\ conf.status.year \in Int /\ remote.status.year \in Int /\ conf.status.year <= remote.status.year
      /\ (conf.gap # Nil => Year(conf.gap.first) \in Int /\ Year(conf.gap.first) <= conf.status.year)
      /\ Now \in Int
  BY Holds, YearOf DEF Told, ConfOK, WorldTypes
<1>3. remote.status.year = y /\ remote.status.is # "pending" => remote'.status.is # "pending"
  BY <1>1 DEF PayloadOK, Terminated
<1>4. conf.status.year = y /\ conf.status.is # "pending" => remote'.status.is # "pending"
  <2>1. conf.status.year = y => remote.status.year = y
    BY <1>1, <1>2
  <2> QED  BY <1>3, <2>1, Holds DEF Told
<1>5. conf.gap # Nil /\ Year(conf.gap.first) = Now /\ FirstEnd(date) < YearStart(Now) => remote'.status.is # "pending"
  <2>1. conf.gap # Nil /\ Year(conf.gap.first) = Now => remote.status.year = y
    BY <1>1, <1>2
  <2> QED  BY <1>3, <2>1, Holds DEF Told
<1>6. conf.status.year <= y
  BY <1>1, <1>2
<1> HIDE DEF y
<1> QED  BY <1>1, <1>4, <1>5, <1>6, Holds, PostLeaves DEF Told, ConfOK, Year

(* After a rolling range, too, nothing is left out but what is noted.      *)
LEMMA RolledPost ==
  ASSUME HistoryInv, Post
  PROVE  RolledInv'
<1> DEFINE p == payload
           y == Year(payload.to)
<1>1. /\ PayloadOK(p) /\ y \in Int /\ remote.status.year <= y /\ remote'.status.year = y
      /\ remote'.rolled = (IF p.kind = "rolling" THEN p.to ELSE remote.rolled)
  BY Taken
<1>2. p.from \in Int /\ p.to \in Int /\ p.kind \in {"rolling", "chunk"}
  BY <1>1 DEF PayloadOK
<1>3. SUFFICES ASSUME NEW b \in begun, remote'.rolled # Nil, Year(b) = y, Year(remote'.rolled) = y,
                      NEW d \in Int, FirstEnd(b) < d, d <= remote'.rolled
               PROVE  d \in Obs' \cup overlooked'
  <2> HIDE DEF y
  <2> QED  BY <1>1, PostLeaves DEF RolledInv, Year, FirstEnd, Highest, YearStart
<1>4. b \in Int /\ FirstEnd(b) \in Int /\ YearStart(y) <= FirstEnd(b) + 1 /\ remote'.rolled \in Int
        /\ YearStart(y) \in Int
  <2>1. b \in Int /\ remote'.rolled \in Int
    BY TypesPost, <1>3, Holds DEF WorldTypes
  <2> QED  BY <1>3, <2>1, FirstEndOf, YearOf
<1>5. Year(d) = y
  <2>1. YearStart(Year(remote'.rolled)) <= d
    BY <1>3, <1>4
  <2> QED  BY <1>3, <1>4, <2>1, InYear
<1>6. /\ remote.status.year \in Int /\ (remote.rolled # Nil => remote.rolled \in Int /\ Year(remote.rolled) \in Int)
      /\ (remote.rolled # Nil => Year(remote.rolled) <= remote.status.year)
  BY Holds, YearOf DEF WorldTypes, ServerInv
<1> HIDE DEF y
<1>7. ASSUME remote.rolled # Nil, Year(remote.rolled) = y, d <= remote.rolled
      PROVE  d \in Obs' \cup overlooked'
  <2>1. remote.status.year = y
    BY <1>1, <1>6, <1>7
  <2>2. d \in Obs \cup overlooked
    BY <1>3, <1>7, <2>1 DEF HistoryInv, RolledInv
  <2>3. d \in Obs => d \in Obs'
    BY <1>1, <1>5, Observed DEF y
  <2> QED  BY <2>2, <2>3, PostLeaves
<1>8. CASE p.kind = "chunk"
  BY <1>1, <1>3, <1>7, <1>8
<1>9. CASE p.kind = "rolling"
  <2>1. d <= p.to
    BY <1>1, <1>3, <1>9
  <2>2. CASE p.from <= d
    BY <2>1, <2>2, Observed
  <2>3. CASE d < p.from /\ remote.rolled # Nil /\ Year(remote.rolled) = y
    <3>1. CASE d <= remote.rolled
      BY <1>7, <2>3, <3>1
    <3>2. CASE remote.rolled < d
      BY <1>9, <2>3, <3>2, Observed DEF y
    <3> QED  BY <1>6, <2>3, <3>1, <3>2
  <2>4. CASE d < p.from /\ (remote.rolled = Nil \/ Year(remote.rolled) # y)
    <3>1. d \in (FirstEnd(b) + 1) .. (p.from - 1)
      BY <1>2, <1>3, <1>4, <2>4
    <3>2. b \in {x \in begun : Year(x) = Year(payload.to)}
      BY <1>3 DEF y
    <3>3. d \in Overlooked
      BY <1>9, <2>4, <3>1, <3>2 DEF Overlooked, y
    <3> QED  BY <3>3 DEF Post
  <2> QED  BY <1>2, <2>2, <2>3, <2>4
<1> QED  BY <1>2, <1>8, <1>9

(* A year that is called complete has been gone through.                   *)
LEMMA PassedPost ==
  ASSUME HistoryInv, Post, NEW y, y = Year(payload.to), remote'.status.is \in Terminated
  PROVE  \/ /\ remote'.rolled # Nil /\ Year(remote'.rolled) = y
            /\ \A d \in Int : YearStart(y) <= d /\ d <= remote'.rolled => d \in Obs' \cup overlooked'
         \/ Known(y)' /\ Whole(y, YearStart(y) - 1)'
<1> DEFINE p == payload
           first == YearStart(y)
<1>1. /\ PayloadOK(p) /\ y \in Int /\ remote.status.year <= y /\ remote'.status.year = y
      /\ remote'.rolled = (IF p.kind = "rolling" THEN p.to ELSE remote.rolled)
      /\ (p.yearIs = Nil /\ remote.status.year = y => remote'.status = remote.status)
      /\ (p.yearIs = Nil /\ remote.status.year # y => remote'.status.is = "pending")
  BY Taken
<1>2. p.from \in Int /\ p.to \in Int /\ p.kind \in {"rolling", "chunk"} /\ first \in Int
  BY <1>1, YearOf DEF PayloadOK
<1>3. /\ remote.status.year \in Int /\ (remote.rolled # Nil => remote.rolled \in Int)
  BY Holds DEF WorldTypes
<1> DEFINE Rolled == /\ remote'.rolled # Nil /\ Year(remote'.rolled) = y
                     /\ \A d \in Int : first <= d /\ d <= remote'.rolled => d \in Obs' \cup overlooked'
           Passed == Known(y)' /\ Whole(y, first - 1)'
\* What went through the year before this snapshot still has.
<1>4. ASSUME remote.status.year = y, remote.status.is \in Terminated
      PROVE  Rolled \/ Passed
  <2>1. CASE Known(y) /\ Whole(y, first - 1)
    <3>1. Whole(y, first - 1)'
      <4>1. y >= Year(payload.to) /\ y \in Int
        BY <1>1
      <4>2. PICK next : next = first - 1
        OBVIOUS
      <4>3. Whole(y, next)'
        BY <2>1, <4>1, <4>2, WholePosts
      <4>4. (first - 1)' = next
        BY <4>2 DEF YearStart
      <4> QED  BY <4>2, <4>3
    <3> QED  BY <2>1, <3>1, PostLeaves
  <2>2. CASE /\ remote.rolled # Nil /\ Year(remote.rolled) = y
             /\ \A d \in Int : first <= d /\ d <= remote.rolled => d \in Obs \cup overlooked
    <3>1. remote'.rolled # Nil /\ Year(remote'.rolled) = y
      <4>1. p.to # Nil /\ Year(p.to) = y
        BY <1>2, HistoryAssumption
      <4> QED  BY <1>1, <2>2, <4>1
    <3>2. ASSUME NEW d \in Int, first <= d, d <= remote'.rolled
          PROVE  d \in Obs' \cup overlooked'
      <4>1. remote'.rolled \in Int
        BY <1>1, <1>2, <1>3, <2>2
      <4>2. Year(d) = y
        BY <3>1, <3>2, <4>1, InYear
      <4>3. CASE d <= remote.rolled
        <5>1. d \in Obs \cup overlooked
          BY <2>2, <3>2, <4>3
        <5> QED  BY <1>1, <4>2, <5>1, Observed, PostLeaves
      <4>4. CASE remote.rolled < d
        <5>1. p.kind = "rolling" /\ d <= p.to
          BY <1>1, <1>2, <1>3, <2>2, <3>2, <4>4
        <5>2. CASE p.from <= d
          BY <5>1, <5>2, Observed
        <5>3. CASE d < p.from
          BY <2>2, <4>4, <5>1, <5>3, Observed
        <5> QED  BY <1>2, <5>2, <5>3
      <4> QED  BY <1>3, <2>2, <4>3, <4>4
    <3> QED  BY <3>1, <3>2
  <2> HIDE DEF Rolled, Passed
  <2>3. TerminatedInv
    BY DEF HistoryInv
  <2> QED  BY <1>4, <2>1, <2>2, <2>3 DEF TerminatedInv
<1>5. CASE p.yearIs = Nil
  <2>1. remote.status.year = y /\ remote.status.is \in Terminated
    BY <1>1, <1>5 DEF Terminated
  <2> QED  BY <1>4, <2>1
<1>6. CASE p.yearIs # Nil /\ p.kind = "rolling"
  <2>1. p.from <= first /\ remote'.rolled = p.to
    BY <1>1, <1>6 DEF PayloadOK
  <2>2. p.to # Nil
    BY <1>2, HistoryAssumption
  <2>3. ASSUME NEW d \in Int, first <= d, d <= remote'.rolled
        PROVE  d \in Obs'
    BY <1>2, <2>1, <2>3, Observed
  <2> QED  BY <2>1, <2>2, <2>3
<1>7. CASE p.yearIs # Nil /\ p.kind = "chunk"
  <2>1. PICK c : c = [mode |-> p.advance.mode, year |-> p.advance.year, start |-> p.advance.start, next |-> p.to]
    OBVIOUS
  <2>2. CursorOK(c) /\ c.year = y /\ c.next = p.to /\ p.from = first /\ p.advance.year = y
    BY <1>1, <1>7, <2>1 DEF PayloadOK
  <2>3. CASE c.mode = "gap"
    <3>1. y = remote.status.year /\ remote.status.is \in Terminated
      BY <1>1, <1>3, <2>2, <2>3 DEF CursorOK
    <3> QED  BY <1>4, <3>1
  <2>4. CASE c.mode # "gap"
    <3>1. Known(y) /\ Whole(y, p.to)
      BY <1>1, <1>3, <2>2, <2>4 DEF CursorOK
    <3>2. ASSUME NEW b \in begun', Year(b) = y, NEW d \in Int, first <= d, d <= FirstEnd(b)
          PROVE  d \in Obs'
      <4>1. CASE d <= p.to
        BY <2>2, <3>2, <4>1, Observed
      <4>2. CASE p.to < d
        <5>1. b \in begun /\ b \in Int /\ FirstEnd(b) \in Int /\ FirstEnd(b) < b
          BY <3>2, PostLeaves, Holds, FirstEndOf DEF WorldTypes
        <5>2. d \in Obs
          BY <3>1, <3>2, <4>2, <5>1 DEF Whole
        <5>3. Year(d) = y
          BY <3>2, <5>1, InYear
        <5> QED  BY <1>1, <5>2, <5>3, Observed
      <4> QED  BY <1>2, <4>1, <4>2
    <3>3. Whole(y, first - 1)'
      <4> HIDE DEF first, p
      <4> QED  BY <3>2 DEF Whole, Year, YearStart, FirstEnd, Highest, first
    <3> QED  BY <3>1, <3>3, PostLeaves
  <2> QED  BY <2>3, <2>4
<1> QED  BY <1>2, <1>5, <1>6, <1>7

(* The same, of the state.                                                 *)
LEMMA TerminatedPost ==
  ASSUME HistoryInv, Post
  PROVE  TerminatedInv'
<1>1. PICK y : y = Year(payload.to)
  OBVIOUS
<1>2. remote'.status.year = y
  BY <1>1, Taken
<1>3. remote'.status.is \in Terminated =>
         \/ /\ remote'.rolled # Nil /\ Year(remote'.rolled) = y
            /\ \A d \in Int : YearStart(y) <= d /\ d <= remote'.rolled => d \in Obs' \cup overlooked'
         \/ Known(y)' /\ Whole(y, YearStart(y) - 1)'
  BY <1>1, PassedPost
<1>4. YearStart(remote.status.year)' = YearStart(y) /\ Known(y)' = Known(remote.status.year)'
  BY <1>2 DEF Known, YearStart
<1>5. PICK f : f = YearStart(y) - 1
  OBVIOUS
<1>6. Whole(y, YearStart(y) - 1)' = Whole(y, f)'
  BY <1>5 DEF YearStart
<1>7. Whole(remote.status.year, YearStart(remote.status.year) - 1)' = Whole(y, f)'
  BY <1>2, <1>5 DEF Whole, YearStart
<1> HIDE DEF Known, Whole
<1> QED  BY <1>2, <1>3, <1>4, <1>6, <1>7 DEF TerminatedInv, Terminated, Year, YearStart

(* The sync goes on to remember the answer, or is lost.                    *)
LEMMA SyncPost ==
  ASSUME HistoryInv, Post
  PROVE  SyncOK(sync)' /\ SyncInv'
<1>1. CASE sync' = NoSync
  <2>1. SyncOK(sync)' /\ sync'.pc = "idle" /\ sync'.chunk = Nil
    BY <1>1, Holds, PostLeaves, EndsIdle
  <2> QED  BY <2>1 DEF SyncInv
<1>2. CASE sync' = [sync EXCEPT !.pc = "remember"]
  <2>1. /\ SyncOK(sync)' /\ sync'.pc = "remember" /\ sync'.chunk = sync.chunk /\ sync'.to = sync.to
        /\ sync'.fresh = sync.fresh
    BY <1>2, Holds, PostLeaves, GoesOn
  <2>2. sync.pc = "post" /\ Loaded /\ payload' = payload
    BY PostLeaves DEF Post, Loaded
  <2>3. /\ remote'.status.year = Year(payload.to)
        /\ payload.yearIs # Nil => remote'.status.is = payload.yearIs
    BY Taken
  <2>4. \A d \in Int : payload.from <= d /\ d <= payload.to => d \in Obs'
    BY Observed
  <2>5. sync.chunk = Nil => Year(payload.to) <= Year(sync.to)
    BY <2>2, Holds DEF SyncInv
  <2>6. sync.chunk # Nil => sync.fresh
    BY <2>2, Holds DEF SyncInv
  <2> HIDE DEF Obs
  <2>7. SyncInv'
    BY <2>1, <2>2, <2>3, <2>4, <2>5, <2>6 DEF SyncInv, Year
  <2> QED  BY <2>1, <2>7
<1> QED  BY <1>1, <1>2 DEF Post, Goes

(* The snapshot, which may be delivered again, is as sound as before.      *)
LEMMA PayloadPost ==
  ASSUME HistoryInv, Post
  PROVE  PayloadOK(payload)'
<1>1. PICK p : p = payload
  OBVIOUS
<1>2. /\ PayloadOK(p) /\ remote'.status.year = Year(p.to) /\ payload' = p
      /\ remote'.status.year <= Year(p.to)
  BY <1>1, Taken, PostLeaves
<1>3. PICK c : c = [mode |-> p.advance.mode, year |-> p.advance.year, start |-> p.advance.start, next |-> p.to]
  OBVIOUS
<1>4. p.kind = "chunk" => CursorOK(c)'
  BY <1>2, <1>3, CursorPosts DEF PayloadOK
<1>5. p.kind = "rolling" => /\ p.yearIs = Nil /\ Year(p.to) = Now' => YearStart(Now)' <= FirstEnd(date)'
                            /\ Year(p.to) = Now' => Known(Now)'
  <2>1. PICK n : n = Now
    OBVIOUS
  <2>2. Known(n)' = Known(n) /\ Now' = n /\ (Known(Now)' <=> Known(n)')
    BY <2>1, PostLeaves DEF Known
  <2>3. p.kind = "rolling" => /\ p.yearIs = Nil /\ Year(p.to) = n => YearStart(Now) <= FirstEnd(date)
                              /\ Year(p.to) = n => Known(n)
    BY <1>2, <2>1 DEF PayloadOK
  <2> HIDE DEF Known, Now
  <2> QED  BY <2>2, <2>3, PostLeaves
<1>6. PayloadOK(p)'
  <2> HIDE DEF Known, Now, CursorOK
  <2> QED  BY <1>2, <1>3, <1>4, <1>5, PostLeaves DEF PayloadOK
<1> QED  BY <1>2, <1>6

(* A snapshot is taken.                                                    *)
LEMMA PostKeeps ==
  ASSUME HistoryInv, Post
  PROVE  HistoryInv'
<1>1. LocalOK(local)' /\ CursorsOf(local)'
  <2>1. PICK s : s = local
    OBVIOUS
  <2>2. LocalOK(s) /\ CursorsOf(s) /\ local' = s
    BY <2>1, Holds, PostLeaves
  <2>3. s.cursor # Nil => CursorOK(s.cursor)'
    BY <2>2, CursorPosts DEF CursorsOf
  <2> QED  BY <2>2, <2>3, PostLeaves DEF CursorsOf, LocalOK
<1> QED  BY <1>1, TypesPost, ServerPost, ToldPost, RolledPost, TerminatedPost, SyncPost, PayloadPost
         DEF HistoryInv, HTypes, CursorsInv

-----------------------------------------------------------------------------
(* The first state: nothing taken, nothing begun, a pending year.          *)
LEMMA HistoryInitInv ==
  HistoryInit => HistoryInv
<1> SUFFICES ASSUME HistoryInit
             PROVE  HistoryInv
  OBVIOUS
<1>1. /\ date = FirstDay /\ FirstDay \in Nat
      /\ remote = [status |-> YearStatus(Year(FirstDay), "pending"), rolled |-> Nil, open |-> {}]
      /\ conf = [status |-> YearStatus(Year(FirstDay), "pending"), gap |-> Nil]
      /\ local = [cursor |-> Nil, retry |-> Nil, attempt |-> Nil, generation |-> 0]
      /\ payload = Nil /\ sync = NoSync /\ covered = {} /\ begun = {}
  BY HistoryAssumption DEF HistoryInit
<1>2. /\ remote.status.year = Now /\ remote.status.is = "pending" /\ remote.rolled = Nil /\ remote.open = {}
      /\ remote.status = YearStatus(Now, "pending")
      /\ conf.status.year = Now /\ conf.status.is = "pending" /\ conf.gap = Nil
      /\ conf.status = YearStatus(Now, "pending")
  BY <1>1 DEF YearStatus, Now
<1>3. Now \in Int /\ Nil \notin Int
  BY <1>1, YearOf, HistoryAssumption DEF Now
<1>4. sync.pc = "idle" /\ sync.chunk = Nil /\ sync.to = 0 /\ SyncOK(sync)
  BY <1>1 DEF NoSync, SyncOK
<1>5. LocalOK(local) /\ local.cursor = Nil /\ local.retry = Nil
  BY <1>1 DEF LocalOK
<1>6. IsFiniteSet(remote.open)
  BY <1>2, FS_EmptySet
<1>7. WorldTypes
  BY <1>1, <1>2, <1>3, <1>6 DEF WorldTypes
<1>8. Told(conf)
  <2>1. conf = [status |-> YearStatus(conf.status.year, conf.status.is), gap |-> conf.gap]
    BY <1>1, <1>2
  <2> QED  BY <1>2, <1>3, <2>1 DEF Told, ConfOK
<1>9. ServerInv /\ RolledInv /\ TerminatedInv
  BY <1>2 DEF ServerInv, RolledInv, TerminatedInv, Terminated
<1>10. SyncInv
  BY <1>1, <1>4 DEF SyncInv
<1>11. CursorsInv
  BY <1>1, <1>3, <1>4, <1>5 DEF CursorsInv, CursorsOf, Loaded
<1> QED  BY <1>4, <1>5, <1>7, <1>8, <1>9, <1>10, <1>11 DEF HistoryInv, HTypes

(* The invariant is inductive.                                             *)
LEMMA HistoryStep ==
  HistoryInv /\ [HistoryNext]_historyVars => HistoryInv'
<1> SUFFICES ASSUME HistoryInv, [HistoryNext]_historyVars
             PROVE  HistoryInv'
  OBVIOUS
<1>1. CASE UNCHANGED historyVars
  <2>1. UNCHANGED <<date, remote, covered, conf, notes, local, payload, sync>>
    BY <1>1 DEF historyVars
  <2>2. SyncOK(sync)' /\ Loaded' = Loaded
    BY <2>1, Holds DEF SyncOK, Loaded
  <2>3. SyncInv'
    <3>1. Known(Now)' = Known(Now) /\ Now' = Now /\ Obs' = Obs /\ Reported(remote)' = Reported(remote)
      BY <2>1 DEF Known, Now, Obs, Reported, notes
    <3> HIDE DEF Known, Now, Obs, Loaded
    <3> QED  BY <2>1, <2>2, <3>1, Holds DEF SyncInv, Year
  <2> QED  BY <2>1, <2>2, <2>3, QuietSync
<1>2. CASE BeginSync
  BY <1>2, BeginKeeps
<1>3. CASE FirstDeliver
  BY <1>3, FirstDeliverKeeps
<1>4. CASE ReconcileState
  BY <1>4, ReconcileKeeps
<1>5. CASE CollectRolling
  BY <1>5, RollingKeeps
<1>6. CASE RollingUnchanged
  BY <1>6, UnchangedKeeps
<1>7. CASE CollectChunk
  BY <1>7, ChunkKeeps
<1>8. CASE CursorChanged \/ EndSync \/ SyncDies
  <2>1. UNCHANGED <<date, remote, covered, conf, notes, local, payload>> /\ sync' = NoSync
    BY <1>8 DEF CursorChanged, EndSync, SyncDies, Goes
  <2> QED  BY <2>1, IdleKeeps
<1>9. CASE CollectFails
  BY <1>9, FailsKeeps
<1>10. CASE Post
  BY <1>10, PostKeeps
<1>11. CASE RememberReport
  BY <1>11, RememberKeeps
<1>12. CASE ApplyAdvance
  BY <1>12, ApplyKeeps
<1>13. CASE NextChunk
  BY <1>13, NextChunkKeeps
<1>14. CASE DayPasses
  BY <1>14, DayKeeps
<1> QED  BY <1>1, <1>2, <1>3, <1>4, <1>5, <1>6, <1>7, <1>8, <1>9, <1>10, <1>11, <1>12, <1>13, <1>14
         DEF HistoryNext, SyncStep

(* A year the server calls complete has no day left out up to the last     *)
(* rolling range: every one was observed completely, is reported as        *)
(* unresolved, or is one of those a pass begun before a first rolling      *)
(* range overlooks.                                                        *)
THEOREM CompleteYears == HistorySpec => []CompleteYearIsWhole
<1>1. HistoryInv => CompleteYearIsWhole
  <2>1. SUFFICES ASSUME HistoryInv, remote.status.is = "complete", remote.rolled # Nil,
                        Year(remote.rolled) = remote.status.year,
                        NEW d \in (YearStart(remote.status.year) .. remote.rolled) \ overlooked
                 PROVE  d \in Obs
    BY DEF CompleteYearIsWhole, Obs
  <2> DEFINE y == remote.status.year
  <2>2. remote.rolled \in Int /\ y \in Int /\ YearStart(y) \in Int
    BY <2>1, Holds, YearOf DEF WorldTypes
  <2>3. d \in Int /\ YearStart(y) <= d /\ d <= remote.rolled /\ d \notin overlooked
    BY <2>1, <2>2
  <2>4. CASE \A e \in Int : YearStart(y) <= e /\ e <= remote.rolled => e \in Obs \cup overlooked
    BY <2>3, <2>4
  <2>5. CASE Known(y) /\ Whole(y, YearStart(y) - 1)
    <3>1. PICK b \in begun : Year(b) = y
      BY <2>5 DEF Known
    <3>2. b \in Int /\ FirstEnd(b) \in Int
      <4>1. \A x \in begun : x \in Int
        BY <2>1, Holds DEF WorldTypes
      <4> QED  BY <3>1, <4>1, FirstEndOf
    <3>3. CASE d <= FirstEnd(b)
      BY <2>2, <2>3, <2>5, <3>1, <3>3 DEF Whole
    <3>4. CASE FirstEnd(b) < d
      BY <2>1, <2>3, <3>1, <3>4 DEF HistoryInv, RolledInv
    <3> QED  BY <2>3, <3>2, <3>3, <3>4
  <2> QED  BY <2>1, <2>4, <2>5 DEF HistoryInv, TerminatedInv, Terminated
<1> QED  BY <1>1, HistoryInitInv, HistoryStep, PTL DEF HistorySpec

-----------------------------------------------------------------------------
(***************************************************************************)
(* The reading of JSONL stores (Reader).  ReaderInv says of every line that *)
(* a checkpoint has passed, and of every line that stood in its place since *)
(* the pass listed its file, that it was counted or excused.               *)
(***************************************************************************)

-----------------------------------------------------------------------------
(* Lines, files and checkpoints. *)
Line == Record \cup {Broken}
StoreFile == [ino : Nat, lines : Seq(Line), tail : Record \cup {Torn, NoCheck}, stamp : Nat]
Check == [ino : Nat, size : Nat, offset : Nat, stamp : Nat, mark : Line \cup {NoCheck}, of : SUBSET Line]
Pass ==
  [pc : {"idle", "walk", "read", "mark"}, to : Nat, seen : [Path -> StoreFile \cup {Gone}],
   todo : SUBSET Path, at : Path \cup {Gone}, read : SUBSET Line, offset : Nat,
   checks : [Path -> Check \cup {NoCheck}], ledger : SUBSET Record, provisional : SUBSET Record,
   clean : BOOLEAN]

TypeInv ==
  /\ writes \in Nat /\ today \in Nat /\ standing \subseteq Path \X Line
  /\ file \in [Path -> StoreFile \cup {Gone}] /\ wrote \in [Path -> SUBSET Line]
  /\ saved \in [checks : [Path -> Check \cup {NoCheck}], ledger : SUBSET Record]
  /\ pass \in Pass

(* No line is twice in a file, and every change leaves a new stamp.        *)
Lean(f) ==
  /\ f.stamp < writes
  /\ \A i, j \in 1 .. Len(f.lines) : f.lines[i] = f.lines[j] => i = j
FilesInv == \A p \in Path : file[p] # Gone => Lean(file[p]) /\ ToSet(file[p].lines) \subseteq wrote[p]

SeenInv ==
  /\ pass.pc \in {"idle", "walk"} =>
       pass.todo = {} /\ standing = {} /\ pass.seen = [p \in Path |-> Gone] /\ pass.clean
  /\ \A p \in pass.todo : pass.seen[p] # Gone
  /\ \A p \in Path : pass.seen[p] # Gone =>
       /\ pass.seen[p].stamp < writes
       /\ file[p] # Gone /\ file[p].stamp = pass.seen[p].stamp => file[p] = pass.seen[p]

(* A file that looks as it did at a checkpoint has only lines of it.       *)
Stands(c, f) == c # NoCheck /\ f # Gone /\ f.stamp = c.stamp => ToSet(f.lines) \subseteq c.of
ChecksInv ==
  /\ \A p \in Path :
       /\ \A c \in {saved.checks[p], pass.checks[p]} : c # NoCheck =>
            c.stamp < writes /\ c.offset <= c.size /\ Stands(c, file[p])
       /\ Stands(saved.checks[p], pass.seen[p])
  /\ pass.pc = "mark" =>
       /\ pass.at \in pass.todo
       /\ pass.offset <= Len(pass.seen[pass.at].lines)
       /\ file[pass.at] # Gone /\ file[pass.at].stamp = pass.seen[pass.at].stamp =>
            ToSet(file[pass.at].lines) \subseteq pass.read

(* A ledger has one record for each identity, of the past, up to the limit.*)
Tidy(l) ==
  IsFiniteSet(l) /\ Cardinality(l) <= LedgerLimit /\ \A q, r \in l : IdOf[q] = IdOf[r] => q = r
LedgerInv ==
  /\ \A l \in {saved.ledger, pass.ledger} : Tidy(l) /\ \A r \in l : DayOf[r] <= today
  /\ pass.to <= today

(* The records among some lines are counted, or excused. *)
Settled(lines, counted, to) ==
  \A r \in lines \cap Record : r \in blind \/ r \in counted \/ DayOf[r] <= to - Window
SettledBy(c, counted, to) == c # NoCheck => Settled(c.of, counted, to)

SettledInv ==
  /\ \A p \in Path : SettledBy(saved.checks[p], saved.ledger, today)
  /\ pass.pc # "idle" => \A p \in Path :
       SettledBy(saved.checks[p], pass.ledger, pass.to) /\ SettledBy(pass.checks[p], pass.ledger, pass.to)
  /\ pass.pc = "idle" => \A p \in Path : pass.checks[p] = NoCheck
  /\ pass.pc = "mark" => Settled(pass.read, pass.ledger, pass.to)

(* A line that stands is where it was listed; once its file is done it is  *)
(* counted.                                                                *)
InPlace(p, r) ==
  /\ file[p] # Gone /\ pass.seen[p] # Gone
  /\ \E i \in 1 .. Len(file[p].lines) :
       i <= Len(pass.seen[p].lines) /\ file[p].lines[i] = r /\ pass.seen[p].lines[i] = r

StandingInv ==
  \A p \in Path, r \in Line : <<p, r>> \in standing =>
    /\ InPlace(p, r)
    /\ pass.pc = "mark" /\ p = pass.at => r \in pass.read
    /\ p \notin pass.todo /\ pass.clean => Settled({r}, pass.ledger, pass.to)

ReaderInv ==
  /\ TypeInv /\ FilesInv /\ SeenInv /\ ChecksInv /\ LedgerInv /\ SettledInv /\ StandingInv
  /\ CompleteIsWhole
-----------------------------------------------------------------------------
(* Counting one line, and counting them one after the other. *)
Count == [ledger : SUBSET Record, full : BOOLEAN, clean : BOOLEAN]
IsTaken(line, counted, to) == line \in Record /\ (line \in counted \/ ~InRange(line, to))

(* One line: what is counted stays, and a clean count has taken the line.  *)
LEMMA CountedIs ==
  ASSUME NEW s \in Count, NEW line, NEW to \in Nat, s.full => ~s.clean
  PROVE  LET n == Counted(s, line, to)
         IN  /\ n \in Count /\ (n.full => ~n.clean) /\ (n.clean => s.clean /\ IsTaken(line, n.ledger, to))
             /\ s.ledger \subseteq n.ledger
             /\ n.ledger \subseteq s.ledger \cup {r \in {line} \cap Record : InRange(r, to)}
             /\ Tidy(s.ledger) => Tidy(n.ledger)
<1> DEFINE n == Counted(s, line, to)
           twins == {r \in s.ledger : IdOf[r] = IdOf[line]}
<1>0. n = IF s.full THEN s
          ELSE IF line \notin Record THEN [s EXCEPT !.clean = FALSE]
          ELSE IF ~InRange(line, to) \/ line \in s.ledger THEN s
          ELSE IF twins # {} THEN [s EXCEPT !.clean = FALSE]
          ELSE IF Cardinality(s.ledger) >= LedgerLimit THEN [s EXCEPT !.full = TRUE, !.clean = FALSE]
          ELSE [s EXCEPT !.ledger = @ \cup {line}]
  BY DEF Counted
<1> HIDE DEF n
<1>1. CASE s.full
  <2>1. n = s
    BY <1>0, <1>1
  <2> QED  BY <1>1, <2>1 DEF n
<1>2. CASE ~s.full /\ line \notin Record
  <2>1. n = [s EXCEPT !.clean = FALSE]
    BY <1>0, <1>2
  <2> QED  BY <2>1 DEF Count, n
<1>3. CASE ~s.full /\ line \in Record /\ (~InRange(line, to) \/ line \in s.ledger)
  <2>1. n = s
    BY <1>0, <1>3
  <2> QED  BY <1>3, <2>1 DEF n, IsTaken
<1>4. CASE ~s.full /\ line \in Record /\ InRange(line, to) /\ line \notin s.ledger /\ twins # {}
  <2>1. n = [s EXCEPT !.clean = FALSE]
    BY <1>0, <1>4
  <2> QED  BY <2>1 DEF Count, n
<1>5. CASE /\ ~s.full /\ line \in Record /\ InRange(line, to) /\ line \notin s.ledger /\ twins = {}
           /\ Cardinality(s.ledger) >= LedgerLimit
  <2>1. n = [s EXCEPT !.full = TRUE, !.clean = FALSE]
    BY <1>0, <1>5
  <2> QED  BY <2>1 DEF Count, n
<1>6. CASE /\ ~s.full /\ line \in Record /\ InRange(line, to) /\ line \notin s.ledger /\ twins = {}
           /\ ~(Cardinality(s.ledger) >= LedgerLimit)
  <2>1. n = [s EXCEPT !.ledger = @ \cup {line}]
    BY <1>0, <1>6
  <2>2. n \in Count /\ n.ledger = s.ledger \cup {line} /\ n.full = s.full /\ n.clean = s.clean
    BY <1>6, <2>1 DEF Count
  <2>3. Tidy(s.ledger) => Tidy(n.ledger)
    <3> SUFFICES ASSUME Tidy(s.ledger) PROVE Tidy(n.ledger)
      OBVIOUS
    <3>1. IsFiniteSet(n.ledger) /\ Cardinality(n.ledger) = Cardinality(s.ledger) + 1 /\ Cardinality(s.ledger) \in Nat
      BY <1>6, <2>2, FS_AddElement, FS_CardinalityType DEF Tidy
    <3>2. \A q, r \in n.ledger : IdOf[q] = IdOf[r] => q = r
      BY <1>6, <2>2 DEF Tidy
    <3>3. Cardinality(n.ledger) <= LedgerLimit
      BY <1>6, <3>1, ScanAssumption
    <3> QED  BY <3>1, <3>2, <3>3 DEF Tidy
  <2> QED  BY <1>6, <2>2, <2>3 DEF n, IsTaken
<1> QED  BY <1>1, <1>2, <1>3, <1>4, <1>5, <1>6

(* What CountedAll goes through. *)
Counting(lines, counted, to, m, g) ==
  /\ g \in [0 .. m -> Count]
  /\ g[0] = [ledger |-> counted, full |-> FALSE, clean |-> TRUE]
  /\ \A n \in 1 .. m : g[n] = Counted(g[n - 1], lines[n], to)
  /\ \A n \in 0 .. m :
       /\ g[n].full => ~g[n].clean
       /\ counted \subseteq g[n].ledger
       /\ g[n].ledger \subseteq counted \cup {r \in Record : InRange(r, to) /\ \E i \in 1 .. n : lines[i] = r}
       /\ g[n].clean => \A i \in 1 .. n : IsTaken(lines[i], g[n].ledger, to)
       /\ Tidy(counted) => Tidy(g[n].ledger)

(* There is such a run through any number of the lines.                    *)
LEMMA CountingExists ==
  ASSUME NEW L, NEW lines \in Seq(L), NEW counted \in SUBSET Record, NEW to \in Nat,
         NEW m \in 0 .. Len(lines)
  PROVE  \E g : Counting(lines, counted, to, m, g)
<1> DEFINE Lacking == {k \in 0 .. Len(lines) : ~\E g : Counting(lines, counted, to, k, g)}
<1>1. SUFFICES ASSUME Lacking # {} PROVE FALSE
  OBVIOUS
<1>0. Len(lines) \in Nat
  OBVIOUS
<1>2. PICK k \in Lacking : \A y \in Lacking : k <= y
  <2>1. Lacking \subseteq Nat
    OBVIOUS
  <2> QED  BY <1>1, <2>1, LeastNumber
<1>3. k \in 0 .. Len(lines) /\ ~\E g : Counting(lines, counted, to, k, g)
  OBVIOUS
<1>4. CASE k = 0
  <2> DEFINE e == [ledger |-> counted, full |-> FALSE, clean |-> TRUE]
             h == [n \in 0 .. 0 |-> e]
  <2>1. e \in Count /\ ~e.full /\ e.ledger = counted
    BY DEF Count
  <2> HIDE DEF e
  <2>2. h \in [0 .. 0 -> Count] /\ h[0] = e /\ \A n \in 0 .. 0 : n = 0
    BY <2>1
  <2>3. \A n \in 0 .. 0 : h[n] = e
    BY <2>2
  <2> HIDE DEF h
  <2>5. \A n \in 0 .. 0 :
       /\ h[n].full => ~h[n].clean
       /\ counted \subseteq h[n].ledger
       /\ h[n].ledger \subseteq counted \cup {r \in Record : InRange(r, to) /\ \E i \in 1 .. n : lines[i] = r}
       /\ h[n].clean => \A i \in 1 .. n : IsTaken(lines[i], h[n].ledger, to)
       /\ Tidy(counted) => Tidy(h[n].ledger)
    BY <2>1, <2>2, <2>3
  <2>6. h[0] = [ledger |-> counted, full |-> FALSE, clean |-> TRUE]
    BY <2>2 DEF e
  <2>4. Counting(lines, counted, to, 0, h)
    BY <2>2, <2>5, <2>6 DEF Counting
  <2> QED  BY <1>3, <1>4, <2>4
<1>5. CASE k # 0
  <2>1. k - 1 \in 0 .. Len(lines) /\ k - 1 \notin Lacking /\ k \in 1 .. Len(lines)
    BY <1>0, <1>2, <1>3, <1>5
  <2>2. PICK g : Counting(lines, counted, to, k - 1, g)
    BY <2>1
  <2> DEFINE next == Counted(g[k - 1], lines[k], to)
             h == [n \in 0 .. k |-> IF n = k THEN next ELSE g[n]]
             Fine(n, x) ==
               /\ x.full => ~x.clean
               /\ counted \subseteq x.ledger
               /\ x.ledger \subseteq counted \cup {r \in Record : InRange(r, to) /\ \E i \in 1 .. n : lines[i] = r}
               /\ x.clean => \A i \in 1 .. n : IsTaken(lines[i], x.ledger, to)
               /\ Tidy(counted) => Tidy(x.ledger)
  <2>3. /\ g \in [0 .. k - 1 -> Count] /\ g[0] = [ledger |-> counted, full |-> FALSE, clean |-> TRUE]
        /\ \A n \in 1 .. k - 1 : g[n] = Counted(g[n - 1], lines[n], to)
        /\ \A n \in 0 .. k - 1 : Fine(n, g[n])
    BY <2>2 DEF Counting
  <2>4. g[k - 1] \in Count /\ Fine(k - 1, g[k - 1])
    BY <2>1, <2>3
  <2>5. /\ next \in Count /\ (next.full => ~next.clean)
        /\ next.clean => g[k - 1].clean /\ IsTaken(lines[k], next.ledger, to)
        /\ g[k - 1].ledger \subseteq next.ledger
        /\ next.ledger \subseteq g[k - 1].ledger \cup {r \in {lines[k]} \cap Record : InRange(r, to)}
        /\ Tidy(g[k - 1].ledger) => Tidy(next.ledger)
    BY <2>4, CountedIs
  <2> HIDE DEF next
  <2>6. Fine(k, next)
    <3>1. \A i \in 1 .. k : i \in 1 .. k - 1 \/ i = k
      BY <2>1
    <3>2. next.ledger \subseteq counted \cup {r \in Record : InRange(r, to) /\ \E i \in 1 .. k : lines[i] = r}
      <4>1. \A i \in 1 .. k - 1 : i \in 1 .. k
        BY <2>1
      <4>2. k \in 1 .. k
        BY <2>1
      <4> QED  BY <2>4, <2>5, <4>1, <4>2
    <3>3. next.clean => \A i \in 1 .. k : IsTaken(lines[i], next.ledger, to)
      BY <2>4, <2>5, <3>1 DEF IsTaken
    <3> QED  BY <2>4, <2>5, <3>2, <3>3
  <2> HIDE DEF Fine
  <2>7. h \in [0 .. k -> Count]
    BY <1>0, <2>1, <2>3, <2>5
  <2>8. h[0] = [ledger |-> counted, full |-> FALSE, clean |-> TRUE]
    <3>1. 0 \in 0 .. k
      BY <2>1
    <3>2. h[0] = g[0]
      BY <1>5, <3>1
    <3> QED  BY <2>3, <3>2
  <2>9. ASSUME NEW n \in 1 .. k PROVE h[n] = Counted(h[n - 1], lines[n], to)
    <3>1. CASE n = k
      <4>1. h[n] = next /\ h[n - 1] = g[k - 1]
        BY <1>0, <2>1, <3>1
      <4> QED  BY <3>1, <4>1 DEF next
    <3>2. CASE n # k
      <4>1. h[n] = g[n] /\ h[n - 1] = g[n - 1] /\ n \in 1 .. k - 1
        BY <1>0, <2>1, <3>2
      <4> QED  BY <2>3, <4>1
    <3> QED  BY <3>1, <3>2
  <2>10. ASSUME NEW n \in 0 .. k PROVE Fine(n, h[n])
    <3>1. CASE n = k
      BY <2>1, <2>6, <3>1
    <3>2. CASE n # k
      <4>1. h[n] = g[n] /\ n \in 0 .. k - 1
        BY <1>0, <2>1, <3>2
      <4> QED  BY <2>3, <4>1
    <3> QED  BY <3>1, <3>2
  <2> HIDE DEF h
  <2>11. Counting(lines, counted, to, k, h)
    BY <2>7, <2>8, <2>9, <2>10 DEF Counting, Fine
  <2> QED  BY <1>3, <2>11
<1> QED  BY <1>4, <1>5

(* Counting keeps what was counted, and a clean count has taken each line. *)
LEMMA CountedAllIs ==
  ASSUME NEW L, NEW lines \in Seq(L), NEW counted \in SUBSET Record, NEW to \in Nat
  PROVE  LET n == CountedAll(counted, lines, to)
         IN  /\ n \in Count /\ counted \subseteq n.ledger
             /\ n.ledger \subseteq counted \cup
                  {r \in Record : InRange(r, to) /\ \E i \in 1 .. Len(lines) : lines[i] = r}
             /\ n.clean => \A i \in 1 .. Len(lines) : IsTaken(lines[i], n.ledger, to)
             /\ Tidy(counted) => Tidy(n.ledger)
<1>0. Len(lines) \in Nat /\ Len(lines) \in 0 .. Len(lines)
  OBVIOUS
<1>1. PICK g : Counting(lines, counted, to, Len(lines), g)
  BY <1>0, CountingExists
<1> DEFINE start == [ledger |-> counted, full |-> FALSE, clean |-> TRUE]
<1>2. g = [n \in 0 .. Len(lines) |-> IF n = 0 THEN start ELSE Counted(g[n - 1], lines[n], to)]
  <2>1. g = [n \in 0 .. Len(lines) |-> g[n]]
    BY <1>1 DEF Counting
  <2>2. ASSUME NEW n \in 0 .. Len(lines), n # 0
        PROVE  g[n] = Counted(g[n - 1], lines[n], to)
    <3>1. n \in 1 .. Len(lines)
      BY <2>2
    <3> QED  BY <1>1, <3>1 DEF Counting
  <2>3. g[0] = start
    BY <1>1 DEF Counting
  <2>4. \A n \in 0 .. Len(lines) : g[n] = IF n = 0 THEN start ELSE Counted(g[n - 1], lines[n], to)
    BY <2>2, <2>3
  <2> QED  BY <2>1, <2>4
<1> DEFINE f == CHOOSE f : f = [n \in 0 .. Len(lines) |->
             IF n = 0 THEN start ELSE Counted(f[n - 1], lines[n], to)]
<1>3. f = [n \in 0 .. Len(lines) |-> IF n = 0 THEN start ELSE Counted(f[n - 1], lines[n], to)]
  BY <1>2
<1>4. CountedAll(counted, lines, to) = f[Len(lines)]
  BY DEF CountedAll
<1> HIDE DEF f
<1>5. f[0] = start /\ \A n \in 1 .. Len(lines) : f[n] = Counted(f[n - 1], lines[n], to)
  <2>1. 0 \in 0 .. Len(lines) /\ \A n \in 1 .. Len(lines) : n \in 0 .. Len(lines) /\ n # 0
    BY <1>0
  <2> HIDE DEF start
  <2>2. \A n \in 0 .. Len(lines) : f[n] = IF n = 0 THEN start ELSE Counted(f[n - 1], lines[n], to)
    BY <1>3
  <2> QED  BY <2>1, <2>2
<1>6. \A n \in 0 .. Len(lines) : f[n] = g[n]
  <2> DEFINE Lacking == {k \in 0 .. Len(lines) : f[k] # g[k]}
  <2>1. SUFFICES ASSUME Lacking # {} PROVE FALSE
    OBVIOUS
  <2>2. PICK k \in Lacking : \A y \in Lacking : k <= y
    <3>1. Lacking \subseteq Nat
      OBVIOUS
    <3> QED  BY <2>1, <3>1, LeastNumber
  <2>3. k # 0
    BY <1>1, <1>5, <2>2 DEF Counting
  <2>4. k \in 1 .. Len(lines) /\ k - 1 \in 0 .. Len(lines) /\ ~(k <= k - 1)
    BY <1>0, <2>2, <2>3
  <2>5. f[k - 1] = g[k - 1]
    BY <2>2, <2>4
  <2>6. g[k] = Counted(g[k - 1], lines[k], to)
    BY <1>1, <2>4 DEF Counting
  <2> QED  BY <1>5, <2>2, <2>4, <2>5, <2>6
<1>7. CountedAll(counted, lines, to) = g[Len(lines)]
  BY <1>0, <1>4, <1>6
<1>8. /\ g[Len(lines)] \in Count /\ counted \subseteq g[Len(lines)].ledger
      /\ g[Len(lines)].ledger \subseteq counted \cup
           {r \in Record : InRange(r, to) /\ \E i \in 1 .. Len(lines) : lines[i] = r}
      /\ g[Len(lines)].clean => \A i \in 1 .. Len(lines) : IsTaken(lines[i], g[Len(lines)].ledger, to)
      /\ Tidy(counted) => Tidy(g[Len(lines)].ledger)
  BY <1>0, <1>1 DEF Counting
<1> QED  BY <1>7, <1>8
-----------------------------------------------------------------------------
(* Nothing is known of an empty store.                                     *)
LEMMA ReaderInitInv == ReaderInit => ReaderInv
<1> SUFFICES ASSUME ReaderInit PROVE ReaderInv
  OBVIOUS
<1>1. /\ file = [p \in Path |-> Gone] /\ wrote = [p \in Path |-> {}] /\ today = 1 /\ writes = 0
      /\ saved = [checks |-> [p \in Path |-> NoCheck], ledger |-> {}] /\ pass = Resting
      /\ result = [complete |-> FALSE, to |-> 0, records |-> {}, present |-> {}]
      /\ blind = {} /\ standing = {}
  BY DEF ReaderInit
<1>2. Resting \in Pass /\ Resting.pc = "idle" /\ Resting.todo = {} /\ Resting.seen = [p \in Path |-> Gone]
      /\ Resting.clean /\ Resting.checks = [p \in Path |-> NoCheck] /\ Resting.ledger = {} /\ Resting.to = 0
  BY DEF Resting, Pass
<1>3. TypeInv
  BY <1>1, <1>2 DEF TypeInv
<1>4. FilesInv /\ SeenInv /\ ChecksInv /\ SettledInv /\ StandingInv /\ CompleteIsWhole
  BY <1>1, <1>2 DEF FilesInv, SeenInv, ChecksInv, SettledInv, SettledBy, StandingInv, CompleteIsWhole, Stands
<1>5. LedgerInv
  <2>1. Tidy({})
    BY FS_EmptySet, ScanAssumption DEF Tidy
  <2> QED  BY <1>1, <1>2, <2>1 DEF LedgerInv
<1> QED  BY <1>3, <1>4, <1>5 DEF ReaderInv

(* A change of a file leaves where they were the lines that it leaves.     *)
Kept(old, new) ==
  old # Gone /\ new # Gone =>
    \A i \in 1 .. Len(old.lines) : i <= Len(new.lines) => new.lines[i] = old.lines[i]

NewIs(new, held) ==
  new # Gone =>
    /\ new \in StoreFile /\ new.stamp = writes
    /\ \A i, j \in 1 .. Len(new.lines) : new.lines[i] = new.lines[j] => i = j
    /\ ToSet(new.lines) \subseteq held

(* A change of the agent, whichever, keeps what a sync relies on.          *)
LEMMA ChangedKeeps ==
  ASSUME ReaderInv, NEW p \in Path, NEW new, NEW held \in SUBSET Line, Changed(p, new, held),
         NewIs(new, held), Kept(file[p], new)
  PROVE  ReaderInv'
<1>1. /\ writes' = writes + 1 /\ writes \in Nat
      /\ file' = [file EXCEPT ![p] = new] /\ file \in [Path -> StoreFile \cup {Gone}]
      /\ wrote' = [wrote EXCEPT ![p] = held] /\ wrote \in [Path -> SUBSET Line]
      /\ standing' = {line \in standing : line[1] # p \/ line[2] \in LinesOf(new)}
      /\ UNCHANGED <<today, saved, pass, result, blind, deaths>>
  BY DEF Changed, ReaderInv, TypeInv
<1>2. file'[p] = new /\ wrote'[p] = held /\ \A q \in Path \ {p} : file'[q] = file[q] /\ wrote'[q] = wrote[q]
  BY <1>1
<1>3. TypeInv'
  <2>1. new \in StoreFile \cup {Gone}
    BY DEF NewIs
  <2>2. writes' \in Nat /\ standing' \subseteq Path \X Line
    BY <1>1 DEF ReaderInv, TypeInv
  <2> QED  BY <1>1, <2>1, <2>2 DEF ReaderInv, TypeInv
<1>4. FilesInv'
  <2> SUFFICES ASSUME NEW q \in Path, file'[q] # Gone
               PROVE  Lean(file[q])' /\ ToSet(file'[q].lines) \subseteq wrote'[q]
    BY DEF FilesInv
  <2>1. CASE q = p
    BY <1>1, <1>2, <2>1 DEF NewIs, Lean
  <2>2. CASE q # p
    <3>1. Lean(file[q]) /\ ToSet(file[q].lines) \subseteq wrote[q] /\ file[q] \in StoreFile
      BY <1>1, <1>2, <2>2 DEF ReaderInv, FilesInv
    <3> QED  BY <1>1, <1>2, <2>2, <3>1 DEF Lean, StoreFile
  <2> QED  BY <2>1, <2>2
<1>5. \A f : f \in StoreFile /\ f.stamp < writes => f.stamp # writes /\ f.stamp < writes'
  BY <1>1 DEF StoreFile
<1>6. SeenInv'
  <2>1. \A q \in pass.todo : pass.seen[q] # Gone
    BY DEF ReaderInv, SeenInv
  <2>2. standing = {} => standing' = {}
    BY <1>1
  <2>3. ASSUME NEW q \in Path, pass.seen[q] # Gone
        PROVE  /\ pass.seen[q].stamp < writes'
               /\ file'[q] # Gone /\ file'[q].stamp = pass.seen[q].stamp => file'[q] = pass.seen[q]
    <3>1. pass.seen[q] \in StoreFile
      BY <2>3 DEF ReaderInv, TypeInv, Pass
    <3>2. /\ pass.seen[q].stamp < writes
          /\ file[q] # Gone /\ file[q].stamp = pass.seen[q].stamp => file[q] = pass.seen[q]
      BY <2>3 DEF ReaderInv, SeenInv
    <3> QED  BY <1>2, <1>5, <3>1, <3>2 DEF NewIs
  <2> QED  BY <1>1, <2>1, <2>2, <2>3 DEF ReaderInv, SeenInv
<1>7. ChecksInv'
  <2>1. ASSUME NEW q \in Path, NEW c \in {saved.checks[q], pass.checks[q]}, c # NoCheck
        PROVE  c.stamp < writes' /\ c.offset <= c.size /\ Stands(c, file[q])'
    <3>1. c \in Check
      BY <2>1 DEF ReaderInv, TypeInv, Pass
    <3>2. c.stamp < writes /\ c.offset <= c.size /\ Stands(c, file[q])
      BY <2>1 DEF ReaderInv, ChecksInv
    <3>3. c.stamp # writes /\ c.stamp < writes'
      BY <1>1, <3>1, <3>2 DEF Check
    <3> QED  BY <1>2, <3>2, <3>3 DEF Stands, NewIs
  <2>2. \A q \in Path : Stands(saved.checks[q], pass.seen[q])
    BY DEF ReaderInv, ChecksInv
  <2>3. ASSUME pass.pc = "mark"
        PROVE  /\ pass.at \in pass.todo /\ pass.offset <= Len(pass.seen[pass.at].lines)
               /\ file'[pass.at] # Gone /\ file'[pass.at].stamp = pass.seen[pass.at].stamp =>
                    ToSet(file'[pass.at].lines) \subseteq pass.read
    <3>1. /\ pass.at \in pass.todo /\ pass.offset <= Len(pass.seen[pass.at].lines)
          /\ file[pass.at] # Gone /\ file[pass.at].stamp = pass.seen[pass.at].stamp =>
               ToSet(file[pass.at].lines) \subseteq pass.read
      BY <2>3 DEF ReaderInv, ChecksInv
    <3>2. pass.at \in Path /\ pass.seen[pass.at] # Gone /\ pass.seen[pass.at] \in StoreFile
      BY <3>1 DEF ReaderInv, TypeInv, Pass, SeenInv
    <3>3. pass.seen[pass.at].stamp < writes
      BY <3>2 DEF ReaderInv, SeenInv
    <3> QED  BY <1>2, <1>5, <3>1, <3>2, <3>3 DEF NewIs
  <2> QED  BY <1>1, <2>1, <2>2, <2>3 DEF ChecksInv, Stands
<1>8. LedgerInv' /\ SettledInv' /\ CompleteIsWhole'
  BY <1>1 DEF ReaderInv, LedgerInv, SettledInv, SettledBy, Settled, CompleteIsWhole
<1>9. StandingInv'
  <2> SUFFICES ASSUME NEW q \in Path, NEW r \in Line, <<q, r>> \in standing'
               PROVE  /\ InPlace(q, r)'
                      /\ pass.pc = "mark" /\ q = pass.at => r \in pass.read
                      /\ q \notin pass.todo /\ pass.clean => Settled({r}, pass.ledger, pass.to)
    BY <1>1 DEF StandingInv, Settled
  <2>1. <<q, r>> \in standing /\ (q # p \/ r \in LinesOf(new))
    BY <1>1
  <2>2. /\ InPlace(q, r) /\ (pass.pc = "mark" /\ q = pass.at => r \in pass.read)
        /\ q \notin pass.todo /\ pass.clean => Settled({r}, pass.ledger, pass.to)
    BY <2>1 DEF ReaderInv, StandingInv
  <2>3. InPlace(q, r)'
    <3>1. CASE q # p
      BY <1>1, <1>2, <2>2, <3>1 DEF InPlace
    <3>2. CASE q = p
      <4>1. r \in LinesOf(new)
        BY <2>1, <3>2
      <4>2. new # Gone /\ \E j \in 1 .. Len(new.lines) : new.lines[j] = r
        BY <4>1 DEF LinesOf, ToSet, NewIs, StoreFile
      <4>3. PICK i \in 1 .. Len(file[p].lines) :
              i <= Len(pass.seen[p].lines) /\ file[p].lines[i] = r /\ pass.seen[p].lines[i] = r
        BY <2>2, <3>2 DEF InPlace
      <4>4. file[p] # Gone /\ pass.seen[p] # Gone /\ file[p] \in StoreFile
        BY <1>1, <2>2, <3>2 DEF InPlace
      <4>5. i <= Len(new.lines)
        <5>1. PICK j \in 1 .. Len(new.lines) : new.lines[j] = r
          BY <4>2
        <5>2. Len(new.lines) \in Nat /\ Len(file[p].lines) \in Nat
          BY <4>2, <4>4 DEF NewIs, StoreFile
        <5>3. ~(i <= Len(new.lines)) => j \in 1 .. Len(file[p].lines)
          BY <5>2
        <5>4. j \in 1 .. Len(file[p].lines) => file[p].lines[j] = r
          BY <4>2, <4>4, <5>1, <5>2 DEF Kept
        <5>5. Lean(file[p])
          BY <4>4 DEF ReaderInv, FilesInv
        <5>6. j \in 1 .. Len(file[p].lines) => i = j
          BY <4>3, <5>4, <5>5 DEF Lean
        <5> QED  BY <5>1, <5>2, <5>3, <5>6
      <4>6. new.lines[i] = r /\ i \in 1 .. Len(new.lines)
        <5>1. Len(new.lines) \in Nat /\ Len(file[p].lines) \in Nat
          BY <4>2, <4>4 DEF NewIs, StoreFile
        <5> QED  BY <4>2, <4>3, <4>4, <4>5, <5>1 DEF Kept
      <4> QED  BY <1>1, <1>2, <3>2, <4>2, <4>3, <4>4, <4>6 DEF InPlace
    <3> QED  BY <3>1, <3>2
  <2> QED  BY <2>2, <2>3
<1> QED  BY <1>3, <1>4, <1>6, <1>7, <1>8, <1>9 DEF ReaderInv

-----------------------------------------------------------------------------
(* The first lines of a file.                                              *)
LEMMA PrefixIs ==
  ASSUME NEW L, NEW lines \in Seq(L), NEW n \in Nat
  PROVE  LET s == Prefix(lines, n)
         IN  /\ s \in Seq(L) /\ Len(s) <= n /\ Len(s) <= Len(lines) /\ (n <= Len(lines) => Len(s) = n)
             /\ Len(s) = (IF n < Len(lines) THEN n ELSE Len(lines)) /\ Len(s) \in Nat
             /\ \A i \in 1 .. Len(s) : s[i] = lines[i] /\ i \in 1 .. Len(lines)
<1> DEFINE k == IF n < Len(lines) THEN n ELSE Len(lines)
<1>1. k \in Nat /\ k <= Len(lines) /\ k <= n /\ (n <= Len(lines) => k = n)
  OBVIOUS
<1>2. Prefix(lines, n) = SubSeq(lines, 1, k)
  BY DEF Prefix
<1> HIDE DEF k
<1>3. /\ SubSeq(lines, 1, k) \in Seq(L) /\ Len(SubSeq(lines, 1, k)) = k
      /\ \A i \in 1 .. k : SubSeq(lines, 1, k)[i] = lines[i]
  BY <1>1
<1> QED  BY <1>1, <1>2, <1>3 DEF k

(* A line more at the end, and fewer lines. *)
LEMMA LongerIs ==
  ASSUME NEW lines \in Seq(Line), NEW line \in Line, NEW held, ToSet(lines) \subseteq held, line \notin held,
         \A i, j \in 1 .. Len(lines) : lines[i] = lines[j] => i = j
  PROVE  LET s == Append(lines, line)
         IN  /\ s \in Seq(Line) /\ Len(lines) <= Len(s)
             /\ \A i, j \in 1 .. Len(s) : s[i] = s[j] => i = j
             /\ ToSet(s) \subseteq held \cup {line}
             /\ \A i \in 1 .. Len(lines) : s[i] = lines[i]
<1> DEFINE s == Append(lines, line)
<1>1. /\ s \in Seq(Line) /\ Len(s) = Len(lines) + 1 /\ s[Len(lines) + 1] = line /\ Len(lines) \in Nat
      /\ \A i \in 1 .. Len(lines) : s[i] = lines[i]
  OBVIOUS
<1>2. \A i \in 1 .. Len(lines) : lines[i] \in held
  BY DEF ToSet
<1> HIDE DEF s
<1>3. \A i \in 1 .. Len(s) : i \in 1 .. Len(lines) \/ i = Len(lines) + 1
  BY <1>1
<1>4. \A i, j \in 1 .. Len(s) : s[i] = s[j] => i = j
  BY <1>1, <1>2, <1>3
<1>5. ToSet(s) \subseteq held \cup {line}
  BY <1>1, <1>2, <1>3 DEF ToSet
<1> QED  BY <1>1, <1>4, <1>5 DEF s

(* The lines of a truncated file stood where they are.                     *)
LEMMA ShorterIs ==
  ASSUME NEW lines \in Seq(Line), NEW n \in Nat, \A i, j \in 1 .. Len(lines) : lines[i] = lines[j] => i = j
  PROVE  LET s == Prefix(lines, n)
         IN  /\ s \in Seq(Line) /\ ToSet(s) \subseteq ToSet(lines)
             /\ \A i, j \in 1 .. Len(s) : s[i] = s[j] => i = j
             /\ \A i \in 1 .. Len(lines) : i <= Len(s) => s[i] = lines[i]
<1> DEFINE s == Prefix(lines, n)
<1>1. s \in Seq(Line) /\ Len(s) \in Nat /\ \A i \in 1 .. Len(s) : s[i] = lines[i] /\ i \in 1 .. Len(lines)
  BY PrefixIs
<1> HIDE DEF s
<1>2. ToSet(s) \subseteq ToSet(lines)
  BY <1>1 DEF ToSet
<1>3. \A i \in 1 .. Len(lines) : i <= Len(s) => i \in 1 .. Len(s)
  BY <1>1
<1> QED  BY <1>1, <1>2, <1>3 DEF s

(* Each thing the agent does to a file. *)
LEMMA AgentInv ==
  ASSUME ReaderInv, Agent
  PROVE  ReaderInv'
<1>0. /\ writes \in Nat /\ today \in Nat
      /\ \A p \in Path : file[p] # Gone =>
           /\ file[p] \in StoreFile /\ Lean(file[p]) /\ ToSet(file[p].lines) \subseteq wrote[p]
      /\ \A p \in Path : wrote[p] \in SUBSET Line
  BY DEF ReaderInv, TypeInv, FilesInv
<1>1. CASE NextDay
  <2>1. today' = today + 1 /\ UNCHANGED <<file, wrote, writes, saved, pass, result, blind, standing, deaths>>
    BY <1>1 DEF NextDay
  <2>2. TypeInv' /\ FilesInv' /\ SeenInv' /\ ChecksInv' /\ StandingInv' /\ CompleteIsWhole'
    BY <1>0, <2>1 DEF ReaderInv, TypeInv, FilesInv, Lean, SeenInv, ChecksInv, Stands, StandingInv, InPlace,
                 Settled, CompleteIsWhole
  <2>3. pass.to \in Nat /\ saved.ledger \subseteq Record /\ pass.ledger \subseteq Record
    BY DEF ReaderInv, TypeInv, Pass
  <2>4. LedgerInv'
    BY <1>0, <2>1, <2>3, ScanAssumption DEF ReaderInv, LedgerInv
  <2>5. SettledInv'
    <3>1. ASSUME NEW p \in Path PROVE SettledBy(saved.checks[p], saved.ledger, today)'
      BY <1>0, <2>1, ScanAssumption DEF ReaderInv, SettledInv, SettledBy, Settled
    <3> QED  BY <2>1, <3>1 DEF ReaderInv, SettledInv, SettledBy, Settled
  <2> QED  BY <2>2, <2>4, <2>5 DEF ReaderInv
<1>2. ASSUME NEW p \in Path, CreateFile(p) PROVE ReaderInv'
  <2>1. PICK r \in Due : Changed(p, FileOf(writes, <<r>>, NoCheck, writes), {r})
    BY <1>2 DEF CreateFile
  <2>2. r \in Line /\ {r} \in SUBSET Line
    BY DEF Due, Line
  <2>3. NewIs(FileOf(writes, <<r>>, NoCheck, writes), {r})
    <3> DEFINE s == <<r>>
    <3>1. s \in Seq(Line) /\ Len(s) = 1 /\ s[1] = r
      BY <2>2
    <3> HIDE DEF s
    <3>2. ToSet(s) \subseteq {r} /\ \A i, j \in 1 .. Len(s) : s[i] = s[j] => i = j
      BY <3>1 DEF ToSet
    <3>3. NewIs(FileOf(writes, s, NoCheck, writes), {r})
      BY <1>0, <3>1, <3>2 DEF NewIs, FileOf, StoreFile
    <3> QED  BY <3>3 DEF s
  <2>4. Kept(file[p], FileOf(writes, <<r>>, NoCheck, writes))
    BY <1>2 DEF CreateFile, Kept
  <2> HIDE DEF NewIs, Kept
  <2> QED  BY <2>1, <2>2, <2>3, <2>4, ChangedKeeps
<1>3. ASSUME NEW p \in Path, AppendLine(p) PROVE ReaderInv'
  <2>0. file[p] # Gone
    BY <1>3 DEF AppendLine
  <2> DEFINE f == file[p]
  <2>1. PICK line \in Writable(p) \cup ({Broken} \ wrote[p]) :
          Changed(p, [f EXCEPT !.lines = Append(@, line), !.stamp = writes], wrote[p] \cup {line})
    BY <1>3 DEF AppendLine
  <2>2. line \in Line /\ line \notin wrote[p]
    BY DEF Writable, Due, Line
  <2>3. /\ f \in StoreFile /\ f.lines \in Seq(Line) /\ ToSet(f.lines) \subseteq wrote[p]
        /\ \A i, j \in 1 .. Len(f.lines) : f.lines[i] = f.lines[j] => i = j
    BY <1>0, <2>0 DEF StoreFile, Lean
  <2> DEFINE s == Append(f.lines, line)
             new == [f EXCEPT !.lines = Append(@, line), !.stamp = writes]
  <2>4. /\ s \in Seq(Line) /\ Len(f.lines) <= Len(s) /\ (\A i, j \in 1 .. Len(s) : s[i] = s[j] => i = j)
        /\ ToSet(s) \subseteq wrote[p] \cup {line} /\ \A i \in 1 .. Len(f.lines) : s[i] = f.lines[i]
    BY <2>2, <2>3, LongerIs
  <2>5. new.lines = s /\ new.stamp = writes /\ new = [f EXCEPT !.lines = s, !.stamp = writes]
    BY <2>3 DEF StoreFile
  <2> HIDE DEF s, new
  <2>6. new \in StoreFile
    <3> HIDE DEF f
    <3> QED  BY <1>0, <2>3, <2>4, <2>5 DEF StoreFile
  <2>7. NewIs(new, wrote[p] \cup {line}) /\ Kept(f, new)
    BY <2>4, <2>5, <2>6 DEF NewIs, Kept
  <2>8. wrote[p] \cup {line} \in SUBSET Line
    BY <1>0, <2>2
  <2>9. Changed(p, new, wrote[p] \cup {line})
    BY <2>1 DEF new
  <2> QED  BY <2>7, <2>8, <2>9, ChangedKeeps
<1>4. ASSUME NEW p \in Path, AppendPart(p) PROVE ReaderInv'
  <2>0. file[p] # Gone
    BY <1>4 DEF AppendPart
  <2> DEFINE f == file[p]
  <2>1. PICK r \in Writable(p) : \E piece \in {Torn, r} :
               Changed(p, [f EXCEPT !.tail = piece, !.stamp = writes], wrote[p])
    BY <1>4 DEF AppendPart
  <2>2. PICK piece \in {Torn, r} : Changed(p, [f EXCEPT !.tail = piece, !.stamp = writes], wrote[p])
    BY <2>1
  <2>3. piece \in Record \cup {Torn, NoCheck}
    BY DEF Writable, Due
  <2>4. /\ f \in StoreFile /\ ToSet(f.lines) \subseteq wrote[p]
        /\ \A i, j \in 1 .. Len(f.lines) : f.lines[i] = f.lines[j] => i = j
    BY <1>0, <2>0 DEF Lean
  <2> DEFINE new == [f EXCEPT !.tail = piece, !.stamp = writes]
  <2>5. new \in StoreFile /\ new.lines = f.lines /\ new.stamp = writes
    <3> HIDE DEF f
    <3> QED  BY <1>0, <2>3, <2>4 DEF StoreFile
  <2> HIDE DEF new
  <2>6. NewIs(new, wrote[p]) /\ Kept(f, new)
    BY <2>4, <2>5 DEF NewIs, Kept
  <2>7. Changed(p, new, wrote[p])
    BY <2>2 DEF new
  <2> QED  BY <1>0, <2>6, <2>7, ChangedKeeps
<1>5. ASSUME NEW p \in Path, EndLine(p) PROVE ReaderInv'
  <2>0. file[p] # Gone
    BY <1>5 DEF EndLine
  <2> DEFINE f == file[p]
  <2>1. PICK r \in Writable(p) : Changed(p, [f EXCEPT !.lines = Append(@, r), !.tail = NoCheck,
                                    !.stamp = writes], wrote[p] \cup {r})
    BY <1>5 DEF EndLine
  <2>2. r \in Line /\ r \notin wrote[p]
    BY DEF Writable, Due, Line
  <2>3. /\ f \in StoreFile /\ f.lines \in Seq(Line) /\ ToSet(f.lines) \subseteq wrote[p]
        /\ \A i, j \in 1 .. Len(f.lines) : f.lines[i] = f.lines[j] => i = j
    BY <1>0, <2>0 DEF StoreFile, Lean
  <2> DEFINE s == Append(f.lines, r)
             new == [f EXCEPT !.lines = Append(@, r), !.tail = NoCheck, !.stamp = writes]
  <2>4. /\ s \in Seq(Line) /\ Len(f.lines) <= Len(s) /\ (\A i, j \in 1 .. Len(s) : s[i] = s[j] => i = j)
        /\ ToSet(s) \subseteq wrote[p] \cup {r} /\ \A i \in 1 .. Len(f.lines) : s[i] = f.lines[i]
    BY <2>2, <2>3, LongerIs
  <2>5. new.lines = s /\ new.stamp = writes /\ new = [f EXCEPT !.lines = s, !.tail = NoCheck, !.stamp = writes]
    BY <2>3 DEF StoreFile
  <2> HIDE DEF s, new
  <2>6. new \in StoreFile
    <3> HIDE DEF f
    <3> QED  BY <1>0, <2>3, <2>4, <2>5 DEF StoreFile
  <2>7. NewIs(new, wrote[p] \cup {r}) /\ Kept(f, new)
    BY <2>4, <2>5, <2>6 DEF NewIs, Kept
  <2>8. wrote[p] \cup {r} \in SUBSET Line
    BY <1>0, <2>2
  <2>9. Changed(p, new, wrote[p] \cup {r})
    BY <2>1 DEF new
  <2> QED  BY <2>7, <2>8, <2>9, ChangedKeeps
<1>6. ASSUME NEW p \in Path, file[p] # Gone, NEW ino \in Nat, NEW n \in Nat, NEW held \in SUBSET Line,
             ToSet(Prefix(file[p].lines, n)) \subseteq held,
             Changed(p, FileOf(ino, Prefix(file[p].lines, n), NoCheck, writes), held)
      PROVE  ReaderInv'
  <2> DEFINE s == Prefix(file[p].lines, n)
             new == FileOf(ino, s, NoCheck, writes)
  <2>1. file[p].lines \in Seq(Line) /\ \A i, j \in 1 .. Len(file[p].lines) : file[p].lines[i] = file[p].lines[j] => i = j
    BY <1>0, <1>6 DEF StoreFile, Lean
  <2>2. /\ s \in Seq(Line) /\ (\A i, j \in 1 .. Len(s) : s[i] = s[j] => i = j)
        /\ \A i \in 1 .. Len(file[p].lines) : i <= Len(s) => s[i] = file[p].lines[i]
    BY <2>1, ShorterIs
  <2>3. ToSet(s) \subseteq held
    BY <1>6
  <2> HIDE DEF s
  <2>4. new \in StoreFile /\ new.lines = s /\ new.stamp = writes
    BY <1>0, <2>2 DEF FileOf, StoreFile
  <2>5. Changed(p, new, held)
    BY <1>6 DEF s
  <2> HIDE DEF new
  <2>6. NewIs(new, held) /\ Kept(file[p], new)
    BY <2>2, <2>3, <2>4 DEF NewIs, Kept
  <2> QED  BY <2>5, <2>6, ChangedKeeps
<1>7. ASSUME NEW p \in Path, Truncate(p) PROVE ReaderInv'
  <2>1. file[p] # Gone
    BY <1>7 DEF Truncate
  <2>2. file[p] \in StoreFile /\ file[p].lines \in Seq(Line) /\ file[p].ino \in Nat /\ Len(file[p].lines) \in Nat
    BY <1>0, <2>1 DEF StoreFile
  <2>3. PICK n \in 0 .. (Len(file[p].lines) - 1) :
          Changed(p, FileOf(file[p].ino, Prefix(file[p].lines, n), NoCheck, writes), wrote[p])
    BY <1>7 DEF Truncate
  <2>4. n \in Nat
    OBVIOUS
  <2>5. ToSet(Prefix(file[p].lines, n)) \subseteq wrote[p]
    <3>1. ToSet(Prefix(file[p].lines, n)) \subseteq ToSet(file[p].lines)
      BY <1>0, <2>1, <2>2, <2>4, ShorterIs DEF Lean
    <3> QED  BY <1>0, <2>1, <3>1
  <2> QED  BY <1>0, <1>6, <2>1, <2>2, <2>3, <2>4, <2>5
<1>8. ASSUME NEW p \in Path, ReplaceFile(p) PROVE ReaderInv'
  <2>1. file[p] # Gone
    BY <1>8 DEF ReplaceFile
  <2>2. file[p] \in StoreFile /\ file[p].lines \in Seq(Line) /\ Len(file[p].lines) \in Nat
    BY <1>0, <2>1 DEF StoreFile
  <2>3. PICK n \in 0 .. Len(file[p].lines) :
          Changed(p, FileOf(writes, Prefix(file[p].lines, n), NoCheck, writes), ToSet(Prefix(file[p].lines, n)))
    BY <1>8 DEF ReplaceFile
  <2>4. n \in Nat
    OBVIOUS
  <2>5. ToSet(Prefix(file[p].lines, n)) \in SUBSET Line
    <3>1. Prefix(file[p].lines, n) \in Seq(Line)
      BY <2>2, <2>4, PrefixIs
    <3> QED  BY <3>1 DEF ToSet
  <2> QED  BY <1>0, <1>6, <2>1, <2>3, <2>4, <2>5
<1>9. ASSUME NEW p \in Path, DeleteFile(p) PROVE ReaderInv'
  <2>1. Changed(p, Gone, {})
    BY <1>9 DEF DeleteFile
  <2>2. NewIs(Gone, {}) /\ Kept(file[p], Gone) /\ {} \in SUBSET Line
    BY DEF NewIs, Kept
  <2> QED  BY <2>1, <2>2, ChangedKeeps
<1> QED  BY <1>1, <1>2, <1>3, <1>4, <1>5, <1>7, <1>8, <1>9 DEF Agent

-----------------------------------------------------------------------------
(* The passes. *)
LEMMA PassIs ==
  ASSUME ReaderInv
  PROVE  /\ pass \in Pass /\ saved.ledger \subseteq Record /\ today \in Nat /\ pass.to \in Nat
         /\ pass.ledger \subseteq Record /\ pass.todo \subseteq Path
         /\ \A p \in Path : saved.checks[p] \in Check \cup {NoCheck} /\ pass.checks[p] \in Check \cup {NoCheck}
         /\ \A p \in Path : pass.seen[p] \in StoreFile \cup {Gone} /\ file[p] \in StoreFile \cup {Gone}
  BY DEF ReaderInv, TypeInv, Pass

(* A pass begins with the part of the ledger that is in its range.         *)
LEMMA BeginInv ==
  ASSUME ReaderInv, BeginPass
  PROVE  ReaderInv'
<1> DEFINE new == [Resting EXCEPT !.pc = "walk", !.to = today, !.ledger = Pruned(saved.ledger, today)]
<1>1. /\ pass.pc = "idle" /\ pass' = new
      /\ UNCHANGED <<file, wrote, today, writes, saved, result, blind, standing, deaths>>
  BY DEF BeginPass, storeVars
<1>2. Pruned(saved.ledger, today) \subseteq saved.ledger /\ saved.ledger \subseteq Record /\ today \in Nat
  BY PassIs DEF Pruned
<1>3. /\ new.pc = "walk" /\ new.to = today /\ new.ledger = Pruned(saved.ledger, today)
      /\ new.seen = [p \in Path |-> Gone] /\ new.todo = {} /\ new.clean
      /\ new.checks = [p \in Path |-> NoCheck] /\ new \in Pass
  BY <1>2 DEF Resting, Pass
<1> HIDE DEF new
<1>4. TypeInv' /\ FilesInv' /\ CompleteIsWhole'
  BY <1>1, <1>3 DEF ReaderInv, TypeInv, FilesInv, Lean, CompleteIsWhole
<1>5. standing = {}
  BY <1>1 DEF ReaderInv, SeenInv
<1>6. SeenInv' /\ StandingInv'
  BY <1>1, <1>3, <1>5 DEF SeenInv, StandingInv
<1>7. ChecksInv'
  BY <1>1, <1>3 DEF ReaderInv, ChecksInv, Stands
<1>8. LedgerInv'
  <2>1. Tidy(Pruned(saved.ledger, today))
    <3>1. Tidy(saved.ledger)
      BY DEF ReaderInv, LedgerInv
    <3>2. IsFiniteSet(Pruned(saved.ledger, today)) /\ Cardinality(Pruned(saved.ledger, today)) <= Cardinality(saved.ledger)
      BY <1>2, <3>1, FS_Subset DEF Tidy
    <3>3. Cardinality(saved.ledger) \in Nat /\ Cardinality(Pruned(saved.ledger, today)) \in Nat
      BY <3>1, <3>2, FS_CardinalityType DEF Tidy
    <3> QED  BY <1>2, <3>1, <3>2, <3>3, ScanAssumption DEF Tidy
  <2> QED  BY <1>1, <1>2, <1>3, <2>1 DEF ReaderInv, LedgerInv
<1>9. SettledInv'
  <2>1. \A r \in saved.ledger : DayOf[r] <= today
    BY DEF ReaderInv, LedgerInv
  <2>2. \A r \in saved.ledger : r \in Pruned(saved.ledger, today) \/ DayOf[r] <= today - Window
    BY <1>2, <2>1, ScanAssumption DEF Pruned, InRange
  <2>3. ASSUME NEW p \in Path PROVE SettledBy(saved.checks[p], Pruned(saved.ledger, today), today)
    BY <2>2 DEF ReaderInv, SettledInv, SettledBy, Settled
  <2> QED  BY <1>1, <1>3, <2>3 DEF ReaderInv, SettledInv, SettledBy, Settled
<1> QED  BY <1>4, <1>6, <1>7, <1>8, <1>9 DEF ReaderInv

(* The walk lists the files as they are.                                   *)
LEMMA WalkInv ==
  ASSUME ReaderInv, Walk
  PROVE  ReaderInv'
<1> DEFINE new == [pass EXCEPT !.pc = "read", !.seen = file, !.todo = {p \in Path : file[p] # Gone}]
<1>1. /\ pass.pc = "walk" /\ pass' = new
      /\ standing' = UNION {{p} \X LinesOf(file[p]) : p \in Path}
      /\ UNCHANGED <<file, wrote, today, writes, saved, result, blind, deaths>>
  BY DEF Walk, storeVars
<1>2. /\ new.pc = "read" /\ new.seen = file /\ new.todo = {p \in Path : file[p] # Gone} /\ new \in Pass
      /\ new.to = pass.to /\ new.ledger = pass.ledger /\ new.checks = pass.checks /\ new.clean = pass.clean
  BY DEF ReaderInv, TypeInv, Pass
<1> HIDE DEF new
<1>3. \A p \in Path : \A r \in LinesOf(file[p]) :
        /\ file[p] # Gone /\ r \in Line /\ \E i \in 1 .. Len(file[p].lines) : file[p].lines[i] = r
  BY DEF ReaderInv, TypeInv, StoreFile, LinesOf, ToSet
<1>4. \A s \in standing' : s \in Path \X Line
  BY <1>1, <1>3
<1>5. \A p \in Path, r \in Line : <<p, r>> \in standing' => r \in LinesOf(file[p])
  BY <1>1
<1>6. TypeInv' /\ FilesInv' /\ CompleteIsWhole'
  BY <1>1, <1>2, <1>4 DEF ReaderInv, TypeInv, FilesInv, Lean, CompleteIsWhole
<1>7. SeenInv'
  BY <1>1, <1>2 DEF ReaderInv, SeenInv, FilesInv, Lean
<1>8. ChecksInv'
  BY <1>1, <1>2 DEF ReaderInv, ChecksInv, Stands
<1>9. LedgerInv' /\ SettledInv'
  BY <1>1, <1>2 DEF ReaderInv, LedgerInv, SettledInv, SettledBy, Settled
<1>10. StandingInv'
  <2> SUFFICES ASSUME NEW p \in Path, NEW r \in Line, <<p, r>> \in standing'
               PROVE  InPlace(p, r)' /\ p \in new.todo
    BY <1>1, <1>2 DEF StandingInv
  <2>1. /\ file[p] # Gone /\ \E i \in 1 .. Len(file[p].lines) : file[p].lines[i] = r
        /\ Len(file[p].lines) \in Nat
    BY <1>3, <1>5, PassIs DEF StoreFile
  <2> QED  BY <1>1, <1>2, <2>1 DEF InPlace
<1> QED  BY <1>6, <1>7, <1>8, <1>9, <1>10 DEF ReaderInv

(* What is known of a checkpoint is known of a file that looks like it.    *)
LEMMA SkipInv ==
  ASSUME ReaderInv, NEW p \in Path, SkipUnchanged(p)
  PROVE  ReaderInv'
<1> DEFINE new == [pass EXCEPT !.checks[p] = saved.checks[p], !.todo = @ \ {p}]
<1>1. /\ pass.pc = "read" /\ p \in pass.todo /\ pass' = new /\ Unchanged(saved.checks[p], pass.seen[p])
      /\ UNCHANGED <<file, wrote, today, writes, saved, result, blind, standing, deaths>>
  BY DEF SkipUnchanged, storeVars, Keeping
<1>2. /\ new.pc = "read" /\ new.seen = pass.seen /\ new.todo = pass.todo \ {p} /\ new \in Pass
      /\ new.to = pass.to /\ new.ledger = pass.ledger /\ new.clean = pass.clean
      /\ new.checks = [pass.checks EXCEPT ![p] = saved.checks[p]]
  BY <1>1 DEF ReaderInv, TypeInv, Pass
<1>3. new.checks[p] = saved.checks[p] /\ \A q \in Path \ {p} : new.checks[q] = pass.checks[q]
  BY <1>2 DEF ReaderInv, TypeInv, Pass
<1> HIDE DEF new
<1>4. TypeInv' /\ FilesInv' /\ CompleteIsWhole' /\ LedgerInv'
  BY <1>1, <1>2 DEF ReaderInv, TypeInv, FilesInv, Lean, CompleteIsWhole, LedgerInv
<1>5. SeenInv'
  BY <1>1, <1>2 DEF ReaderInv, SeenInv
<1>6. ChecksInv'
  <2>1. ASSUME NEW q \in Path, NEW c \in {saved.checks[q], new.checks[q]}, c # NoCheck
        PROVE  c.stamp < writes /\ c.offset <= c.size /\ Stands(c, file[q])
    BY <1>3, <2>1 DEF ReaderInv, ChecksInv
  <2> QED  BY <1>1, <1>2, <2>1 DEF ReaderInv, ChecksInv, Stands
<1>7. SettledInv'
  <2>1. ASSUME NEW q \in Path PROVE SettledBy(new.checks[q], pass.ledger, pass.to)
    BY <1>1, <1>3 DEF ReaderInv, SettledInv
  <2> QED  BY <1>1, <1>2, <2>1 DEF ReaderInv, SettledInv, SettledBy, Settled
<1>8. StandingInv'
  <2> SUFFICES ASSUME NEW q \in Path, NEW r \in Line, <<q, r>> \in standing
               PROVE  InPlace(q, r)' /\ (q \notin new.todo /\ new.clean => Settled({r}, pass.ledger, pass.to))
    BY <1>1, <1>2 DEF StandingInv, Settled
  <2>1. InPlace(q, r) /\ (q \notin pass.todo /\ pass.clean => Settled({r}, pass.ledger, pass.to))
    BY DEF ReaderInv, StandingInv
  <2>2. InPlace(q, r)'
    BY <1>1, <1>2, <2>1 DEF InPlace
  <2>3. ASSUME q = p PROVE Settled({r}, pass.ledger, pass.to)
    <3>1. /\ saved.checks[p] # NoCheck /\ pass.seen[p].stamp = saved.checks[p].stamp
      BY <1>1 DEF Unchanged
    <3>2. pass.seen[p] # Gone /\ r \in ToSet(pass.seen[p].lines)
      <4>1. PICK i \in 1 .. Len(file[p].lines) : i <= Len(pass.seen[p].lines) /\ pass.seen[p].lines[i] = r
        BY <2>1, <2>3 DEF InPlace
      <4>2. pass.seen[p] \in StoreFile
        BY <2>1, <2>3, PassIs DEF InPlace
      <4>3. i \in 1 .. Len(pass.seen[p].lines)
        BY <4>1, <4>2 DEF StoreFile
      <4> QED  BY <2>1, <2>3, <4>1, <4>2, <4>3 DEF InPlace, ToSet, StoreFile
    <3>3. ToSet(pass.seen[p].lines) \subseteq saved.checks[p].of
      BY <3>1, <3>2 DEF ReaderInv, ChecksInv, Stands
    <3> QED  BY <1>1, <3>1, <3>2, <3>3 DEF ReaderInv, SettledInv, SettledBy, Settled
  <2> QED  BY <1>2, <2>1, <2>2, <2>3
<1> QED  BY <1>4, <1>5, <1>6, <1>7, <1>8 DEF ReaderInv

(* A file that is gone leaves its checkpoint and makes the pass partial.   *)
LEMMA VanishedInv ==
  ASSUME ReaderInv, NEW p \in Path, FileVanished(p)
  PROVE  ReaderInv'
<1> DEFINE new == [[pass EXCEPT !.checks[p] = saved.checks[p], !.todo = @ \ {p}] EXCEPT
                     !.pc = "read", !.clean = FALSE, !.at = Gone, !.read = {}, !.offset = 0]
<1>1. /\ pass.pc \in {"read", "mark"} /\ p \in pass.todo /\ pass' = new
      /\ UNCHANGED <<file, wrote, today, writes, saved, result, blind, standing, deaths>>
  BY DEF FileVanished, storeVars, Keeping
<1>2. /\ new.pc = "read" /\ new.seen = pass.seen /\ new.todo = pass.todo \ {p} /\ new \in Pass
      /\ new.to = pass.to /\ new.ledger = pass.ledger /\ ~new.clean
      /\ new.checks = [pass.checks EXCEPT ![p] = saved.checks[p]]
  BY <1>1 DEF ReaderInv, TypeInv, Pass
<1>3. new.checks[p] = saved.checks[p] /\ \A q \in Path \ {p} : new.checks[q] = pass.checks[q]
  BY <1>2 DEF ReaderInv, TypeInv, Pass
<1> HIDE DEF new
<1>4. TypeInv' /\ FilesInv' /\ CompleteIsWhole' /\ LedgerInv'
  BY <1>1, <1>2 DEF ReaderInv, TypeInv, FilesInv, Lean, CompleteIsWhole, LedgerInv
<1>5. SeenInv'
  BY <1>1, <1>2 DEF ReaderInv, SeenInv
<1>6. ChecksInv'
  <2>1. ASSUME NEW q \in Path, NEW c \in {saved.checks[q], new.checks[q]}, c # NoCheck
        PROVE  c.stamp < writes /\ c.offset <= c.size /\ Stands(c, file[q])
    BY <1>3, <2>1 DEF ReaderInv, ChecksInv
  <2> QED  BY <1>1, <1>2, <2>1 DEF ReaderInv, ChecksInv, Stands
<1>7. SettledInv'
  <2>1. ASSUME NEW q \in Path PROVE SettledBy(new.checks[q], pass.ledger, pass.to)
    BY <1>1, <1>3 DEF ReaderInv, SettledInv
  <2> QED  BY <1>1, <1>2, <2>1 DEF ReaderInv, SettledInv, SettledBy, Settled
<1>8. StandingInv'
  <2> SUFFICES ASSUME NEW q \in Path, NEW r \in Line, <<q, r>> \in standing
               PROVE  InPlace(q, r)'
    BY <1>1, <1>2 DEF StandingInv
  <2>1. InPlace(q, r)
    BY DEF ReaderInv, StandingInv
  <2> QED  BY <1>1, <1>2, <2>1 DEF InPlace
<1> QED  BY <1>4, <1>5, <1>6, <1>7, <1>8 DEF ReaderInv

(* A pass that dies leaves the saved state as it was.                      *)
LEMMA DieInv ==
  ASSUME ReaderInv, DiePass
  PROVE  ReaderInv'
<1>1. /\ pass' = Resting /\ standing' = {}
      /\ UNCHANGED <<file, wrote, today, writes, saved, result, blind>>
  BY DEF DiePass, storeVars
<1>2. Resting \in Pass /\ Resting.pc = "idle" /\ Resting.todo = {} /\ Resting.seen = [p \in Path |-> Gone]
      /\ Resting.clean /\ Resting.checks = [p \in Path |-> NoCheck] /\ Resting.ledger = {} /\ Resting.to = 0
  BY DEF Resting, Pass
<1>3. TypeInv' /\ FilesInv' /\ CompleteIsWhole' /\ SeenInv' /\ StandingInv'
  BY <1>1, <1>2 DEF ReaderInv, TypeInv, FilesInv, Lean, CompleteIsWhole, SeenInv, StandingInv
<1>4. ChecksInv'
  BY <1>1, <1>2 DEF ReaderInv, ChecksInv, Stands
<1>5. LedgerInv'
  <2>1. Tidy({}) /\ today \in Nat
    BY FS_EmptySet, ScanAssumption, PassIs DEF Tidy
  <2> QED  BY <1>1, <1>2, <2>1 DEF ReaderInv, LedgerInv
<1>6. SettledInv'
  BY <1>1, <1>2 DEF ReaderInv, SettledInv, SettledBy, Settled
<1> QED  BY <1>3, <1>4, <1>5, <1>6 DEF ReaderInv

(* The end of a pass saves what it counted with its checkpoints.           *)
LEMMA FinishInv ==
  ASSUME ReaderInv, FinishPass
  PROVE  ReaderInv'
<1>1. /\ pass.pc = "read" /\ pass.todo = {} /\ pass' = Resting /\ standing' = {}
      /\ saved' = [checks |-> KeptChecks, ledger |-> pass.ledger]
      /\ result' = [complete |-> pass.clean, to |-> pass.to, present |-> {line[2] : line \in standing} \cap Record,
                records |-> pass.ledger \cup
                  {r \in pass.provisional : \A q \in pass.ledger : IdOf[q] # IdOf[r]}]
      /\ UNCHANGED <<file, wrote, today, writes, blind, deaths>>
  BY DEF FinishPass, storeVars
<1>2. Resting \in Pass /\ Resting.pc = "idle" /\ Resting.todo = {} /\ Resting.seen = [p \in Path |-> Gone]
      /\ Resting.clean /\ Resting.checks = [p \in Path |-> NoCheck] /\ Resting.ledger = {} /\ Resting.to = 0
  BY DEF Resting, Pass
<1>3. KeptChecks \in [Path -> Check \cup {NoCheck}] /\ \A p \in Path : KeptChecks[p] \in {saved.checks[p], pass.checks[p]}
  BY PassIs DEF KeptChecks
<1>4. saved'.checks = KeptChecks /\ saved'.ledger = pass.ledger
  BY <1>1
<1>5. TypeInv'
  BY <1>1, <1>2, <1>3, PassIs DEF ReaderInv, TypeInv
<1>6. FilesInv' /\ SeenInv' /\ StandingInv'
  BY <1>1, <1>2 DEF ReaderInv, FilesInv, Lean, SeenInv, StandingInv
<1>7. ChecksInv'
  <2>1. ASSUME NEW p \in Path PROVE KeptChecks[p] # NoCheck =>
          KeptChecks[p].stamp < writes /\ KeptChecks[p].offset <= KeptChecks[p].size /\ Stands(KeptChecks[p], file[p])
    BY <1>3 DEF ReaderInv, ChecksInv
  <2> QED  BY <1>1, <1>2, <1>4, <2>1 DEF ChecksInv, Stands
<1>8. LedgerInv'
  <2>1. Tidy({}) /\ today \in Nat
    BY FS_EmptySet, ScanAssumption, PassIs DEF Tidy
  <2> QED  BY <1>1, <1>2, <1>4, <2>1 DEF ReaderInv, LedgerInv
<1>9. SettledInv'
  <2>1. ASSUME NEW p \in Path PROVE SettledBy(KeptChecks[p], pass.ledger, today)
    <3>1. SettledBy(KeptChecks[p], pass.ledger, pass.to)
      BY <1>1, <1>3 DEF ReaderInv, SettledInv
    <3>2. \A r \in Record : DayOf[r] <= pass.to - Window => DayOf[r] <= today - Window
      BY ScanAssumption, PassIs DEF ReaderInv, LedgerInv
    <3> QED  BY <3>1, <3>2 DEF SettledBy, Settled
  <2> QED  BY <1>1, <1>2, <1>4, <2>1 DEF SettledInv, SettledBy, Settled
<1>10. CompleteIsWhole'
  <2> SUFFICES ASSUME pass.clean, NEW r \in ({line[2] : line \in standing} \cap Record) \ blind, InRange(r, pass.to)
               PROVE  r \in pass.ledger
    BY <1>1 DEF CompleteIsWhole
  <2>1. PICK s \in standing : s[2] = r
    OBVIOUS
  <2>2. s \in Path \X Line
    BY DEF ReaderInv, TypeInv
  <2>3. s[1] \in Path /\ r \in Line /\ <<s[1], r>> \in standing
    BY <2>1, <2>2
  <2>4. Settled({r}, pass.ledger, pass.to)
    BY <1>1, <2>3 DEF ReaderInv, StandingInv
  <2>5. ~(DayOf[r] <= pass.to - Window)
    BY PassIs, ScanAssumption DEF InRange
  <2> QED  BY <2>4, <2>5 DEF Settled
<1> QED  BY <1>5, <1>6, <1>7, <1>8, <1>9, <1>10 DEF ReaderInv

(* A mark is a line, or none.                                              *)
LEMMA MarkIs ==
  ASSUME NEW lines \in Seq(Line), NEW n
  PROVE  Mark(lines, n) \in Line \cup {NoCheck}
BY DEF Mark

(* The checkpoint of what was read. *)
LEMMA MarkFileInv ==
  ASSUME ReaderInv, NEW p \in Path, MarkFile(p)
  PROVE  ReaderInv'
<1> DEFINE c == Checkpoint(pass.seen[p], pass.offset, Mark(file[p].lines, pass.offset), pass.read)
           new == [pass EXCEPT !.pc = "read", !.todo = @ \ {p}, !.at = Gone, !.read = {}, !.offset = 0,
                     !.checks[p] = c]
<1>1. /\ pass.pc = "mark" /\ pass.at = p /\ file[p] # Gone /\ pass' = new
      /\ UNCHANGED <<file, wrote, today, writes, saved, result, blind, standing, deaths>>
  BY DEF MarkFile, storeVars
<1>2. /\ p \in pass.todo /\ pass.seen[p] # Gone /\ pass.seen[p] \in StoreFile /\ file[p] \in StoreFile
      /\ pass.offset <= Len(pass.seen[p].lines) /\ pass.seen[p].stamp < writes
      /\ file[p].stamp = pass.seen[p].stamp => ToSet(file[p].lines) \subseteq pass.read
  <2>1. p \in pass.todo /\ pass.offset <= Len(pass.seen[p].lines)
        /\ (file[p].stamp = pass.seen[p].stamp => ToSet(file[p].lines) \subseteq pass.read)
    BY <1>1 DEF ReaderInv, ChecksInv
  <2> QED  BY <1>1, <2>1, PassIs DEF ReaderInv, SeenInv
<1>3. /\ c.stamp = pass.seen[p].stamp /\ c.of = pass.read /\ c.offset = pass.offset
      /\ c.size = Len(pass.seen[p].lines) /\ c \in Check
  <2>1. Mark(file[p].lines, pass.offset) \in Line \cup {NoCheck}
    BY <1>2, MarkIs DEF StoreFile
  <2> QED  BY <1>2, <2>1, PassIs DEF Checkpoint, Check, StoreFile, Pass
<1> HIDE DEF c
<1>4. /\ new.pc = "read" /\ new.seen = pass.seen /\ new.todo = pass.todo \ {p} /\ new \in Pass
      /\ new.to = pass.to /\ new.ledger = pass.ledger /\ new.clean = pass.clean
      /\ new.checks = [pass.checks EXCEPT ![p] = c]
  BY <1>1, <1>3 DEF ReaderInv, TypeInv, Pass
<1>5. new.checks[p] = c /\ \A q \in Path \ {p} : new.checks[q] = pass.checks[q]
  BY <1>4 DEF ReaderInv, TypeInv, Pass
<1> HIDE DEF new
<1>6. TypeInv' /\ FilesInv' /\ CompleteIsWhole' /\ LedgerInv'
  BY <1>1, <1>4 DEF ReaderInv, TypeInv, FilesInv, Lean, CompleteIsWhole, LedgerInv
<1>7. SeenInv'
  BY <1>1, <1>4 DEF ReaderInv, SeenInv
<1>8. ChecksInv'
  <2>1. ASSUME NEW q \in Path, NEW d \in {saved.checks[q], new.checks[q]}, d # NoCheck
        PROVE  d.stamp < writes /\ d.offset <= d.size /\ Stands(d, file[q])
    <3>1. CASE q = p /\ d = c
      BY <1>2, <1>3, <3>1 DEF Stands
    <3>2. CASE ~(q = p /\ d = c)
      <4>1. d \in {saved.checks[q], pass.checks[q]}
        BY <1>5, <2>1, <3>2
      <4> QED  BY <2>1, <4>1 DEF ReaderInv, ChecksInv
    <3> QED  BY <3>1, <3>2
  <2> QED  BY <1>1, <1>4, <2>1 DEF ReaderInv, ChecksInv, Stands
<1>9. SettledInv'
  <2>1. ASSUME NEW q \in Path PROVE SettledBy(new.checks[q], pass.ledger, pass.to)
    <3>1. CASE q = p
      BY <1>1, <1>3, <1>5, <3>1 DEF ReaderInv, SettledInv, SettledBy
    <3>2. CASE q # p
      BY <1>1, <1>5, <3>2 DEF ReaderInv, SettledInv
    <3> QED  BY <3>1, <3>2
  <2> QED  BY <1>1, <1>4, <2>1 DEF ReaderInv, SettledInv, SettledBy, Settled
<1>10. StandingInv'
  <2> SUFFICES ASSUME NEW q \in Path, NEW r \in Line, <<q, r>> \in standing
               PROVE  InPlace(q, r)' /\ (q \notin new.todo /\ new.clean => Settled({r}, pass.ledger, pass.to))
    BY <1>1, <1>4 DEF StandingInv, Settled
  <2>1. /\ InPlace(q, r) /\ (q = p => r \in pass.read)
        /\ q \notin pass.todo /\ pass.clean => Settled({r}, pass.ledger, pass.to)
    BY <1>1 DEF ReaderInv, StandingInv
  <2>2. InPlace(q, r)'
    BY <1>1, <1>4, <2>1 DEF InPlace
  <2>3. Settled(pass.read, pass.ledger, pass.to)
    BY <1>1 DEF ReaderInv, SettledInv
  <2>4. ASSUME q = p PROVE Settled({r}, pass.ledger, pass.to)
    BY <2>1, <2>3, <2>4 DEF Settled
  <2> QED  BY <1>4, <2>1, <2>2, <2>4
<1> QED  BY <1>6, <1>7, <1>8, <1>9, <1>10 DEF ReaderInv

(* What a scan of a file has counted: all of its lines, if it is clean,    *)
(* besides those before its start.                                         *)
ScanFits(s, start, check, counted, seen, lines, current, to) ==
  /\ s.ledger \subseteq Record /\ counted \subseteq s.ledger
  /\ s.ledger \subseteq counted \cup {r \in Record : InRange(r, to) /\ \E i \in 1 .. Len(lines) : lines[i] = r}
  /\ s.provisional \subseteq Record /\ s.clean \in BOOLEAN /\ s.offset \in Nat
  /\ Tidy(counted) => Tidy(s.ledger)
  /\ Len(lines) <= Len(seen.lines) => s.offset <= Len(seen.lines)
  /\ start \in Nat /\ (start # 0 => Appended(check, seen, current) /\ start = check.offset)
  /\ \A i \in 1 .. Len(lines) : i <= start \/ ~s.clean
       \/ lines[i] \in s.ledger \/ lines[i] \in s.skipped \/ DayOf[lines[i]] <= to - Window

(* What a scan returns fits.                                               *)
LEMMA ScannedIs ==
  ASSUME NEW L, NEW check, check # NoCheck => check.offset \in Nat, NEW counted \in SUBSET Record,
         NEW seen, seen.lines \in Seq(L), NEW lines \in Seq(L), NEW tail, NEW current \in Seq(L), NEW to \in Nat
  PROVE  ScanFits(Scanned(check, counted, seen, lines, tail, current, to), ResumeAt(check, seen, current),
                  check, counted, seen, lines, current, to)
<1> DEFINE s == Scanned(check, counted, seen, lines, tail, current, to)
           start == ResumeAt(check, seen, current)
           rest == SubSeq(lines, start + 1, Len(lines))
           n == CountedAll(counted, rest, to)
           skipped == {r \in Record \cap {lines[i] : i \in (start + 1) .. Len(lines)} : DayOf[r] > to}
<1>1. start \in Nat /\ (start # 0 => Appended(check, seen, current) /\ start = check.offset)
      /\ start <= Len(seen.lines)
  BY DEF ResumeAt, Appended
<1>2. Len(lines) \in Nat
  OBVIOUS
<1>3. /\ s.ledger = n.ledger /\ s.clean = (n.clean /\ tail = NoCheck) /\ s.skipped = skipped
      /\ s.offset = (IF start < Len(lines) THEN Len(lines) ELSE start)
      /\ s.provisional = Provisional(check, Appended(check, seen, current), n.ledger, tail, to)
  BY DEF Scanned
<1> HIDE DEF start, s
<1>4. /\ rest \in Seq(L)
      /\ \A i \in 1 .. Len(rest) : \E j \in 1 .. Len(lines) : lines[j] = rest[i]
      /\ \A i \in 1 .. Len(lines) : i <= start \/ (i - start \in 1 .. Len(rest) /\ rest[i - start] = lines[i])
  <2>1. CASE start + 1 <= Len(lines)
    <3>1. start + 1 \in 1 .. Len(lines)
      BY <1>1, <1>2, <2>1
    <3>2. /\ rest \in Seq(L) /\ Len(rest) = Len(lines) - start
          /\ \A i \in 1 .. Len(lines) - start : rest[i] = lines[start + i] /\ start + i \in 1 .. Len(lines)
      BY <1>1, <1>2, <3>1
    <3> HIDE DEF rest
    <3>3. ASSUME NEW i \in 1 .. Len(lines), ~(i <= start)
          PROVE  i - start \in 1 .. Len(rest) /\ rest[i - start] = lines[i]
      <4>1. i - start \in 1 .. Len(lines) - start /\ start + (i - start) = i
        BY <1>1, <1>2, <3>3
      <4> QED  BY <3>2, <4>1
    <3> QED  BY <3>2, <3>3
  <2>2. CASE ~(start + 1 <= Len(lines))
    <3>1. rest = <<>>
      BY <1>1, <1>2, <2>2
    <3>2. \A i \in 1 .. Len(lines) : i <= start
      BY <1>1, <1>2, <2>2
    <3>3. <<>> \in Seq(L) /\ Len(<<>>) = 0
      OBVIOUS
    <3> HIDE DEF rest
    <3> QED  BY <3>1, <3>2, <3>3
  <2> QED  BY <2>1, <2>2
<1> HIDE DEF rest
<1>5. /\ n \in Count /\ counted \subseteq n.ledger
      /\ n.ledger \subseteq counted \cup
           {r \in Record : InRange(r, to) /\ \E i \in 1 .. Len(rest) : rest[i] = r}
      /\ n.clean => \A i \in 1 .. Len(rest) : IsTaken(rest[i], n.ledger, to)
      /\ Tidy(counted) => Tidy(n.ledger)
  BY <1>4, CountedAllIs
<1> HIDE DEF n
<1>6. ASSUME NEW i \in 1 .. Len(lines), ~(i <= start), s.clean
      PROVE  lines[i] \in s.ledger \/ lines[i] \in s.skipped \/ DayOf[lines[i]] <= to - Window
  <2>1. IsTaken(lines[i], n.ledger, to)
    BY <1>3, <1>4, <1>5, <1>6
  <2>2. CASE lines[i] \in n.ledger
    BY <1>3, <2>2
  <2>3. CASE lines[i] \in Record /\ ~InRange(lines[i], to)
    <3>1. DayOf[lines[i]] <= to - Window \/ DayOf[lines[i]] > to
      BY <2>3, ScanAssumption DEF InRange
    <3>2. i \in (start + 1) .. Len(lines)
      BY <1>1, <1>2, <1>6
    <3> QED  BY <1>3, <2>3, <3>1, <3>2
  <2> QED  BY <2>1, <2>2, <2>3 DEF IsTaken
<1>7. s.provisional \subseteq Record
  BY <1>3 DEF Provisional
<1>8. s.ledger \subseteq Record /\ s.clean \in BOOLEAN /\ s.offset \in Nat
  BY <1>1, <1>2, <1>3, <1>5 DEF Count
<1>9. Len(lines) <= Len(seen.lines) => s.offset <= Len(seen.lines)
  BY <1>1, <1>3
<1>10. s.ledger \subseteq counted \cup {r \in Record : InRange(r, to) /\ \E i \in 1 .. Len(lines) : lines[i] = r}
  BY <1>3, <1>4, <1>5
<1> QED  BY <1>1, <1>3, <1>5, <1>6, <1>7, <1>8, <1>9, <1>10 DEF s, start, ScanFits

(* A file that is read: what was before the start was counted by an earlier *)
(* pass, unless its mark misleads, and the rest now.                       *)
LEMMA ReadIs ==
  ASSUME ReaderInv, NEW p \in pass.todo, file[p] # Gone
  PROVE  LET lines == LinesRead(p)
             s == Scanned(saved.checks[p], pass.ledger, pass.seen[p], lines, TailRead(p), file[p].lines, pass.to)
         IN  /\ lines \in Seq(Line)
             /\ \A i \in 1 .. Len(lines) : lines[i] = file[p].lines[i]
             /\ \A i \in 1 .. Len(file[p].lines) : i <= Len(pass.seen[p].lines) => i \in 1 .. Len(lines)
             /\ s.ledger \subseteq Record /\ pass.ledger \subseteq s.ledger
             /\ s.ledger \subseteq pass.ledger \cup {r \in Record : InRange(r, pass.to)}
             /\ s.provisional \subseteq Record /\ s.clean \in BOOLEAN /\ s.offset \in Nat
             /\ Tidy(s.ledger) /\ s.offset <= Len(pass.seen[p].lines)
             /\ s.clean => \A r \in ToSet(lines) \cap Record :
                  \/ r \in blind \cup s.skipped \cup MisledBy(saved.checks[p], file[p].lines)
                  \/ r \in s.ledger \/ DayOf[r] <= pass.to - Window
<1> DEFINE check == saved.checks[p]
           seen == pass.seen[p]
           current == file[p].lines
           lines == LinesRead(p)
           s == Scanned(check, pass.ledger, seen, lines, TailRead(p), current, pass.to)
           start == ResumeAt(check, seen, current)
           misled == MisledBy(check, current)
<1>1. /\ p \in Path /\ seen \in StoreFile /\ seen # Gone /\ file[p] \in StoreFile
      /\ check \in Check \cup {NoCheck} /\ pass.ledger \in SUBSET Record /\ pass.to \in Nat
      /\ current \in Seq(Line) /\ seen.lines \in Seq(Line) /\ Len(seen.lines) \in Nat /\ Len(current) \in Nat
  BY PassIs DEF ReaderInv, SeenInv, StoreFile
<1>2. check # NoCheck => check.offset <= check.size
  BY <1>1 DEF ReaderInv, ChecksInv
<1>3. /\ lines \in Seq(Line) /\ Len(lines) <= Len(seen.lines) /\ Len(lines) \in Nat
      /\ \A i \in 1 .. Len(lines) : lines[i] = current[i] /\ i \in 1 .. Len(current)
      /\ Len(lines) = (IF Len(seen.lines) < Len(current) THEN Len(seen.lines) ELSE Len(current))
  <2>1. lines = Prefix(current, Len(seen.lines))
    BY DEF LinesRead
  <2> HIDE DEF lines
  <2> QED  BY <1>1, <2>1, PrefixIs
<1>4. \A i \in 1 .. Len(current) : i <= Len(seen.lines) => i \in 1 .. Len(lines)
  BY <1>1, <1>3
<1> HIDE DEF lines
<1>5. /\ s.ledger \subseteq Record /\ pass.ledger \subseteq s.ledger
      /\ s.ledger \subseteq pass.ledger \cup
           {r \in Record : InRange(r, pass.to) /\ \E i \in 1 .. Len(lines) : lines[i] = r}
      /\ s.provisional \subseteq Record /\ s.clean \in BOOLEAN /\ s.offset \in Nat
      /\ Tidy(pass.ledger) => Tidy(s.ledger)
      /\ Len(lines) <= Len(seen.lines) => s.offset <= Len(seen.lines)
      /\ start \in Nat /\ (start # 0 => Appended(check, seen, current) /\ start = check.offset)
      /\ \A i \in 1 .. Len(lines) : i <= start \/ ~s.clean
           \/ lines[i] \in s.ledger \/ lines[i] \in s.skipped \/ DayOf[lines[i]] <= pass.to - Window
  <2>1. check # NoCheck => check.offset \in Nat
    BY <1>1 DEF Check
  <2>2. ScanFits(s, start, check, pass.ledger, seen, lines, current, pass.to)
    BY <1>1, <1>3, <2>1, ScannedIs
  <2> HIDE DEF check, seen, current, s, start
  <2> QED  BY <1>3, <2>2 DEF ScanFits
<1> HIDE DEF s, start
<1>6. ASSUME NEW i \in 1 .. Len(lines), i <= start
      PROVE  check # NoCheck /\ (lines[i] \in check.of \/ lines[i] \in misled)
  <2>1. start # 0 /\ check # NoCheck /\ check.mark = Mark(current, check.offset) /\ start = check.offset
    BY <1>3, <1>5, <1>6 DEF Appended
  <2>2. lines[i] \in ToSet(Prefix(current, start))
    <3> DEFINE t == Prefix(current, start)
    <3>1. /\ Len(t) = (IF start < Len(current) THEN start ELSE Len(current)) /\ Len(t) \in Nat
          /\ \A j \in 1 .. Len(t) : t[j] = current[j]
      BY <1>1, <1>5, PrefixIs
    <3> HIDE DEF t
    <3>2. i \in 1 .. Len(t)
      BY <1>1, <1>3, <1>5, <1>6, <3>1
    <3>3. lines[i] = t[i]
      BY <1>3, <3>1, <3>2
    <3>4. lines[i] \in ToSet(t)
      BY <3>2, <3>3 DEF ToSet
    <3> QED  BY <3>4 DEF t
  <2> QED  BY <2>1, <2>2 DEF MisledBy
<1>7. ASSUME s.clean, NEW r \in ToSet(lines) \cap Record
      PROVE  \/ r \in blind \cup s.skipped \cup misled
             \/ r \in s.ledger \/ DayOf[r] <= pass.to - Window
  <2>1. PICK i \in 1 .. Len(lines) : lines[i] = r
    BY DEF ToSet
  <2>2. CASE i <= start
    <3>1. check # NoCheck /\ (r \in check.of \/ r \in misled)
      BY <1>6, <2>1, <2>2
    <3>2. SettledBy(check, pass.ledger, pass.to)
      <4>1. pass.pc # "idle"
        BY DEF ReaderInv, SeenInv
      <4> QED  BY <1>1, <4>1 DEF ReaderInv, SettledInv
    <3> HIDE DEF check, misled
    <3> QED  BY <1>5, <3>1, <3>2 DEF SettledBy, Settled
  <2>3. CASE ~(i <= start)
    BY <1>5, <1>7, <2>1, <2>3
  <2> QED  BY <2>2, <2>3
<1>8. Tidy(pass.ledger)
  BY DEF ReaderInv, LedgerInv
<1> QED  BY <1>3, <1>4, <1>5, <1>7, <1>8 DEF lines, s

(* Reading a file, with or without an incident.                            *)
LEMMA ReadFileInv ==
  ASSUME ReaderInv, NEW p \in Path, ReadFile(p)
  PROVE  ReaderInv'
<1> DEFINE check == saved.checks[p]
           lines == LinesRead(p)
           s == Scanned(check, pass.ledger, pass.seen[p], lines, TailRead(p), file[p].lines, pass.to)
           next == IF s.clean
                   THEN [pass EXCEPT !.pc = "mark", !.at = p, !.offset = s.offset, !.read = ToSet(lines)]
                   ELSE [Keeping(p) EXCEPT !.clean = FALSE]
           new == [next EXCEPT !.ledger = s.ledger, !.provisional = @ \cup s.provisional]
           misled == MisledBy(check, file[p].lines)
<1>1. /\ pass.pc = "read" /\ p \in pass.todo /\ file[p] # Gone /\ pass' = new
      /\ blind' = blind \cup s.skipped \cup misled
      /\ UNCHANGED <<file, wrote, today, writes, saved, result, standing, deaths>>
  BY DEF ReadFile, storeVars
<1>2. /\ lines \in Seq(Line)
      /\ \A i \in 1 .. Len(lines) : lines[i] = file[p].lines[i]
      /\ \A i \in 1 .. Len(file[p].lines) : i <= Len(pass.seen[p].lines) => i \in 1 .. Len(lines)
      /\ s.ledger \subseteq Record /\ pass.ledger \subseteq s.ledger
      /\ s.ledger \subseteq pass.ledger \cup {r \in Record : InRange(r, pass.to)}
      /\ s.provisional \subseteq Record /\ s.clean \in BOOLEAN /\ s.offset \in Nat
      /\ Tidy(s.ledger) /\ s.offset <= Len(pass.seen[p].lines)
      /\ s.clean => \A r \in ToSet(lines) \cap Record :
           \/ r \in blind \cup s.skipped \cup misled \/ r \in s.ledger \/ DayOf[r] <= pass.to - Window
  BY <1>1, ReadIs
<1> HIDE DEF s, lines, misled, check
<1>3. ToSet(lines) \subseteq Line
  BY <1>2 DEF ToSet
<1>4. /\ new \in Pass /\ new.to = pass.to /\ new.seen = pass.seen /\ new.ledger = s.ledger
      /\ s.clean =>
           /\ new.pc = "mark" /\ new.at = p /\ new.offset = s.offset /\ new.read = ToSet(lines)
           /\ new.todo = pass.todo /\ new.checks = pass.checks /\ new.clean = pass.clean
      /\ ~s.clean =>
           /\ new.pc = "read" /\ new.todo = pass.todo \ {p} /\ ~new.clean
           /\ new.checks = [pass.checks EXCEPT ![p] = saved.checks[p]]
  <2>1. pass \in Pass /\ saved.checks[p] \in Check \cup {NoCheck}
    BY PassIs
  <2>2. CASE s.clean
    <3>1. new = [[pass EXCEPT !.pc = "mark", !.at = p, !.offset = s.offset, !.read = ToSet(lines)] EXCEPT
                  !.ledger = s.ledger, !.provisional = @ \cup s.provisional]
      BY <2>2
    <3> HIDE DEF new
    <3> QED  BY <1>2, <1>3, <2>1, <2>2, <3>1 DEF Pass
  <2>3. CASE ~s.clean
    <3>1. new = [[[pass EXCEPT !.checks[p] = saved.checks[p], !.todo = @ \ {p}] EXCEPT !.clean = FALSE] EXCEPT
                  !.ledger = s.ledger, !.provisional = @ \cup s.provisional]
      BY <2>3 DEF Keeping
    <3> HIDE DEF new
    <3> QED  BY <1>1, <1>2, <2>1, <2>3, <3>1 DEF Pass
  <2> QED  BY <2>2, <2>3
<1> HIDE DEF new, next
<1>5. \A q \in Path : new.checks[q] \in {pass.checks[q], saved.checks[q]}
  BY <1>4 DEF ReaderInv, TypeInv, Pass
<1>6. TypeInv' /\ FilesInv'
  BY <1>1, <1>4 DEF ReaderInv, TypeInv, FilesInv, Lean
<1>7. CompleteIsWhole'
  BY <1>1 DEF ReaderInv, CompleteIsWhole
<1>8. SeenInv'
  BY <1>1, <1>4 DEF ReaderInv, SeenInv
<1>9. LedgerInv'
  <2>1. \A r \in s.ledger : DayOf[r] <= today
    <3>1. \A r \in Record : InRange(r, pass.to) => DayOf[r] <= today
      BY PassIs, ScanAssumption DEF ReaderInv, LedgerInv, InRange
    <3> QED  BY <1>2, <3>1 DEF ReaderInv, LedgerInv
  <2> QED  BY <1>1, <1>2, <1>4, <2>1 DEF ReaderInv, LedgerInv
<1>10. ChecksInv'
  <2>1. ASSUME NEW q \in Path, NEW c \in {saved.checks[q], new.checks[q]}, c # NoCheck
        PROVE  c.stamp < writes /\ c.offset <= c.size /\ Stands(c, file[q])
    BY <1>5, <2>1 DEF ReaderInv, ChecksInv
  <2>2. \A q \in Path : Stands(saved.checks[q], pass.seen[q])
    BY DEF ReaderInv, ChecksInv
  <2>3. ASSUME new.pc = "mark"
        PROVE  /\ new.at \in new.todo /\ new.offset <= Len(pass.seen[new.at].lines)
               /\ file[new.at].stamp = pass.seen[new.at].stamp => ToSet(file[new.at].lines) \subseteq new.read
    <3>1. s.clean /\ new.at = p
      BY <1>2, <1>4, <2>3
    <3>2. ASSUME file[p].stamp = pass.seen[p].stamp
          PROVE  ToSet(file[p].lines) \subseteq ToSet(lines)
      <4>1. pass.seen[p] # Gone /\ file[p] = pass.seen[p] /\ file[p] \in StoreFile
        BY <1>1, <3>2, PassIs DEF ReaderInv, SeenInv
      <4>2. \A i \in 1 .. Len(file[p].lines) : i \in 1 .. Len(lines)
        BY <1>2, <4>1 DEF StoreFile
      <4>3. \A i \in 1 .. Len(file[p].lines) : file[p].lines[i] \in ToSet(lines)
        <5> SUFFICES ASSUME NEW i \in 1 .. Len(file[p].lines) PROVE file[p].lines[i] \in ToSet(lines)
          OBVIOUS
        <5>1. i \in 1 .. Len(lines)
          BY <4>2
        <5>2. lines[i] \in ToSet(lines)
          BY <5>1 DEF ToSet
        <5>3. lines[i] = file[p].lines[i]
          BY <1>2, <5>1
        <5> QED  BY <5>2, <5>3
      <4>4. file[p].lines \in Seq(Line)
        BY <4>1 DEF StoreFile
      <4>5. \A r \in ToSet(file[p].lines) : \E i \in 1 .. Len(file[p].lines) : r = file[p].lines[i]
        BY <4>4 DEF ToSet
      <4> QED  BY <4>3, <4>5
    <3> QED  BY <1>1, <1>2, <1>4, <3>1, <3>2
  <2> QED  BY <1>1, <1>4, <2>1, <2>2, <2>3 DEF ChecksInv, Stands
<1>11. \A r \in ToSet(lines) \cap Record : s.clean =>
         r \in blind' \/ r \in s.ledger \/ DayOf[r] <= pass.to - Window
  BY <1>1, <1>2
<1>12. blind \subseteq blind'
  BY <1>1
<1>13. SettledInv'
  <2>1. ASSUME NEW q \in Path
        PROVE  SettledBy(saved.checks[q], saved.ledger, today)'
    BY <1>1, <1>12 DEF ReaderInv, SettledInv, SettledBy, Settled
  <2>2. ASSUME NEW q \in Path, NEW c \in {saved.checks[q], new.checks[q]}, c # NoCheck,
               NEW r \in c.of \cap Record
        PROVE  r \in blind' \/ r \in s.ledger \/ DayOf[r] <= pass.to - Window
    <3>1. SettledBy(saved.checks[q], pass.ledger, pass.to) /\ SettledBy(pass.checks[q], pass.ledger, pass.to)
      BY <1>1 DEF ReaderInv, SettledInv
    <3> QED  BY <1>2, <1>5, <1>12, <2>2, <3>1 DEF SettledBy, Settled
  <2>3. new.pc = "mark" => s.clean /\ new.read = ToSet(lines)
    BY <1>2, <1>4
  <2> QED  BY <1>1, <1>4, <1>11, <2>1, <2>2, <2>3 DEF SettledInv, SettledBy, Settled
<1>14. StandingInv'
  <2> SUFFICES ASSUME NEW q \in Path, NEW r \in Line, <<q, r>> \in standing
               PROVE  /\ InPlace(q, r)' /\ (new.pc = "mark" /\ q = new.at => r \in new.read)
                      /\ q \notin new.todo /\ new.clean /\ r \in Record =>
                           r \in blind' \/ r \in s.ledger \/ DayOf[r] <= pass.to - Window
    BY <1>1, <1>4 DEF StandingInv, Settled
  <2>1. /\ InPlace(q, r)
        /\ q \notin pass.todo /\ pass.clean => Settled({r}, pass.ledger, pass.to)
    BY DEF ReaderInv, StandingInv
  <2>2. InPlace(q, r)'
    BY <1>1, <1>4, <2>1 DEF InPlace
  <2>3. ASSUME q = p PROVE r \in ToSet(lines)
    <3>1. PICK i \in 1 .. Len(file[p].lines) : i <= Len(pass.seen[p].lines) /\ file[p].lines[i] = r
      BY <2>1, <2>3 DEF InPlace
    <3>2. i \in 1 .. Len(lines) /\ lines[i] = r
      BY <1>2, <3>1
    <3> QED  BY <3>2 DEF ToSet
  <2>4. CASE s.clean
    BY <1>2, <1>4, <1>12, <2>1, <2>2, <2>3, <2>4 DEF Settled
  <2>5. CASE ~s.clean
    BY <1>4, <2>2, <2>5
  <2> QED  BY <1>2, <2>4, <2>5
<1> QED  BY <1>6, <1>7, <1>8, <1>9, <1>10, <1>13, <1>14 DEF ReaderInv

(* Every step. *)
LEMMA ReaderStep ==
  ASSUME ReaderInv, [ReaderNext]_readerVars
  PROVE  ReaderInv'
<1>1. CASE Agent
  BY <1>1, AgentInv
<1>2. CASE BeginPass
  BY <1>2, BeginInv
<1>3. CASE Walk
  BY <1>3, WalkInv
<1>4. CASE FinishPass
  BY <1>4, FinishInv
<1>5. CASE DiePass
  BY <1>5, DieInv
<1>6. ASSUME NEW p \in Path, SkipUnchanged(p) PROVE ReaderInv'
  BY <1>6, SkipInv
<1>7. ASSUME NEW p \in Path, ReadFile(p) PROVE ReaderInv'
  BY <1>7, ReadFileInv
<1>8. ASSUME NEW p \in Path, MarkFile(p) PROVE ReaderInv'
  BY <1>8, MarkFileInv
<1>9. ASSUME NEW p \in Path, FileVanished(p) PROVE ReaderInv'
  BY <1>9, VanishedInv
<1>10. CASE UNCHANGED readerVars
  <2>1. UNCHANGED <<file, wrote, today, writes, saved, pass, result, blind, standing, deaths>>
    BY <1>10 DEF readerVars, storeVars
  <2>2. TypeInv' /\ FilesInv' /\ SeenInv'
    BY <2>1 DEF ReaderInv, TypeInv, FilesInv, Lean, SeenInv
  <2>3. ChecksInv' /\ LedgerInv' /\ CompleteIsWhole'
    BY <2>1 DEF ReaderInv, ChecksInv, Stands, LedgerInv, CompleteIsWhole
  <2>4. SettledInv' /\ StandingInv'
    BY <2>1 DEF ReaderInv, SettledInv, SettledBy, Settled, StandingInv, InPlace
  <2> QED  BY <2>2, <2>3, <2>4 DEF ReaderInv
<1> QED  BY <1>1, <1>2, <1>3, <1>4, <1>5, <1>6, <1>7, <1>8, <1>9, <1>10 DEF ReaderNext

(* A collection reported complete has counted every record that stood in   *)
(* the files throughout its pass (collectJsonl, shared.mjs), whatever the  *)
(* agent did to them meanwhile and before.                                 *)
THEOREM CompleteCollections == ReaderSpec => []CompleteIsWhole
<1>1. ReaderInv /\ [ReaderNext]_readerVars => ReaderInv'
  BY ReaderStep
<1>2. ReaderInv => CompleteIsWhole
  BY DEF ReaderInv
<1> QED  BY ReaderInitInv, <1>1, <1>2, PTL DEF ReaderSpec

(* The types of the checkpoints and of the ledger hold for any store.      *)
THEOREM ReaderTyped == ReaderSpec => []ReaderTypeOK
<1>1. ReaderInv /\ [ReaderNext]_readerVars => ReaderInv'
  BY ReaderStep
<1>2. ReaderInv => ReaderTypeOK
  BY DEF ReaderInv, TypeInv, Pass, ChecksInv, LedgerInv, Tidy, ReaderTypeOK
<1> QED  BY ReaderInitInv, <1>1, <1>2, PTL DEF ReaderSpec

-----------------------------------------------------------------------------
(***************************************************************************)
(* The captured records (Capture).  CaptureInv says what a waiting proof   *)
(* vouches for: that the server has, or will have with the payload, every  *)
(* record of its segments' ranges; what a checkpoint has counted of the    *)
(* file with its inode; and what an intended result may leave out.         *)
(***************************************************************************)

-----------------------------------------------------------------------------
(* Captured lines, the states of the capture file and what is kept of them. *)
CapLine == Record \cup {Glued(r) : r \in Record}
CapFile == [ino : Nat, lines : Seq(CapLine), tail : {Torn, NoCheck}, stamp : Nat]
CapCheck ==
  [ino : Nat, size : Nat, offset : Nat, stamp : Nat, mark : CapLine \cup {NoCheck}, of : SUBSET CapLine]
Segments == SUBSET [offset : Nat, to : Nat]
Intended == [prefix : Seq(CapLine), proofPrefix : Seq(CapLine), segments : Segments]
CapProof ==
  [ino : Nat, offset : Nat, prefix : Seq(CapLine), segments : Segments, done : Intended \cup {NoProof}]
CapSaved == [check : CapCheck \cup {NoCheck}, ledger : SUBSET Record, proof : CapProof \cup {NoProof}]

(* The records of its ranges that a proof covers are on the server, or will *)
(* be with what is delivered with it.                                      *)
Covered(lines, segments, have) ==
  \A s \in segments :
    /\ s.offset <= Len(lines)
    /\ \A n \in 1 .. s.offset :
         lines[n] \in Record /\ InRange(lines[n], s.to) => lines[n] \in have \cup early
ProofIs(pf, have) ==
  pf # NoProof =>
    /\ pf \in CapProof /\ pf.offset = Len(pf.prefix)
    /\ Covered(pf.prefix, pf.segments, have)
    /\ pf.done # NoProof => Covered(pf.done.proofPrefix, pf.done.segments, have)

(* A ledger of records that were appended, none after the day of the range. *)
CapLedgerIs(l, to) ==
  l \subseteq Record /\ l \subseteq returned /\ Tidy(l) /\ \A r \in l : DayOf[r] <= to

(* A checkpoint of the file that is there has counted what is before it.   *)
CapCheckIs(c, l, to) ==
  c # NoCheck =>
    /\ c \in CapCheck /\ c.ino <= capChanges
    /\ c.ino = capFile.ino =>
         /\ c.offset <= Len(capFile.lines)
         /\ ToSet(Prefix(capFile.lines, c.offset)) \subseteq c.of
         /\ \A r \in c.of \cap Record : r \in early \/ r \in l \/ DayOf[r] <= to - Window

SavedIs(s, to) ==
  /\ s \in CapSaved
  /\ CapCheckIs(s.check, s.ledger, to) /\ CapLedgerIs(s.ledger, to) /\ ProofIs(s.proof, capServer)

PayloadIs(p) ==
  /\ p \in [ledger : SUBSET Record, proof : CapProof \cup {NoProof}]
  /\ p.ledger \subseteq returned /\ ProofIs(p.proof, capServer \cup p.ledger)

CapFileInv ==
  /\ capFile \in CapFile /\ capFile.ino <= capChanges /\ capChanges \in Nat /\ capDay \in Nat
  /\ returned \subseteq Record /\ capServer \subseteq returned
  /\ ToSet(capFile.lines) \cap Record \subseteq returned

(* A file that was listed is the beginning of the one with its inode.      *)
CapSeenIs(f) ==
  /\ f \in CapFile /\ f.ino <= capChanges
  /\ f.ino = capFile.ino =>
       Len(f.lines) <= Len(capFile.lines) /\ \A n \in 1 .. Len(f.lines) : capFile.lines[n] = f.lines[n]

CapFound == [ledger : SUBSET Record, complete : BOOLEAN, check : CapCheck \cup {NoCheck}]
CapSyncState ==
  [pc : {"idle", "stat", "read", "prove", "persist", "deliver", "acknowledge"}, to : Nat,
   mem : CapSaved \cup {NoProof}, seen : CapFile \cup {NoProof}, found : CapFound \cup {NoProof},
   proof : CapProof \cup {NoProof}]
CapSyncInv ==
  /\ capSync \in CapSyncState
  /\ capSync.pc \in {"stat", "read", "prove", "persist"} => SavedIs(capSync.mem, capSync.to) /\ capSync.to <= capDay
  /\ capSync.pc = "read" => CapSeenIs(capSync.seen)
  /\ capSync.pc \in {"prove", "persist"} =>
       /\ capSync.found \in CapFound
       /\ CapLedgerIs(capSync.found.ledger, capSync.to)
       /\ CapCheckIs(capSync.found.check, capSync.found.ledger, capSync.to)
  /\ capSync.pc = "persist" => ProofIs(capSync.proof, capServer \cup capSync.found.ledger)
  /\ capSync.pc \in {"deliver", "acknowledge"} => PayloadIs(capPending)
  /\ capSync.pc = "acknowledge" => capPending.ledger \subseteq capServer
  /\ capPending # NoProof => PayloadIs(capPending)

(* What the compaction is about to take out of the file is on the server.  *)
CompactState ==
  [pc : {"idle", "decide", "rename", "finish"}, mem : CapSaved \cup {NoProof},
   file : CapFile \cup {NoProof}, done : Intended \cup {NoProof}, kept : CapProof \cup {NoProof}]
CompactInv ==
  /\ compactor \in CompactState
  /\ compactor.pc # "idle" => SavedIs(compactor.mem, capDay)
  /\ compactor.pc = "decide" => compactor.mem.proof # NoProof
  /\ compactor.pc = "rename" =>
       /\ compactor.done \in Intended
       /\ Covered(compactor.done.proofPrefix, compactor.done.segments, capServer)
       /\ ToSet(compactor.done.prefix) \subseteq ToSet(capFile.lines)
       /\ ToSet(capFile.lines) \subseteq ToSet(compactor.done.prefix) \cup (Record \cap (capServer \cup early))
  /\ compactor.pc = "finish" => ProofIs(compactor.kept, capServer)

CaptureInv ==
  /\ CapFileInv /\ SavedIs(capState, capDay) /\ CapSyncInv /\ CompactInv /\ RemovedWasAccepted
-----------------------------------------------------------------------------
(* What a step keeps: the file is the same one, with what was in it, or a  *)
(* new one.                                                                *)
Onward ==
  /\ capFile' \in CapFile /\ capChanges' \in Nat /\ capChanges <= capChanges' /\ capDay' \in Nat
  /\ early \subseteq early' /\ capServer \subseteq capServer' /\ returned \subseteq returned'
  /\ \/ /\ capFile'.ino = capFile.ino /\ Len(capFile.lines) <= Len(capFile'.lines)
        /\ \A n \in 1 .. Len(capFile.lines) : capFile'.lines[n] = capFile.lines[n]
     \/ capFile'.ino > capChanges

(* What is known of a proof stays known.                                   *)
LEMMA ProofKeeps ==
  ASSUME Onward, NEW p, NEW have, NEW more, have \subseteq more, ProofIs(p, have)
  PROVE  ProofIs(p, more)'
<1>1. \A lines, segments : Covered(lines, segments, have) => Covered(lines, segments, more)'
  BY DEF Onward, Covered
<1> QED  BY <1>1 DEF ProofIs

(* So does what is known of a checkpoint.                                  *)
LEMMA CheckKeeps ==
  ASSUME CapFileInv, Onward, NEW c, NEW l, NEW to \in Nat, NEW t \in Nat, to <= t, l \subseteq Record,
         CapCheckIs(c, l, to)
  PROVE  CapCheckIs(c, l, t)'
<1> SUFFICES ASSUME c # NoCheck PROVE CapCheckIs(c, l, t)'
  BY DEF CapCheckIs
<1>1. c \in CapCheck /\ c.ino <= capChanges /\ c.ino \in Nat /\ c.offset \in Nat
  BY DEF CapCheckIs, CapCheck
<1>2. c.ino <= capChanges'
  BY <1>1 DEF Onward, CapFileInv
<1>3. ASSUME c.ino = capFile'.ino
      PROVE  /\ c.offset <= Len(capFile'.lines)
             /\ ToSet(Prefix(capFile'.lines, c.offset)) \subseteq c.of
             /\ \A r \in c.of \cap Record : r \in early' \/ r \in l \/ DayOf[r] <= t - Window
  <2>1. /\ capFile'.ino = capFile.ino /\ Len(capFile.lines) <= Len(capFile'.lines)
        /\ \A n \in 1 .. Len(capFile.lines) : capFile'.lines[n] = capFile.lines[n]
    BY <1>1, <1>3 DEF Onward, CapFileInv, CapFile
  <2>2. /\ c.offset <= Len(capFile.lines) /\ ToSet(Prefix(capFile.lines, c.offset)) \subseteq c.of
        /\ \A r \in c.of \cap Record : r \in early \/ r \in l \/ DayOf[r] <= to - Window
    BY <1>3, <2>1 DEF CapCheckIs
  <2>3. \A r \in Record : DayOf[r] <= to - Window => DayOf[r] <= t - Window
    BY ScanAssumption
  <2>4. capFile.lines \in Seq(CapLine) /\ capFile'.lines \in Seq(CapLine)
    BY DEF Onward, CapFileInv, CapFile
  <2> DEFINE a == Prefix(capFile.lines, c.offset)
             b == Prefix(capFile'.lines, c.offset)
  <2>5. /\ Len(a) = c.offset /\ Len(b) = c.offset
        /\ \A n \in 1 .. c.offset : a[n] = capFile.lines[n] /\ n \in 1 .. Len(capFile.lines)
        /\ \A n \in 1 .. c.offset : b[n] = capFile'.lines[n]
        /\ a \in Seq(CapLine) /\ b \in Seq(CapLine)
    <3>1. Len(capFile.lines) \in Nat /\ Len(capFile'.lines) \in Nat
      BY <2>4
    <3>2. /\ (c.offset <= Len(capFile.lines) => Len(a) = c.offset) /\ a \in Seq(CapLine)
          /\ \A n \in 1 .. Len(a) : a[n] = capFile.lines[n] /\ n \in 1 .. Len(capFile.lines)
      BY <1>1, <2>4, PrefixIs
    <3>3. /\ (c.offset <= Len(capFile'.lines) => Len(b) = c.offset) /\ b \in Seq(CapLine)
          /\ \A n \in 1 .. Len(b) : b[n] = capFile'.lines[n]
      BY <1>1, <2>4, PrefixIs
    <3> HIDE DEF a, b
    <3> QED  BY <1>1, <2>1, <2>2, <3>1, <3>2, <3>3
  <2> HIDE DEF a, b
  <2>6. \A n \in 1 .. Len(b) : n \in 1 .. Len(a) /\ b[n] = a[n]
    BY <2>1, <2>5
  <2>7. ToSet(b) \subseteq ToSet(a)
    BY <2>5, <2>6 DEF ToSet
  <2>8. c.offset <= Len(capFile'.lines)
    BY <1>1, <2>1, <2>2, <2>4
  <2> QED  BY <2>2, <2>3, <2>7, <2>8 DEF a, b, Onward
<1> QED  BY <1>1, <1>2, <1>3 DEF CapCheckIs

(* What is known of everything saved or held stays known.                  *)
LEMMA CapKeeps ==
  ASSUME CapFileInv, Onward
  PROVE  /\ \A l : \A to, t \in Nat : to <= t /\ CapLedgerIs(l, to) => CapLedgerIs(l, t)'
         /\ \A s : \A to, t \in Nat : to <= t /\ SavedIs(s, to) => SavedIs(s, t)'
         /\ \A p : PayloadIs(p) => PayloadIs(p)'
         /\ \A f : CapSeenIs(f) => CapSeenIs(f)'
<1>1. ASSUME NEW l, NEW to \in Nat, NEW t \in Nat, to <= t, CapLedgerIs(l, to)
      PROVE  CapLedgerIs(l, t)'
  BY <1>1, ScanAssumption DEF CapLedgerIs, Onward
<1>2. ASSUME NEW s, NEW to \in Nat, NEW t \in Nat, to <= t, SavedIs(s, to)
      PROVE  SavedIs(s, t)'
  <2>1. s \in CapSaved /\ s.ledger \subseteq Record
    BY <1>2 DEF SavedIs, CapSaved
  <2>2. CapCheckIs(s.check, s.ledger, t)'
    BY <1>2, <2>1, CheckKeeps DEF SavedIs
  <2>3. ProofIs(s.proof, capServer)'
    <3>1. ProofIs(s.proof, capServer) /\ capServer \subseteq capServer'
      BY <1>2 DEF SavedIs, Onward
    <3> QED  BY <3>1, ProofKeeps
  <2>4. CapLedgerIs(s.ledger, t)'
    BY <1>1, <1>2 DEF SavedIs
  <2> QED  BY <2>1, <2>2, <2>3, <2>4 DEF SavedIs
<1>3. ASSUME NEW p, PayloadIs(p)
      PROVE  PayloadIs(p)'
  <2>1. ProofIs(p.proof, capServer \cup p.ledger) /\ capServer \cup p.ledger \subseteq capServer' \cup p.ledger
    BY <1>3 DEF PayloadIs, Onward
  <2>2. ProofIs(p.proof, capServer \cup p.ledger)'
    BY <2>1, ProofKeeps
  <2> QED  BY <1>3, <2>2 DEF PayloadIs, Onward
<1>4. ASSUME NEW f, CapSeenIs(f)
      PROVE  CapSeenIs(f)'
  <2>1. f \in CapFile /\ f.ino <= capChanges /\ Len(f.lines) \in Nat /\ Len(capFile.lines) \in Nat /\ f.ino \in Nat
        /\ Len(capFile'.lines) \in Nat
    BY <1>4 DEF CapSeenIs, CapFile, CapFileInv, Onward
  <2> QED  BY <1>4, <2>1 DEF CapSeenIs, Onward, CapFileInv, CapFile
<1> QED  BY <1>1, <1>2, <1>3, <1>4

(* The parts that a step does not touch keep their part of the invariant.  *)
LEMMA CapFrame ==
  ASSUME CaptureInv, Onward, capDay <= capDay'
  PROVE  /\ capState' = capState => SavedIs(capState, capDay)'
         /\ capSync' = capSync /\ capPending' = capPending => CapSyncInv'
         /\ compactor' = compactor /\ (compactor.pc = "rename" => capFile' = capFile) => CompactInv'
         /\ capFile' = capFile /\ returned' = returned => CapFileInv' \/ ~(capServer' \subseteq returned)
         /\ capFile' = capFile /\ returned' = returned => RemovedWasAccepted'
<1>0. CapFileInv /\ SavedIs(capState, capDay) /\ CapSyncInv /\ CompactInv /\ RemovedWasAccepted
  BY DEF CaptureInv
<1>1. /\ \A l : \A to, t \in Nat : to <= t /\ CapLedgerIs(l, to) => CapLedgerIs(l, t)'
      /\ \A s : \A to, t \in Nat : to <= t /\ SavedIs(s, to) => SavedIs(s, t)'
      /\ \A p : PayloadIs(p) => PayloadIs(p)'
      /\ \A f : CapSeenIs(f) => CapSeenIs(f)'
  BY <1>0, CapKeeps
<1>2. capDay \in Nat /\ capDay' \in Nat
  BY <1>0 DEF CapFileInv, Onward
<1>3. ASSUME capState' = capState PROVE SavedIs(capState, capDay)'
  BY <1>0, <1>1, <1>2, <1>3
<1>4. ASSUME capSync' = capSync, capPending' = capPending PROVE CapSyncInv'
  <2>1. capSync.to \in Nat /\ (capSync.to <= capDay => capSync.to <= capDay')
    BY <1>0, <1>2 DEF CapSyncInv, CapSyncState
  <2>2. capSync.pc \in {"stat", "read", "prove", "persist"} =>
          SavedIs(capSync.mem, capSync.to)' /\ capSync.to <= capDay'
    BY <1>0, <1>1, <1>4, <2>1 DEF CapSyncInv
  <2>3. capSync.pc = "read" => CapSeenIs(capSync.seen)'
    BY <1>0, <1>1, <1>4 DEF CapSyncInv
  <2>4. ASSUME capSync.pc \in {"prove", "persist"}
        PROVE  /\ CapLedgerIs(capSync.found.ledger, capSync.to)'
               /\ CapCheckIs(capSync.found.check, capSync.found.ledger, capSync.to)'
    <3>1. /\ CapLedgerIs(capSync.found.ledger, capSync.to) /\ capSync.to <= capSync.to
          /\ CapCheckIs(capSync.found.check, capSync.found.ledger, capSync.to)
          /\ capSync.found.ledger \subseteq Record
      BY <1>0, <2>1, <2>4 DEF CapSyncInv, CapLedgerIs
    <3> DEFINE c == capSync.found.check
               l == capSync.found.ledger
               to == capSync.to
    <3>2. CapCheckIs(c, l, to) /\ l \subseteq Record /\ to \in Nat /\ to <= to
      BY <2>1, <3>1
    <3>3. c' = c /\ l' = l /\ to' = to
      BY <1>4
    <3>4. \A d, m : \A t \in Nat : m \subseteq Record /\ CapCheckIs(d, m, t) => CapCheckIs(d, m, t)'
      BY <1>0, CheckKeeps
    <3> HIDE DEF c, l, to
    <3>5. CapCheckIs(c, l, to)'
      BY <3>2, <3>3, <3>4
    <3>6. CapLedgerIs(capSync.found.ledger, capSync.to)'
      BY <1>1, <1>4, <2>1, <3>1
    <3> QED  BY <3>5, <3>6 DEF c, l, to
  <2>5. capSync.pc = "persist" => ProofIs(capSync.proof, capServer \cup capSync.found.ledger)'
    <3> SUFFICES ASSUME capSync.pc = "persist"
                 PROVE  ProofIs(capSync.proof, capServer \cup capSync.found.ledger)'
      OBVIOUS
    <3>1. PICK l : l = capSync.found.ledger
      OBVIOUS
    <3>2. ProofIs(capSync.proof, capServer \cup l)
      BY <1>0, <3>1 DEF CapSyncInv
    <3>3. \A p, have, more : have \subseteq more /\ ProofIs(p, have) => ProofIs(p, more)'
      BY ProofKeeps
    <3>4. capServer \cup l \subseteq capServer' \cup l
      BY DEF Onward
    <3>5. ProofIs(capSync.proof, capServer \cup l)'
      BY <1>4, <3>2, <3>3, <3>4
    <3>6. capSync'.found.ledger = l
      BY <1>4, <3>1
    <3> QED  BY <3>5, <3>6
  <2>6. capSync.pc \in {"deliver", "acknowledge"} => PayloadIs(capPending)'
    BY <1>0, <1>1, <1>4 DEF CapSyncInv
  <2>7. capSync.pc = "acknowledge" => capPending.ledger \subseteq capServer'
    BY <1>0 DEF CapSyncInv, Onward
  <2>8. capPending # NoProof => PayloadIs(capPending)'
    BY <1>0, <1>1, <1>4 DEF CapSyncInv
  <2> QED  BY <1>0, <1>4, <2>2, <2>3, <2>4, <2>5, <2>6, <2>7, <2>8 DEF CapSyncInv
<1>5. ASSUME compactor' = compactor, compactor.pc = "rename" => capFile' = capFile PROVE CompactInv'
  <2>1. compactor.pc # "idle" => SavedIs(compactor.mem, capDay)'
    BY <1>0, <1>1, <1>2, <1>5 DEF CompactInv
  <2>2. compactor.pc = "finish" => ProofIs(compactor.kept, capServer)'
    <3> SUFFICES ASSUME compactor.pc = "finish" PROVE ProofIs(compactor.kept, capServer)'
      OBVIOUS
    <3>1. \A p, have, more : have \subseteq more /\ ProofIs(p, have) => ProofIs(p, more)'
      BY ProofKeeps
    <3>2. ProofIs(compactor.kept, capServer) /\ capServer \subseteq capServer'
      BY <1>0 DEF CompactInv, Onward
    <3> QED  BY <1>5, <3>1, <3>2
  <2>3. ASSUME compactor.pc = "rename"
        PROVE  /\ Covered(compactor.done.proofPrefix, compactor.done.segments, capServer)'
               /\ ToSet(compactor.done.prefix) \subseteq ToSet(capFile'.lines)
               /\ ToSet(capFile'.lines) \subseteq
                    ToSet(compactor.done.prefix) \cup (Record \cap (capServer' \cup early'))
    BY <1>0, <1>5, <2>3 DEF CompactInv, Covered, Onward
  <2> QED  BY <1>0, <1>5, <2>1, <2>2, <2>3 DEF CompactInv
<1>6. capFile' = capFile /\ returned' = returned => CapFileInv' \/ ~(capServer' \subseteq returned)
  <2>1. capFile.ino <= capChanges => capFile.ino <= capChanges'
    BY <1>0 DEF CapFileInv, Onward, CapFile
  <2> QED  BY <1>0, <1>2, <2>1 DEF CapFileInv, Onward
<1>7. capFile' = capFile /\ returned' = returned => RemovedWasAccepted'
  BY <1>0 DEF RemovedWasAccepted, InFile, Onward
<1> QED  BY <1>3, <1>4, <1>5, <1>6, <1>7

(* A step that leaves the file alone goes onward. *)
LEMMA Unmoved ==
  ASSUME CaptureInv, capFile' = capFile, capChanges' = capChanges, capDay' \in Nat, early \subseteq early',
         capServer \subseteq capServer', returned \subseteq returned'
  PROVE  Onward
BY DEF Onward, CaptureInv, CapFileInv, CapFile

-----------------------------------------------------------------------------
(* Appends, and the clock. *)
LEMMA AppendInv ==
  ASSUME CaptureInv, NEW r \in Record, AppendCapture(r)
  PROVE  CaptureInv'
<1> DEFINE line == IF capFile.tail = NoCheck THEN r ELSE Glued(r)
           lines == Append(capFile.lines, line)
<1>1. /\ compactor.pc # "rename" /\ DayOf[r] = capDay
      /\ capFile' = [capFile EXCEPT !.lines = lines, !.tail = NoCheck, !.stamp = capChanges + 1]
      /\ capChanges' = capChanges + 1 /\ returned' = returned \cup {r}
      /\ UNCHANGED <<capDay, capState, capPending, capSync, compactor, capServer, early, capLost>>
  BY DEF AppendCapture, Locked
<1>2. CapFileInv /\ capFile \in CapFile /\ capFile.lines \in Seq(CapLine) /\ capChanges \in Nat /\ capDay \in Nat
      /\ capFile.ino <= capChanges
  BY DEF CaptureInv, CapFileInv, CapFile
<1>3. line \in CapLine
  BY DEF CapLine
<1>4. /\ lines \in Seq(CapLine) /\ Len(lines) = Len(capFile.lines) + 1 /\ lines[Len(lines)] = line
      /\ \A n \in 1 .. Len(capFile.lines) : lines[n] = capFile.lines[n]
  BY <1>2, <1>3
<1>5. (line = r \/ line = Glued(r)) /\ (line \in Record => line = r)
  BY CaptureAssumption DEF Glued
<1> HIDE DEF line, lines
<1>6. capFile' \in CapFile /\ capFile'.lines = lines /\ capFile'.ino = capFile.ino
  <2>1. capChanges + 1 \in Nat /\ NoCheck \in {Torn, NoCheck}
    BY <1>2
  <2> QED  BY <1>1, <1>2, <1>4, <2>1 DEF CapFile
<1>7. Onward /\ capDay <= capDay'
  BY <1>1, <1>2, <1>4, <1>6 DEF Onward, CapFile
<1>8. CapFileInv'
  <2>1. ASSUME NEW q \in ToSet(lines) \cap Record PROVE q \in returned'
    <3>1. PICK n \in 1 .. Len(lines) : lines[n] = q
      BY DEF ToSet
    <3>2. CASE n = Len(lines)
      BY <1>1, <1>4, <1>5, <3>1, <3>2
    <3>3. CASE n # Len(lines)
      <4>1. n \in 1 .. Len(capFile.lines)
        BY <1>2, <1>4, <3>3
      <4>2. q \in ToSet(capFile.lines)
        BY <1>2, <1>4, <3>1, <4>1 DEF ToSet
      <4> QED  BY <1>1, <1>2, <4>2 DEF CapFileInv
    <3> QED  BY <3>2, <3>3
  <2>2. capFile'.ino <= capChanges'
    BY <1>1, <1>2, <1>6 DEF CapFile
  <2> QED  BY <1>1, <1>2, <1>6, <2>1, <2>2 DEF CapFileInv
<1>9. RemovedWasAccepted'
  <2> SUFFICES ASSUME NEW q \in returned', q \notin early', q \notin capServer' PROVE InFile(q)'
    BY DEF RemovedWasAccepted
  <2>1. CASE q = r
    <3>1. Len(lines) \in DOMAIN lines
      BY <1>2, <1>4
    <3> QED  BY <1>4, <1>5, <1>6, <2>1, <3>1 DEF InFile
  <2>2. CASE q # r
    <3>1. InFile(q)
      BY <1>1, <2>2 DEF CaptureInv, RemovedWasAccepted
    <3>2. PICK n \in DOMAIN capFile.lines : capFile.lines[n] \in {q, Glued(q)}
      BY <3>1 DEF InFile
    <3>3. n \in DOMAIN lines /\ lines[n] = capFile.lines[n]
      BY <1>2, <1>4
    <3> QED  BY <1>6, <3>2, <3>3 DEF InFile
  <2> QED  BY <2>1, <2>2
<1> QED  BY <1>1, <1>7, <1>8, <1>9, CapFrame DEF CaptureInv

(* An append that dies leaves a part of a line, and no record.             *)
LEMMA TornInv ==
  ASSUME CaptureInv, AppendTorn
  PROVE  CaptureInv'
<1>1. /\ compactor.pc # "rename" /\ capFile' = [capFile EXCEPT !.tail = Torn, !.stamp = capChanges + 1]
      /\ capChanges' = capChanges + 1
      /\ UNCHANGED <<capDay, capState, capPending, capSync, compactor, capServer, returned, early>>
  BY DEF AppendTorn, Locked
<1>2. CapFileInv /\ capFile \in CapFile /\ capChanges \in Nat /\ capDay \in Nat /\ capFile.ino <= capChanges
  BY DEF CaptureInv, CapFileInv
<1>3. capFile' \in CapFile /\ capFile'.lines = capFile.lines /\ capFile'.ino = capFile.ino
  <2>1. capChanges + 1 \in Nat /\ Torn \in {Torn, NoCheck}
    BY <1>2
  <2> QED  BY <1>1, <1>2, <2>1 DEF CapFile
<1>4. Onward /\ capDay <= capDay'
  BY <1>1, <1>2, <1>3 DEF Onward, CapFile
<1>5. CapFileInv'
  <2>1. capFile'.ino <= capChanges'
    BY <1>1, <1>2, <1>3 DEF CapFile
  <2> QED  BY <1>1, <1>2, <1>3, <2>1 DEF CapFileInv
<1>6. RemovedWasAccepted'
  BY <1>1, <1>3 DEF CaptureInv, RemovedWasAccepted, InFile
<1> QED  BY <1>1, <1>4, <1>5, <1>6, CapFrame DEF CaptureInv

(* The clock only widens what may be saved.                                *)
LEMMA CapDayInv ==
  ASSUME CaptureInv, CaptureNextDay
  PROVE  CaptureInv'
<1>1. /\ capDay' = capDay + 1
      /\ UNCHANGED <<capFile, capChanges, capState, capPending, capSync, compactor, capServer, returned, early>>
  BY DEF CaptureNextDay
<1>2. capDay \in Nat /\ capServer \subseteq returned
  BY DEF CaptureInv, CapFileInv
<1>3. Onward /\ capDay <= capDay'
  BY <1>1, <1>2, Unmoved
<1> QED  BY <1>1, <1>2, <1>3, CapFrame DEF CaptureInv

-----------------------------------------------------------------------------
(* The sync. *)
(* A step of a sync that leaves everything else alone.                     *)
LEMMA SyncFrame ==
  ASSUME CaptureInv, UNCHANGED <<capFile, capDay, capChanges, capState, compactor, capServer, returned, early>>,
         CapSyncInv'
  PROVE  CaptureInv'
<1>1. capDay \in Nat /\ capServer \subseteq returned
  BY DEF CaptureInv, CapFileInv
<1>2. Onward /\ capDay <= capDay'
  BY <1>1, Unmoved
<1> QED  BY <1>1, <1>2, CapFrame DEF CaptureInv

(* A sync begins with what is saved.                                       *)
LEMMA SyncBeginsInv ==
  ASSUME CaptureInv, SyncBegins
  PROVE  CaptureInv'
<1>1. /\ capSync' = [NoCaptureSync EXCEPT !.pc = "stat", !.to = capDay, !.mem = capState]
      /\ UNCHANGED <<capFile, capDay, capChanges, capState, capPending, compactor, capServer, returned, early, capLost>>
  BY DEF SyncBegins
<1>2. /\ capSync' = [pc |-> "stat", to |-> capDay, mem |-> capState, seen |-> NoProof, found |-> NoProof,
                     proof |-> NoProof]
  BY <1>1 DEF NoCaptureSync
<1>3. capDay \in Nat /\ SavedIs(capState, capDay) /\ capState \in CapSaved
  BY DEF CaptureInv, CapFileInv, SavedIs
<1>4. SavedIs(capState, capDay)' /\ (capPending # NoProof => PayloadIs(capPending)')
  <2>1. Onward /\ CapFileInv
    BY <1>1, <1>3, Unmoved DEF CaptureInv
  <2> QED  BY <1>1, <1>3, <2>1, CapKeeps DEF CaptureInv, CapSyncInv
<1>5. CapSyncInv'
  BY <1>1, <1>2, <1>3, <1>4 DEF CapSyncInv, CapSyncState
<1> QED  BY <1>1, <1>5, SyncFrame

(* What a sync lists is the file that is there.                            *)
LEMMA StatInv ==
  ASSUME CaptureInv, Stat
  PROVE  CaptureInv'
<1>1. /\ capSync.pc = "stat" /\ capSync' = [capSync EXCEPT !.pc = "read", !.seen = capFile]
      /\ UNCHANGED <<capFile, capDay, capChanges, capState, capPending, compactor, capServer, returned, early, capLost>>
  BY DEF Stat
<1>2. CapFileInv /\ CapSyncInv /\ capFile \in CapFile /\ capFile.ino <= capChanges /\ capDay \in Nat
  BY DEF CaptureInv, CapFileInv
<1>3. /\ capSync'.pc = "read" /\ capSync'.seen = capFile /\ capSync'.mem = capSync.mem /\ capSync'.to = capSync.to
      /\ capSync' \in CapSyncState
  BY <1>1, <1>2 DEF CapSyncInv, CapSyncState
<1>4. /\ SavedIs(capSync.mem, capSync.to) /\ capSync.to <= capDay /\ capSync.to \in Nat
      /\ capPending # NoProof => PayloadIs(capPending)
  BY <1>1, <1>2 DEF CapSyncInv, CapSyncState
<1>5. Onward
  BY <1>1, <1>2, Unmoved
<1>6. /\ \A s : \A t \in Nat : SavedIs(s, t) => SavedIs(s, t)'
      /\ \A p : PayloadIs(p) => PayloadIs(p)'
      /\ \A f : CapSeenIs(f) => CapSeenIs(f)'
  BY <1>2, <1>5, CapKeeps
<1>7. CapSeenIs(capFile)
  BY <1>2 DEF CapSeenIs, CapFile
<1>8. CapSeenIs(capSync.seen)'
  BY <1>1, <1>3, <1>6, <1>7
<1>9. SavedIs(capSync.mem, capSync.to)'
  BY <1>3, <1>4, <1>6
<1>10. CapSyncInv'
  BY <1>1, <1>3, <1>4, <1>6, <1>8, <1>9 DEF CapSyncInv
<1> QED  BY <1>1, <1>10, SyncFrame

(* The part of a ledger that is in a range is a ledger of the range.       *)
LEMMA PrunedIs ==
  ASSUME NEW l, NEW to \in Nat, CapLedgerIs(l, to)
  PROVE  CapLedgerIs(Pruned(l, to), to) /\ \A r \in l : r \in Pruned(l, to) \/ DayOf[r] <= to - Window
<1>1. Pruned(l, to) \subseteq l /\ l \subseteq Record
  BY DEF Pruned, CapLedgerIs
<1>2. Tidy(Pruned(l, to))
  <2>1. IsFiniteSet(l) /\ Cardinality(l) <= LedgerLimit
    BY DEF CapLedgerIs, Tidy
  <2>2. IsFiniteSet(Pruned(l, to)) /\ Cardinality(Pruned(l, to)) <= Cardinality(l)
    BY <1>1, <2>1, FS_Subset
  <2>3. Cardinality(l) \in Nat /\ Cardinality(Pruned(l, to)) \in Nat
    BY <2>1, <2>2, FS_CardinalityType
  <2> QED  BY <1>1, <2>1, <2>2, <2>3, ScanAssumption DEF CapLedgerIs, Tidy
<1>3. \A r \in l : r \in Pruned(l, to) \/ DayOf[r] <= to - Window
  BY <1>1, ScanAssumption DEF CapLedgerIs, Pruned, InRange
<1> QED  BY <1>1, <1>2, <1>3 DEF CapLedgerIs

(* What a scan of the capture file makes of the ledger and the checkpoint. *)
LEMMA CollectIs ==
  ASSUME CaptureInv, capSync.pc = "read", NEW led, NEW old, NEW to, to = capSync.to, old = capSync.mem.check,
         led = Pruned(capSync.mem.ledger, to)
  PROVE  LET scan == Scanned(old, led, capSync.seen, Contents, Unfinished, capFile.lines, to)
             check == Checkpoint(capSync.seen, scan.offset, Mark(capFile.lines, scan.offset), ToSet(Contents))
         IN  /\ CapLedgerIs(led, to) /\ CapCheckIs(old, led, to)
             /\ CapLedgerIs(scan.ledger, to) /\ led \subseteq scan.ledger /\ scan.clean \in BOOLEAN
             /\ scan.skipped \subseteq Record
             /\ scan.clean /\ scan.offset = Len(capSync.seen.lines) =>
                  /\ check \in CapCheck /\ check.ino <= capChanges
                  /\ check.ino = capFile.ino =>
                       /\ check.offset <= Len(capFile.lines)
                       /\ ToSet(Prefix(capFile.lines, check.offset)) \subseteq check.of
                       /\ \A r \in check.of \cap Record :
                            r \in early \cup scan.skipped \/ r \in scan.ledger \/ DayOf[r] <= to - Window
<1> DEFINE seen == capSync.seen
           current == capFile.lines
           lines == Contents
           scan == Scanned(old, led, seen, lines, Unfinished, current, to)
           check == Checkpoint(seen, scan.offset, Mark(current, scan.offset), ToSet(lines))
           start == ResumeAt(old, seen, current)
           mem == capSync.mem
<1>1. /\ SavedIs(mem, to) /\ CapSeenIs(seen) /\ to \in Nat /\ CapFileInv
      /\ mem \in CapSaved
  BY DEF CaptureInv, CapSyncInv, CapSyncState, SavedIs
<1>2. CapLedgerIs(mem.ledger, to) /\ CapCheckIs(old, mem.ledger, to)
  BY <1>1 DEF SavedIs
<1>3. CapLedgerIs(led, to) /\ \A r \in mem.ledger : r \in led \/ DayOf[r] <= to - Window
  BY <1>1, <1>2, PrunedIs
<1>4. CapCheckIs(old, led, to)
  BY <1>2, <1>3 DEF CapCheckIs
<1>5. /\ seen \in CapFile /\ seen.lines \in Seq(CapLine) /\ Len(seen.lines) \in Nat /\ seen.ino \in Nat
      /\ seen.stamp \in Nat /\ seen.ino <= capChanges
      /\ current \in Seq(CapLine) /\ Len(current) \in Nat
      /\ old # NoCheck => old.offset \in Nat
  BY <1>1, <1>2 DEF CapSeenIs, CapFile, CapFileInv, CapCheckIs, CapCheck
<1>6. /\ lines \in Seq(CapLine) /\ Len(lines) \in Nat
      /\ Len(lines) = (IF Len(seen.lines) < Len(current) THEN Len(seen.lines) ELSE Len(current))
      /\ \A i \in 1 .. Len(lines) : lines[i] = current[i] /\ i \in 1 .. Len(current)
  <2>1. lines = Prefix(current, Len(seen.lines))
    BY DEF Contents
  <2> HIDE DEF lines
  <2> QED  BY <1>5, <2>1, PrefixIs
<1>7. /\ scan.ledger \subseteq Record /\ led \subseteq scan.ledger
      /\ scan.ledger \subseteq led \cup {r \in Record : InRange(r, to) /\ \E i \in 1 .. Len(lines) : lines[i] = r}
      /\ scan.clean \in BOOLEAN /\ scan.offset \in Nat
      /\ Tidy(led) => Tidy(scan.ledger)
      /\ start \in Nat /\ (start # 0 => Appended(old, seen, current) /\ start = old.offset)
      /\ \A i \in 1 .. Len(lines) : i <= start \/ ~scan.clean
           \/ lines[i] \in scan.ledger \/ lines[i] \in scan.skipped \/ DayOf[lines[i]] <= to - Window
  <2>1. led \in SUBSET Record
    BY <1>3 DEF CapLedgerIs
  <2> HIDE DEF seen, current, lines
  <2>2. seen.lines \in Seq(CapLine) /\ lines \in Seq(CapLine) /\ current \in Seq(CapLine) /\ to \in Nat
        /\ (old # NoCheck => old.offset \in Nat)
    BY <1>1, <1>5, <1>6
  <2> HIDE DEF scan, start
  <2>3. ScanFits(scan, start, old, led, seen, lines, current, to)
    BY <2>1, <2>2, ScannedIs DEF scan, start
  <2> QED  BY <2>3 DEF ScanFits
<1>8. scan.skipped \subseteq Record
  BY DEF Scanned
<1> HIDE DEF scan, start, lines
<1>9. CapLedgerIs(scan.ledger, to)
  <2>1. \A r \in scan.ledger : r \in led \/ (InRange(r, to) /\ r \in ToSet(current) \cap Record)
    <3>1. \A i \in 1 .. Len(current) : current[i] \in ToSet(current)
      BY DEF ToSet
    <3> QED  BY <1>6, <1>7, <3>1
  <2>2. \A r \in Record : InRange(r, to) => DayOf[r] <= to
    BY DEF InRange
  <2> QED  BY <1>1, <1>3, <1>7, <2>1, <2>2 DEF CapLedgerIs, CapFileInv
<1>10. ASSUME scan.clean, scan.offset = Len(seen.lines)
       PROVE  /\ check \in CapCheck /\ check.ino <= capChanges
              /\ check.ino = capFile.ino =>
                   /\ check.offset <= Len(current)
                   /\ ToSet(Prefix(current, check.offset)) \subseteq check.of
                   /\ \A r \in check.of \cap Record :
                        r \in early \cup scan.skipped \/ r \in scan.ledger \/ DayOf[r] <= to - Window
  <2>1. check = [ino |-> seen.ino, size |-> Len(seen.lines), offset |-> scan.offset, stamp |-> seen.stamp,
                 mark |-> Mark(current, scan.offset), of |-> ToSet(lines)]
    BY DEF Checkpoint
  <2>2. Mark(current, scan.offset) \in CapLine \cup {NoCheck} /\ ToSet(lines) \subseteq CapLine
    BY <1>5, <1>6 DEF Mark, ToSet
  <2>3. check \in CapCheck /\ check.ino = seen.ino /\ check.offset = Len(seen.lines) /\ check.of = ToSet(lines)
    BY <1>5, <1>10, <2>1, <2>2 DEF CapCheck
  <2> HIDE DEF check
  <2>4. ASSUME check.ino = capFile.ino
        PROVE  /\ Len(seen.lines) <= Len(current)
               /\ ToSet(Prefix(current, Len(seen.lines))) \subseteq ToSet(lines)
               /\ \A r \in ToSet(lines) \cap Record :
                    r \in early \cup scan.skipped \/ r \in scan.ledger \/ DayOf[r] <= to - Window
    <3>1. seen.ino = capFile.ino /\ Len(seen.lines) <= Len(current)
      BY <1>1, <2>3, <2>4 DEF CapSeenIs
    <3>2. lines = Prefix(current, Len(seen.lines))
      BY DEF Contents, lines
    <3>3. ASSUME NEW r \in ToSet(lines) \cap Record
          PROVE  r \in early \cup scan.skipped \/ r \in scan.ledger \/ DayOf[r] <= to - Window
      <4>1. PICK i \in 1 .. Len(lines) : lines[i] = r
        BY <1>6 DEF ToSet
      <4>2. CASE i <= start
        <5>1. start # 0 /\ old # NoCheck /\ old.ino = capFile.ino /\ start = old.offset
          BY <1>6, <1>7, <3>1, <4>2 DEF Appended
        <5>2. /\ start <= Len(current) /\ ToSet(Prefix(current, start)) \subseteq old.of
              /\ \A q \in old.of \cap Record : q \in early \/ q \in led \/ DayOf[q] <= to - Window
          BY <1>4, <5>1 DEF CapCheckIs
        <5>3. r \in ToSet(Prefix(current, start))
          <6> DEFINE t == Prefix(current, start)
          <6>1. t \in Seq(CapLine) /\ Len(t) = start /\ \A j \in 1 .. Len(t) : t[j] = current[j]
            BY <1>5, <1>7, <5>2, PrefixIs
          <6> HIDE DEF t
          <6>2. i \in 1 .. Len(t) /\ t[i] = r
            BY <1>6, <1>7, <4>1, <4>2, <6>1
          <6>3. r \in ToSet(t)
            BY <6>1, <6>2 DEF ToSet
          <6> QED  BY <6>3 DEF t
        <5> QED  BY <1>7, <5>2, <5>3
      <4>3. CASE ~(i <= start)
        BY <1>7, <1>10, <4>1, <4>3
      <4> QED  BY <4>2, <4>3
    <3> QED  BY <3>1, <3>2, <3>3
  <2> QED  BY <1>5, <2>3, <2>4
<1> QED  BY <1>3, <1>4, <1>7, <1>8, <1>9, <1>10 DEF scan, lines

(* The step that collects.                                                 *)
LEMMA CollectInv ==
  ASSUME CaptureInv, CollectCapture
  PROVE  CaptureInv'
<1>0. PICK to, old, led : to = capSync.to /\ old = capSync.mem.check /\ led = Pruned(capSync.mem.ledger, to)
  OBVIOUS
<1> DEFINE scan == Scanned(old, led, capSync.seen, Contents, Unfinished, capFile.lines, to)
           check == Checkpoint(capSync.seen, scan.offset, Mark(capFile.lines, scan.offset), ToSet(Contents))
           whole == scan.clean /\ scan.offset = Len(capSync.seen.lines)
           found == IF Unchanged(old, capSync.seen) THEN Found(led, TRUE, old)
                    ELSE Found(scan.ledger, scan.clean, IF whole THEN check ELSE old)
<1>1. /\ capSync.pc = "read" /\ capSync' = [capSync EXCEPT !.pc = "prove", !.found = found]
      /\ early' = IF Unchanged(old, capSync.seen) THEN early ELSE early \cup scan.skipped
      /\ UNCHANGED <<capFile, capDay, capChanges, capState, capPending, compactor, capServer, returned, capLost>>
  BY <1>0 DEF CollectCapture
<1>2. /\ CapLedgerIs(led, to) /\ CapCheckIs(old, led, to)
      /\ CapLedgerIs(scan.ledger, to) /\ led \subseteq scan.ledger /\ scan.clean \in BOOLEAN
      /\ scan.skipped \subseteq Record
      /\ whole =>
           /\ check \in CapCheck /\ check.ino <= capChanges
           /\ check.ino = capFile.ino =>
                /\ check.offset <= Len(capFile.lines)
                /\ ToSet(Prefix(capFile.lines, check.offset)) \subseteq check.of
                /\ \A r \in check.of \cap Record :
                     r \in early \cup scan.skipped \/ r \in scan.ledger \/ DayOf[r] <= to - Window
  BY <1>0, <1>1, CollectIs
<1>3. /\ to \in Nat /\ CapFileInv /\ CapSyncInv /\ SavedIs(capSync.mem, to) /\ to <= capDay
      /\ old \in CapCheck \cup {NoCheck}
  BY <1>0, <1>1 DEF CaptureInv, CapSyncInv, CapSyncState, SavedIs, CapSaved
<1> HIDE DEF scan, check
<1>4. Onward
  <2>1. capDay \in Nat
    BY <1>3 DEF CapFileInv
  <2> QED  BY <1>1, <2>1, Unmoved
<1>5. found \in CapFound /\ CapLedgerIs(found.ledger, to)
  BY <1>2, <1>3 DEF Found, CapFound, CapLedgerIs
<1>6. PICK c, l : c = found.check /\ l = found.ledger
  OBVIOUS
<1>7. CapCheckIs(c, l, to)'
  <2>1. \A d, m : m \subseteq Record /\ CapCheckIs(d, m, to) => CapCheckIs(d, m, to)'
    BY <1>3, <1>4, CheckKeeps
  <2>2. CASE Unchanged(old, capSync.seen)
    <3>1. c = old /\ l = led
      BY <1>6, <2>2 DEF Found
    <3> QED  BY <1>2, <2>1, <3>1 DEF CapLedgerIs
  <2>3. CASE ~Unchanged(old, capSync.seen) /\ ~whole
    <3>1. c = old /\ l = scan.ledger
      BY <1>6, <2>3 DEF Found
    <3>2. CapCheckIs(old, scan.ledger, to)
      BY <1>2 DEF CapCheckIs
    <3> QED  BY <1>2, <2>1, <3>1, <3>2 DEF CapLedgerIs
  <2>4. CASE ~Unchanged(old, capSync.seen) /\ whole
    <3>1. c = check /\ l = scan.ledger /\ early' = early \cup scan.skipped
      BY <1>1, <1>6, <2>4 DEF Found
    <3> QED  BY <1>1, <1>2, <2>4, <3>1 DEF CapCheckIs
  <2> QED  BY <2>2, <2>3, <2>4
<1>8. /\ capSync'.pc = "prove" /\ capSync'.found \in CapFound /\ capSync'.found.check = c /\ capSync'.found.ledger = l
      /\ capSync'.mem = capSync.mem /\ capSync'.to = to /\ capSync' \in CapSyncState
  <2> HIDE DEF found
  <2>1. capSync \in CapSyncState
    BY <1>3 DEF CapSyncInv
  <2> QED  BY <1>0, <1>1, <1>5, <1>6, <2>1 DEF CapSyncState
<1>9. CapLedgerIs(l, to)' /\ SavedIs(capSync.mem, to)' /\ (capPending # NoProof => PayloadIs(capPending)')
  <2>1. /\ \A m : CapLedgerIs(m, to) => CapLedgerIs(m, to)'
        /\ \A m : SavedIs(m, to) => SavedIs(m, to)'
        /\ \A m : PayloadIs(m) => PayloadIs(m)'
    BY <1>3, <1>4, CapKeeps
  <2> HIDE DEF found
  <2> QED  BY <1>1, <1>3, <1>5, <1>6, <1>8, <2>1 DEF CapSyncInv
<1>10. CapSyncInv'
  <2> HIDE DEF found
  <2> QED  BY <1>1, <1>3, <1>7, <1>8, <1>9 DEF CapSyncInv
<1>11. /\ UNCHANGED <<capState, compactor, capFile, returned, capServer>> /\ capDay <= capDay'
       /\ SavedIs(capState, capDay)' /\ CompactInv' /\ CapFileInv' /\ RemovedWasAccepted'
  <2>1. UNCHANGED <<capState, compactor, capFile, returned, capServer, capDay>> /\ capDay \in Nat
        /\ capServer \subseteq returned
    BY <1>1, <1>3 DEF CapFileInv
  <2> HIDE DEF found
  <2> QED  BY <1>4, <2>1, CapFrame
<1> QED  BY <1>10, <1>11 DEF CaptureInv

(* What a step keeps that leaves the file and the days alone.              *)
LEMMA StillKeeps ==
  ASSUME CaptureInv, UNCHANGED <<capFile, capDay, capChanges, returned, early>>,
         capServer \subseteq capServer', capServer' \subseteq returned
  PROVE  /\ CapFileInv' /\ RemovedWasAccepted' /\ capDay \in Nat
         /\ \A l : \A to, t \in Nat : to <= t /\ CapLedgerIs(l, to) => CapLedgerIs(l, t)'
         /\ \A s : \A to, t \in Nat : to <= t /\ SavedIs(s, to) => SavedIs(s, t)'
         /\ \A c, l : \A to, t \in Nat : to <= t /\ l \subseteq Record /\ CapCheckIs(c, l, to) => CapCheckIs(c, l, t)'
         /\ \A p : PayloadIs(p) => PayloadIs(p)'
         /\ \A p, have, more : have \subseteq more /\ ProofIs(p, have) => ProofIs(p, more)'
         /\ capState' = capState => SavedIs(capState, capDay)'
         /\ capSync' = capSync /\ capPending' = capPending => CapSyncInv'
         /\ compactor' = compactor => CompactInv'
<1>1. CapFileInv /\ capDay \in Nat /\ capDay' \in Nat /\ capDay <= capDay'
  BY DEF CaptureInv, CapFileInv
<1>2. Onward
  BY <1>1, Unmoved
<1>3. /\ capState' = capState => SavedIs(capState, capDay)'
      /\ capSync' = capSync /\ capPending' = capPending => CapSyncInv'
      /\ compactor' = compactor => CompactInv'
      /\ CapFileInv' /\ RemovedWasAccepted'
  BY <1>1, <1>2, CapFrame
<1>4. /\ \A l : \A to, t \in Nat : to <= t /\ CapLedgerIs(l, to) => CapLedgerIs(l, t)'
      /\ \A s : \A to, t \in Nat : to <= t /\ SavedIs(s, to) => SavedIs(s, t)'
      /\ \A p : PayloadIs(p) => PayloadIs(p)'
  BY <1>1, <1>2, CapKeeps
<1>5. \A c, l : \A to, t \in Nat : to <= t /\ l \subseteq Record /\ CapCheckIs(c, l, to) => CapCheckIs(c, l, t)'
  BY <1>1, <1>2, CheckKeeps
<1>6. \A p, have, more : have \subseteq more /\ ProofIs(p, have) => ProofIs(p, more)'
  BY <1>2, ProofKeeps
<1> QED  BY <1>1, <1>3, <1>4, <1>5, <1>6

(* A proof covers what its collection has counted.                         *)
LEMMA ProvedIs ==
  ASSUME CaptureInv, capSync.pc = "prove", NEW found, found = capSync.found, NEW to, to = capSync.to
  PROVE  /\ Proved(found, to) \in CapProof \cup {NoProof}
         /\ ProofIs(Proved(found, to), capServer \cup found.ledger)
<1>0. PICK check, lines, have : check = found.check /\ lines = Prefix(capFile.lines, check.offset)
                                 /\ have = capServer \cup found.ledger
  OBVIOUS
<1> DEFINE pf == ProofOf(capFile.ino, check.offset, lines, {Segment(check.offset, to)})
<1>1. CASE Proved(found, to) = NoProof
  BY <1>1 DEF ProofIs
<1>2. CASE Proved(found, to) # NoProof
  <2>1. /\ Proved(found, to) = pf /\ check # NoCheck /\ capFile.ino = check.ino
        /\ check.offset <= Len(capFile.lines)
    <3>1. Proved(found, to) \in {pf, NoProof} /\ (Proved(found, to) = pf \/ Proved(found, to) = NoProof)
      BY <1>0 DEF Proved
    <3>2. check # NoCheck /\ capFile.ino = check.ino
      BY <1>0, <1>2 DEF Proved
    <3>3. CapCheckIs(check, found.ledger, to)
      BY <1>0 DEF CaptureInv, CapSyncInv
    <3> QED  BY <1>2, <3>1, <3>2, <3>3 DEF CapCheckIs
  <2>2. /\ check \in CapCheck /\ check.offset \in Nat /\ to \in Nat
        /\ ToSet(lines) \subseteq check.of
        /\ \A r \in check.of \cap Record : r \in early \/ r \in found.ledger \/ DayOf[r] <= to - Window
    BY <1>0, <2>1 DEF CaptureInv, CapSyncInv, CapSyncState, CapCheckIs, CapCheck
  <2>3. capFile.lines \in Seq(CapLine) /\ capFile.ino \in Nat
    BY DEF CaptureInv, CapFileInv, CapFile
  <2>4. /\ lines \in Seq(CapLine) /\ Len(lines) = check.offset
        /\ \A n \in 1 .. Len(lines) : lines[n] \in ToSet(lines)
    <3>1. lines \in Seq(CapLine) /\ Len(lines) = check.offset
      BY <1>0, <2>1, <2>2, <2>3, PrefixIs
    <3> QED  BY <3>1 DEF ToSet
  <2>5. pf = [ino |-> capFile.ino, offset |-> check.offset, prefix |-> lines,
              segments |-> {[offset |-> check.offset, to |-> to]}, done |-> NoProof]
    BY DEF ProofOf, Segment
  <2> HIDE DEF pf
  <2>6. pf \in CapProof
    BY <2>2, <2>3, <2>4, <2>5 DEF CapProof, Segments
  <2>7. Covered(lines, {[offset |-> check.offset, to |-> to]}, have)
    <3>1. \A n \in 1 .. check.offset : lines[n] \in Record /\ InRange(lines[n], to) => lines[n] \in have \cup early
      <4>1. \A r \in Record : InRange(r, to) => ~(DayOf[r] <= to - Window)
        BY <2>2, ScanAssumption DEF InRange
      <4> QED  BY <1>0, <2>2, <2>4, <4>1
    <3> QED  BY <2>2, <2>4, <3>1 DEF Covered
  <2>8. ProofIs(pf, have)
    BY <2>4, <2>5, <2>6, <2>7 DEF ProofIs
  <2> QED  BY <1>0, <2>1, <2>6, <2>8
<1> QED  BY <1>1, <1>2

(* The step that takes the proof.                                          *)
LEMMA ProveInv ==
  ASSUME CaptureInv, ProveCapture
  PROVE  CaptureInv'
<1>0. PICK found, to, pf : found = capSync.found /\ to = capSync.to /\ pf = Proved(found, to)
  OBVIOUS
<1>1. /\ capSync.pc = "prove" /\ capSync' = [capSync EXCEPT !.pc = "persist", !.proof = pf]
      /\ UNCHANGED <<capFile, capDay, capChanges, capState, capPending, compactor, capServer, returned, early, capLost>>
  BY <1>0 DEF ProveCapture
<1>2. pf \in CapProof \cup {NoProof} /\ ProofIs(pf, capServer \cup found.ledger)
  BY <1>0, <1>1, ProvedIs
<1>3. /\ capSync'.pc = "persist" /\ capSync'.found = found /\ capSync'.proof = pf /\ capSync'.to = to
      /\ capSync'.mem = capSync.mem /\ capSync' \in CapSyncState
  BY <1>0, <1>1, <1>2 DEF CaptureInv, CapSyncInv, CapSyncState
<1>4. /\ SavedIs(capSync.mem, to) /\ to <= capDay /\ to \in Nat /\ found \in CapFound
      /\ CapLedgerIs(found.ledger, to) /\ CapCheckIs(found.check, found.ledger, to) /\ found.ledger \subseteq Record
      /\ capPending # NoProof => PayloadIs(capPending)
  BY <1>0, <1>1 DEF CaptureInv, CapSyncInv, CapSyncState, CapLedgerIs
<1>5. capServer \subseteq capServer' /\ capServer' \subseteq returned
  BY <1>1 DEF CaptureInv, CapFileInv
<1>6. /\ SavedIs(capSync.mem, to)' /\ CapLedgerIs(found.ledger, to)' /\ CapCheckIs(found.check, found.ledger, to)'
      /\ capPending # NoProof => PayloadIs(capPending)'
  BY <1>1, <1>3, <1>4, <1>5, StillKeeps
<1>7. ProofIs(pf, capServer \cup found.ledger)'
  BY <1>1, <1>2, <1>5, StillKeeps
<1>8. CapSyncInv'
  BY <1>1, <1>3, <1>4, <1>6, <1>7 DEF CapSyncInv
<1> QED  BY <1>1, <1>5, <1>8, StillKeeps DEF CaptureInv

(* What a sync saves, and what it leaves to deliver.                       *)
LEMMA PersistInv ==
  ASSUME CaptureInv, PersistCapture
  PROVE  CaptureInv'
<1>0. PICK found, to, pf, old : found = capSync.found /\ to = capSync.to /\ pf = capSync.proof /\ old = capSync.mem.proof
  OBVIOUS
<1>1. /\ capSync.pc = "persist"
      /\ capState' = [check |-> found.check, ledger |-> found.ledger, proof |-> IF pf = NoProof THEN NoProof ELSE old]
      /\ capPending' = [ledger |-> found.ledger, proof |-> pf]
      /\ capSync' = [NoCaptureSync EXCEPT !.pc = "deliver"]
      /\ UNCHANGED <<capFile, capDay, capChanges, compactor, capServer, returned, early, capLost>>
  BY <1>0 DEF PersistCapture
<1>2. /\ SavedIs(capSync.mem, to) /\ to <= capDay /\ to \in Nat /\ found \in CapFound /\ pf \in CapProof \cup {NoProof}
      /\ CapLedgerIs(found.ledger, to) /\ CapCheckIs(found.check, found.ledger, to) /\ found.ledger \subseteq Record
      /\ ProofIs(pf, capServer \cup found.ledger) /\ found.check \in CapCheck \cup {NoCheck}
      /\ found.ledger \subseteq returned
  BY <1>0, <1>1 DEF CaptureInv, CapSyncInv, CapSyncState, CapLedgerIs, CapFound
<1>3. old \in CapProof \cup {NoProof} /\ ProofIs(old, capServer)
  BY <1>0, <1>2 DEF SavedIs, CapSaved
<1>4. capServer \subseteq capServer' /\ capServer' \subseteq returned /\ capDay \in Nat
  BY <1>1 DEF CaptureInv, CapFileInv
<1>5. CapLedgerIs(found.ledger, capDay)' /\ CapCheckIs(found.check, found.ledger, capDay)'
  <2>1. PICK day : day = capDay
    OBVIOUS
  <2>2. CapLedgerIs(found.ledger, day)' /\ CapCheckIs(found.check, found.ledger, day)'
    BY <1>1, <1>2, <1>4, <2>1, StillKeeps
  <2> QED  BY <1>1, <2>1, <2>2
<1>6. ProofIs(pf, capServer \cup found.ledger)' /\ ProofIs(old, capServer)' /\ ProofIs(NoProof, capServer)'
  <2>1. ProofIs(pf, capServer \cup found.ledger)' /\ ProofIs(old, capServer)'
    BY <1>1, <1>2, <1>3, <1>4, StillKeeps
  <2> QED  BY <2>1 DEF ProofIs
<1>7. SavedIs(capState, capDay)'
  <2>1. /\ capState'.check = found.check /\ capState'.ledger = found.ledger /\ capState' \in CapSaved
        /\ (capState'.proof = old \/ capState'.proof = NoProof)
    BY <1>1, <1>2, <1>3 DEF CapSaved
  <2>2. ProofIs(capState.proof, capServer)'
    BY <1>6, <2>1
  <2> QED  BY <1>5, <2>1, <2>2 DEF SavedIs
<1>8. PayloadIs(capPending)'
  <2>1. capPending'.ledger = found.ledger /\ capPending'.proof = pf
    BY <1>1
  <2>2. ProofIs(capPending.proof, capServer \cup capPending.ledger)'
    BY <1>6, <2>1
  <2> QED  BY <1>1, <1>2, <2>1, <2>2 DEF PayloadIs
<1>9. CapSyncInv'
  <2>1. capSync'.pc = "deliver" /\ capSync' \in CapSyncState
    BY <1>1 DEF NoCaptureSync, CapSyncState
  <2> QED  BY <1>8, <2>1 DEF CapSyncInv
<1> QED  BY <1>1, <1>4, <1>7, <1>9, StillKeeps DEF CaptureInv

(* A payload that waits is delivered again.                                *)
LEMMA ResumesInv ==
  ASSUME CaptureInv, SyncResumes
  PROVE  CaptureInv'
<1>1. /\ capPending # NoProof /\ capSync' = [NoCaptureSync EXCEPT !.pc = "deliver"]
      /\ UNCHANGED <<capFile, capDay, capChanges, capState, capPending, compactor, capServer, returned, early, capLost>>
  BY DEF SyncResumes
<1>2. capServer \subseteq capServer' /\ capServer' \subseteq returned /\ PayloadIs(capPending)
  BY <1>1 DEF CaptureInv, CapFileInv, CapSyncInv
<1>3. PayloadIs(capPending)'
  BY <1>1, <1>2, StillKeeps
<1>4. CapSyncInv'
  <2>1. capSync'.pc = "deliver" /\ capSync' \in CapSyncState
    BY <1>1 DEF NoCaptureSync, CapSyncState
  <2> QED  BY <1>3, <2>1 DEF CapSyncInv
<1> QED  BY <1>1, <1>4, SyncFrame

(* The server counts what the payload carries.                             *)
LEMMA AcceptInv ==
  ASSUME CaptureInv, Accept
  PROVE  CaptureInv'
<1>1. /\ capSync.pc = "deliver" /\ capServer' = capServer \cup capPending.ledger
      /\ (capSync' = [capSync EXCEPT !.pc = "acknowledge"] \/ capSync' = NoCaptureSync)
      /\ UNCHANGED <<capFile, capDay, capChanges, capState, capPending, compactor, returned, early>>
  BY DEF Accept
<1>2. /\ PayloadIs(capPending) /\ capServer \subseteq capServer' /\ capServer' \subseteq returned
      /\ capSync \in CapSyncState
  BY <1>1 DEF CaptureInv, CapFileInv, CapSyncInv, PayloadIs
<1>3. PayloadIs(capPending)'
  BY <1>1, <1>2, StillKeeps
<1>4. CapSyncInv'
  <2>1. capSync'.pc \in {"acknowledge", "idle"} /\ capSync' \in CapSyncState
    BY <1>1, <1>2 DEF NoCaptureSync, CapSyncState
  <2>2. capPending'.ledger \subseteq capServer'
    BY <1>1
  <2> QED  BY <1>3, <2>1, <2>2 DEF CapSyncInv
<1> QED  BY <1>1, <1>2, <1>4, StillKeeps DEF CaptureInv

(* Two proofs of one file, joined, cover what both do.                     *)
LEMMA JoinedIs ==
  ASSUME capFile.lines \in Seq(CapLine), NEW have, NEW old, NEW new, ProofIs(old, have), ProofIs(new, have),
         old \in CapProof \cup {NoProof}, new \in CapProof, new # NoProof
  PROVE  Joined(old, new) \in CapProof /\ ProofIs(Joined(old, new), have)
<1>1. CASE Joined(old, new) = new
  BY <1>1
<1>2. CASE Joined(old, new) # new
  <2> DEFINE j == [new EXCEPT !.segments = @ \cup old.segments]
  <2>1. /\ Joined(old, new) = j /\ old # NoProof /\ old.offset <= new.offset
        /\ HasPrefix(capFile.lines, old.prefix) /\ HasPrefix(capFile.lines, new.prefix)
    BY <1>2 DEF Joined
  <2>2. /\ old.prefix \in Seq(CapLine) /\ new.prefix \in Seq(CapLine) /\ old.offset = Len(old.prefix)
        /\ new.offset = Len(new.prefix) /\ old.segments \in Segments /\ new.segments \in Segments
        /\ Covered(old.prefix, old.segments, have) /\ Covered(new.prefix, new.segments, have)
    BY <2>1 DEF ProofIs, CapProof
  <2>3. \A n \in 1 .. Len(old.prefix) : old.prefix[n] = new.prefix[n]
    <3>1. \A s \in Seq(CapLine) : HasPrefix(capFile.lines, s) => \A n \in 1 .. Len(s) : s[n] = capFile.lines[n]
      <4> SUFFICES ASSUME NEW s \in Seq(CapLine), HasPrefix(capFile.lines, s), NEW n \in 1 .. Len(s)
                   PROVE  s[n] = capFile.lines[n]
        OBVIOUS
      <4> DEFINE t == Prefix(capFile.lines, Len(s))
      <4>1. t = s /\ Len(s) \in Nat
        BY DEF HasPrefix
      <4>2. \A i \in 1 .. Len(t) : t[i] = capFile.lines[i]
        BY <4>1, PrefixIs
      <4> HIDE DEF t
      <4> QED  BY <4>1, <4>2
    <3>2. \A n \in 1 .. Len(old.prefix) : n \in 1 .. Len(new.prefix)
      BY <2>1, <2>2
    <3> QED  BY <2>1, <2>2, <3>1, <3>2
  <2>4. Covered(new.prefix, new.segments \cup old.segments, have)
    <3> SUFFICES ASSUME NEW s \in old.segments
                 PROVE  /\ s.offset <= Len(new.prefix)
                        /\ \A n \in 1 .. s.offset : new.prefix[n] \in Record /\ InRange(new.prefix[n], s.to) =>
                             new.prefix[n] \in have \cup early
      BY <2>2 DEF Covered
    <3>1. s.offset \in Nat /\ s.offset <= Len(old.prefix)
      BY <2>2 DEF Covered, Segments
    <3>2. Len(old.prefix) \in Nat /\ Len(new.prefix) \in Nat
      BY <2>2
    <3>3. \A n \in 1 .. s.offset : n \in 1 .. Len(old.prefix)
      BY <3>1, <3>2
    <3> QED  BY <2>1, <2>2, <2>3, <3>1, <3>2, <3>3 DEF Covered
  <2>5. /\ j \in CapProof /\ j.segments = new.segments \cup old.segments /\ j.prefix = new.prefix
        /\ j.offset = new.offset /\ j.done = new.done
    BY <2>2 DEF CapProof, Segments
  <2> HIDE DEF j
  <2> QED  BY <2>1, <2>4, <2>5 DEF ProofIs
<1> QED  BY <1>1, <1>2

(* The server has what the payload carried: its proof may be used.         *)
LEMMA AcknowledgeInv ==
  ASSUME CaptureInv, AcknowledgeProof
  PROVE  CaptureInv'
<1>1. /\ capSync.pc = "acknowledge"
      /\ capState' = IF capPending.proof = NoProof THEN capState
                     ELSE [capState EXCEPT !.proof = Joined(@, capPending.proof)]
      /\ capPending' = NoProof /\ capSync' = NoCaptureSync
      /\ UNCHANGED <<capFile, capDay, capChanges, compactor, capServer, returned, early, capLost>>
  BY DEF AcknowledgeProof
<1>2. /\ PayloadIs(capPending) /\ capServer \subseteq capServer' /\ capServer' \subseteq returned
      /\ capPending.ledger \subseteq capServer /\ SavedIs(capState, capDay) /\ capFile.lines \in Seq(CapLine)
      /\ capDay \in Nat
  BY <1>1 DEF CaptureInv, CapFileInv, CapSyncInv, CapFile
<1>3. SavedIs(capState, capDay)'
  <2>1. CASE capPending.proof = NoProof
    BY <1>1, <1>2, <2>1, StillKeeps
  <2>2. CASE capPending.proof # NoProof
    <3>1. PICK old, new, j, day : old = capState.proof /\ new = capPending.proof /\ j = Joined(old, new) /\ day = capDay
      OBVIOUS
    <3>2. /\ ProofIs(old, capServer) /\ old \in CapProof \cup {NoProof} /\ new \in CapProof /\ capState \in CapSaved
          /\ ProofIs(new, capServer \cup capPending.ledger)
      BY <1>2, <2>2, <3>1 DEF SavedIs, CapSaved, PayloadIs
    <3>3. capServer \cup capPending.ledger = capServer
      BY <1>2
    <3>4. ProofIs(new, capServer)
      BY <3>2, <3>3
    <3>5. j \in CapProof /\ ProofIs(j, capServer)
      BY <1>2, <2>2, <3>1, <3>2, <3>4, JoinedIs
    <3>6. ProofIs(j, capServer)'
      BY <1>1, <1>2, <3>5, StillKeeps
    <3>7. SavedIs(capState, day)'  \/ capState' # capState
      BY <1>1, <1>2, <3>1, StillKeeps
    <3>8. PICK s : s = capState
      OBVIOUS
    <3>9. SavedIs(s, day)'
      BY <1>1, <1>2, <3>1, <3>8, StillKeeps
    <3>10. /\ capState'.check = s.check /\ capState'.ledger = s.ledger /\ capState'.proof = j
           /\ capState' \in CapSaved
      BY <1>1, <2>2, <3>1, <3>2, <3>5, <3>8 DEF CapSaved
    <3>11. CapCheckIs(s.check, s.ledger, day)' /\ CapLedgerIs(s.ledger, day)'
      BY <3>9 DEF SavedIs
    <3>12. ProofIs(capState.proof, capServer)'
      BY <3>6, <3>10
    <3>13. capDay' = day
      BY <1>1, <3>1
    <3> QED  BY <3>10, <3>11, <3>12, <3>13 DEF SavedIs
  <2> QED  BY <2>1, <2>2
<1>4. CapSyncInv'
  <2>1. capSync'.pc = "idle" /\ capSync' \in CapSyncState
    BY <1>1 DEF NoCaptureSync, CapSyncState
  <2> QED  BY <1>1, <2>1 DEF CapSyncInv
<1> QED  BY <1>1, <1>2, <1>3, <1>4, StillKeeps DEF CaptureInv

(* A sync that dies leaves what it had saved.                              *)
LEMMA SyncDiesInv ==
  ASSUME CaptureInv, CaptureSyncDies
  PROVE  CaptureInv'
<1>1. /\ capSync' = NoCaptureSync
      /\ UNCHANGED <<capFile, capDay, capChanges, capState, capPending, compactor, capServer, returned, early>>
  BY DEF CaptureSyncDies
<1>2. capServer \subseteq capServer' /\ capServer' \subseteq returned /\ (capPending # NoProof => PayloadIs(capPending))
  BY <1>1 DEF CaptureInv, CapFileInv, CapSyncInv
<1>3. capPending # NoProof => PayloadIs(capPending)'
  BY <1>1, <1>2, StillKeeps
<1>4. CapSyncInv'
  <2>1. capSync'.pc = "idle" /\ capSync' \in CapSyncState
    BY <1>1 DEF NoCaptureSync, CapSyncState
  <2> QED  BY <1>1, <1>3, <2>1 DEF CapSyncInv
<1> QED  BY <1>1, <1>4, SyncFrame
-----------------------------------------------------------------------------
(* The compaction. *)
(* One sequence is the beginning of another.                               *)
Leads(x, y) == Len(x) <= Len(y) /\ \A i \in 1 .. Len(x) : y[i] = x[i]

(* What one more line makes of a sequence.                                 *)
LEMMA OneMore ==
  ASSUME NEW x \in Seq(CapLine), NEW line \in CapLine
  PROVE  /\ Append(x, line) \in Seq(CapLine) /\ Len(Append(x, line)) = Len(x) + 1 /\ Leads(x, Append(x, line))
         /\ ToSet(Append(x, line)) = ToSet(x) \cup {line}
<1> DEFINE y == Append(x, line)
<1>1. /\ y \in Seq(CapLine) /\ Len(y) = Len(x) + 1 /\ y[Len(x) + 1] = line /\ Len(x) \in Nat
      /\ \A i \in 1 .. Len(x) : y[i] = x[i]
  OBVIOUS
<1> HIDE DEF y
<1>2. ToSet(x) = {x[i] : i \in 1 .. Len(x)} /\ ToSet(y) = {y[i] : i \in 1 .. Len(y)}
  BY <1>1 DEF ToSet
<1>3. \A i : i \in 1 .. Len(y) <=> i \in 1 .. Len(x) \/ i = Len(x) + 1
  BY <1>1
<1>4. ToSet(y) = ToSet(x) \cup {line}
  BY <1>1, <1>2, <1>3
<1>5. Leads(x, y)
  BY <1>1 DEF Leads
<1> QED  BY <1>1, <1>4, <1>5 DEF y

(* What the pass over the first m lines goes through.                      *)
LeftOf(pf, n, x) ==
  /\ Len(x) <= n /\ ToSet(x) \subseteq {capFile.lines[j] : j \in 1 .. n}
  /\ \A j \in 1 .. n : Removable(capFile.lines[j], j, pf) \/ capFile.lines[j] \in ToSet(x)
LeftAt(pf, x, n) ==
  IF Removable(capFile.lines[n], n, pf) THEN x ELSE Append(x, capFile.lines[n])
Leaving(pf, m, g) ==
  /\ g \in [0 .. m -> Seq(CapLine)] /\ g[0] = <<>>
  /\ \A n \in 1 .. m : g[n] = LeftAt(pf, g[n - 1], n)
  /\ \A n \in 0 .. m : LeftOf(pf, n, g[n]) /\ \A a \in 0 .. n : Leads(g[a], g[n])

(* One line of the pass.                                                   *)
LEMMA LeftIs ==
  ASSUME capFile.lines \in Seq(CapLine), NEW pf, NEW n \in 1 .. Len(capFile.lines), NEW x \in Seq(CapLine),
         LeftOf(pf, n - 1, x)
  PROVE  LeftAt(pf, x, n) \in Seq(CapLine) /\ LeftOf(pf, n, LeftAt(pf, x, n)) /\ Leads(x, LeftAt(pf, x, n))
<1>1. n \in Nat /\ n - 1 \in Nat /\ capFile.lines[n] \in CapLine /\ Len(x) \in Nat
  OBVIOUS
<1>2. \A j : j \in 1 .. n <=> j \in 1 .. n - 1 \/ j = n
  BY <1>1
<1> DEFINE line == capFile.lines[n]
           before == {capFile.lines[j] : j \in 1 .. n - 1}
           upto == {capFile.lines[j] : j \in 1 .. n}
<1>3. upto = before \cup {line}
  BY <1>2
<1>4. /\ Len(x) <= n - 1 /\ ToSet(x) \subseteq before
      /\ \A j \in 1 .. n - 1 : Removable(capFile.lines[j], j, pf) \/ capFile.lines[j] \in ToSet(x)
  BY DEF LeftOf
<1> HIDE DEF before, upto, line
<1>5. CASE Removable(line, n, pf)
  <2>1. LeftAt(pf, x, n) = x
    BY <1>5 DEF LeftAt, line
  <2>2. LeftOf(pf, n, x)
    BY <1>1, <1>2, <1>3, <1>4, <1>5 DEF LeftOf, line, upto
  <2>3. Leads(x, x)
    BY <1>1 DEF Leads
  <2> QED  BY <2>1, <2>2, <2>3
<1>6. CASE ~Removable(line, n, pf)
  <2>1. PICK y : y = Append(x, line)
    OBVIOUS
  <2>2. LeftAt(pf, x, n) = y
    BY <1>6, <2>1 DEF LeftAt, line
  <2>3. y \in Seq(CapLine) /\ Len(y) = Len(x) + 1 /\ Leads(x, y) /\ ToSet(y) = ToSet(x) \cup {line}
    BY <1>1, <2>1, OneMore DEF line
  <2>4. Len(y) <= n /\ ToSet(y) \subseteq upto
    BY <1>1, <1>3, <1>4, <2>3
  <2>5. \A j \in 1 .. n : Removable(capFile.lines[j], j, pf) \/ capFile.lines[j] \in ToSet(y)
    BY <1>2, <1>4, <2>3 DEF line
  <2>6. LeftOf(pf, n, y)
    BY <2>4, <2>5 DEF LeftOf, upto
  <2> QED  BY <2>2, <2>3, <2>6
<1> QED  BY <1>5, <1>6

(* There is such a pass over any number of the lines.                      *)
LEMMA LeavingExists ==
  ASSUME capFile.lines \in Seq(CapLine), NEW pf, NEW m \in 0 .. Len(capFile.lines)
  PROVE  \E g : Leaving(pf, m, g)
<1> DEFINE Lacking == {k \in 0 .. Len(capFile.lines) : ~\E g : Leaving(pf, k, g)}
<1>1. SUFFICES ASSUME Lacking # {} PROVE FALSE
  OBVIOUS
<1>0. Len(capFile.lines) \in Nat
  OBVIOUS
<1>2. PICK k \in Lacking : \A y \in Lacking : k <= y
  <2>1. Lacking \subseteq Nat
    OBVIOUS
  <2> QED  BY <1>1, <2>1, LeastNumber
<1>3. k \in 0 .. Len(capFile.lines) /\ ~\E g : Leaving(pf, k, g)
  OBVIOUS
<1>4. CASE k = 0
  <2> DEFINE e == <<>>
             h == [n \in 0 .. 0 |-> e]
  <2>1. e \in Seq(CapLine) /\ Len(e) = 0 /\ ToSet(e) = {}
    BY DEF ToSet
  <2>2. Leads(e, e) /\ LeftOf(pf, 0, e)
    BY <2>1 DEF Leads, LeftOf
  <2> HIDE DEF e
  <2>3. h \in [0 .. 0 -> Seq(CapLine)] /\ h[0] = e /\ \A n \in 0 .. 0 : n = 0
    BY <2>1
  <2> HIDE DEF h
  <2>4. \A n \in 0 .. 0 : LeftOf(pf, n, h[n]) /\ \A a \in 0 .. n : Leads(h[a], h[n])
    BY <2>2, <2>3
  <2>5. Leaving(pf, 0, h)
    BY <2>3, <2>4 DEF Leaving, e
  <2> QED  BY <1>3, <1>4, <2>5
<1>5. CASE k # 0
  <2>1. k - 1 \in 0 .. Len(capFile.lines) /\ k - 1 \notin Lacking /\ k \in 1 .. Len(capFile.lines)
    BY <1>0, <1>2, <1>3, <1>5
  <2>2. PICK g : Leaving(pf, k - 1, g)
    BY <2>1
  <2>3. PICK next : next = LeftAt(pf, g[k - 1], k)
    OBVIOUS
  <2> DEFINE h == [n \in 0 .. k |-> IF n = k THEN next ELSE g[n]]
  <2>4. g[k - 1] \in Seq(CapLine) /\ LeftOf(pf, k - 1, g[k - 1]) /\ \A a \in 0 .. k - 1 : Leads(g[a], g[k - 1])
    <3>1. k - 1 \in 0 .. k - 1
      BY <2>1
    <3> QED  BY <2>2, <3>1 DEF Leaving
  <2>5. next \in Seq(CapLine) /\ LeftOf(pf, k, next) /\ Leads(g[k - 1], next)
    BY <2>1, <2>3, <2>4, LeftIs
  <2>6. \A a \in 0 .. k - 1 : Leads(g[a], next)
    <3> SUFFICES ASSUME NEW a \in 0 .. k - 1 PROVE Leads(g[a], next)
      OBVIOUS
    <3>1. g[a] \in Seq(CapLine) /\ Leads(g[a], g[k - 1])
      BY <2>2, <2>4 DEF Leaving
    <3>2. Len(g[a]) \in Nat /\ Len(g[k - 1]) \in Nat /\ Len(next) \in Nat
      BY <2>4, <2>5, <3>1
    <3>3. PICK x, y : x = g[a] /\ y = g[k - 1]
      OBVIOUS
    <3>4. Leads(x, y) /\ Leads(y, next) /\ Len(x) \in Nat /\ Len(y) \in Nat /\ Len(next) \in Nat
      BY <2>5, <3>1, <3>2, <3>3
    <3>5. Leads(x, next)
      BY <3>4 DEF Leads
    <3> QED  BY <3>3, <3>5
  <2>7. Leads(next, next)
    <3>1. Len(next) \in Nat
      BY <2>5
    <3> QED  BY <3>1 DEF Leads
  <2>8. /\ h[k] = next /\ \A n \in 0 .. k - 1 : h[n] = g[n]
        /\ \A n : n \in 0 .. k <=> n \in 0 .. k - 1 \/ n = k
    BY <1>0, <2>1
  <2>9. h \in [0 .. k -> Seq(CapLine)] /\ h[0] = <<>>
    <3>1. \A n \in 0 .. k - 1 : g[n] \in Seq(CapLine)
      BY <2>2 DEF Leaving
    <3>2. g[0] = <<>> /\ 0 \in 0 .. k - 1
      BY <2>1, <2>2 DEF Leaving
    <3> QED  BY <1>5, <2>1, <2>5, <2>8, <3>1, <3>2
  <2> HIDE DEF h
  <2>10. \A n \in 1 .. k : h[n] = LeftAt(pf, h[n - 1], n)
    <3> SUFFICES ASSUME NEW n \in 1 .. k PROVE h[n] = LeftAt(pf, h[n - 1], n)
      OBVIOUS
    <3>1. CASE n = k
      <4>1. k - 1 \in 0 .. k - 1
        BY <2>1
      <4> QED  BY <2>3, <2>8, <3>1, <4>1
    <3>2. CASE n # k
      <4>1. n \in 0 .. k - 1 /\ n - 1 \in 0 .. k - 1 /\ n \in 1 .. k - 1
        BY <2>1, <3>2
      <4>2. g[n] = LeftAt(pf, g[n - 1], n)
        BY <2>2, <4>1 DEF Leaving
      <4> QED  BY <2>8, <4>1, <4>2
    <3> QED  BY <3>1, <3>2
  <2>11. \A n \in 0 .. k : LeftOf(pf, n, h[n]) /\ \A a \in 0 .. n : Leads(h[a], h[n])
    <3> SUFFICES ASSUME NEW n \in 0 .. k PROVE LeftOf(pf, n, h[n]) /\ \A a \in 0 .. n : Leads(h[a], h[n])
      OBVIOUS
    <3>1. CASE n = k
      BY <2>5, <2>6, <2>7, <2>8, <3>1
    <3>2. CASE n # k
      <4>1. n \in 0 .. k - 1 /\ \A a \in 0 .. n : a \in 0 .. k - 1
        BY <2>1, <3>2
      <4>2. LeftOf(pf, n, g[n]) /\ \A a \in 0 .. n : Leads(g[a], g[n])
        BY <2>2, <4>1 DEF Leaving
      <4> QED  BY <2>8, <4>1, <4>2
    <3> QED  BY <3>1, <3>2
  <2>12. Leaving(pf, k, h)
    BY <2>9, <2>10, <2>11 DEF Leaving
  <2> QED  BY <1>3, <2>12
<1> QED  BY <1>4, <1>5

(* The pass that the compaction makes is one.                              *)
LEMMA StayingIs ==
  ASSUME capFile.lines \in Seq(CapLine), NEW pf, NEW m, m = pf.offset, m \in 0 .. Len(capFile.lines)
  PROVE  Leaving(pf, m, Staying(pf))
<1>1. PICK g : Leaving(pf, m, g)
  BY LeavingExists
<1> DEFINE Eq(f) == f = [n \in 0 .. pf.offset |->
                   IF n = 0 THEN <<>>
                   ELSE IF Removable(capFile.lines[n], n, pf) THEN f[n - 1]
                   ELSE Append(f[n - 1], capFile.lines[n])]
<1>2. Eq(g)
  <2>1. g = [n \in 0 .. m |-> g[n]]
    BY <1>1 DEF Leaving
  <2>2. \A n \in 0 .. m : g[n] = IF n = 0 THEN <<>>
                   ELSE IF Removable(capFile.lines[n], n, pf) THEN g[n - 1]
                   ELSE Append(g[n - 1], capFile.lines[n])
    <3>1. \A n \in 0 .. m : n = 0 \/ n \in 1 .. m
      OBVIOUS
    <3> QED  BY <1>1, <3>1 DEF Leaving, LeftAt
  <2> QED  BY <2>1, <2>2
<1>3. PICK f : f = Staying(pf)
  OBVIOUS
<1>4. Eq(f)
  <2>1. Staying(pf) = CHOOSE h : Eq(h)
    BY DEF Staying
  <2> HIDE DEF Eq
  <2> QED  BY <1>2, <1>3, <2>1
<1>5. f = [n \in 0 .. m |-> f[n]] /\ \A n \in 0 .. m : f[n] = IF n = 0 THEN <<>>
                   ELSE IF Removable(capFile.lines[n], n, pf) THEN f[n - 1]
                   ELSE Append(f[n - 1], capFile.lines[n])
  BY <1>4
<1>6. f[0] = <<>> /\ \A n \in 1 .. m : f[n] = LeftAt(pf, f[n - 1], n)
  <2>1. 0 \in 0 .. m /\ \A n \in 1 .. m : n \in 0 .. m /\ n # 0
    OBVIOUS
  <2> QED  BY <1>5, <2>1 DEF LeftAt
<1>7. \A n \in 0 .. m : f[n] = g[n]
  <2> DEFINE Lacking == {k \in 0 .. m : f[k] # g[k]}
  <2>1. SUFFICES ASSUME Lacking # {} PROVE FALSE
    OBVIOUS
  <2>2. PICK k \in Lacking : \A y \in Lacking : k <= y
    <3>1. Lacking \subseteq Nat
      OBVIOUS
    <3> QED  BY <2>1, <3>1, LeastNumber
  <2>3. k # 0
    BY <1>1, <1>6, <2>2 DEF Leaving
  <2>4. k \in 1 .. m /\ k - 1 \in 0 .. m /\ ~(k <= k - 1)
    BY <2>2, <2>3
  <2>5. f[k - 1] = g[k - 1]
    BY <2>2, <2>4
  <2>6. g[k] = LeftAt(pf, g[k - 1], k)
    BY <1>1, <2>4 DEF Leaving
  <2> QED  BY <1>6, <2>2, <2>4, <2>5, <2>6
<1>8. f = g
  <2>1. g = [n \in 0 .. m |-> g[n]]
    BY <1>1 DEF Leaving
  <2> QED  BY <1>5, <1>7, <2>1
<1> QED  BY <1>1, <1>3, <1>8

(* One file after the other.                                               *)
LEMMA Together ==
  ASSUME NEW x \in Seq(CapLine), NEW y \in Seq(CapLine)
  PROVE  x \o y \in Seq(CapLine) /\ ToSet(x \o y) = ToSet(x) \cup ToSet(y)
<1> DEFINE z == x \o y
<1>1. /\ z \in Seq(CapLine) /\ Len(z) = Len(x) + Len(y) /\ Len(x) \in Nat /\ Len(y) \in Nat
      /\ \A i \in 1 .. Len(x) : z[i] = x[i] /\ i \in 1 .. Len(z)
      /\ \A i \in 1 .. Len(y) : z[Len(x) + i] = y[i] /\ Len(x) + i \in 1 .. Len(z)
  OBVIOUS
<1> HIDE DEF z
<1>2. /\ ToSet(x) = {x[i] : i \in 1 .. Len(x)} /\ ToSet(y) = {y[i] : i \in 1 .. Len(y)}
      /\ ToSet(z) = {z[i] : i \in 1 .. Len(z)}
  <2>1. \A w \in Seq(CapLine) : ToSet(w) = {w[i] : i \in 1 .. Len(w)}
    BY DEF ToSet
  <2> QED  BY <1>1, <2>1
<1>3. ASSUME NEW i \in 1 .. Len(z) PROVE z[i] \in ToSet(x) \cup ToSet(y)
  <2>1. CASE i \in 1 .. Len(x)
    BY <1>1, <1>2, <2>1
  <2>2. CASE i \notin 1 .. Len(x)
    <3>1. i - Len(x) \in 1 .. Len(y) /\ Len(x) + (i - Len(x)) = i
      BY <1>1, <2>2
    <3> QED  BY <1>1, <1>2, <3>1
  <2> QED  BY <2>1, <2>2
<1>4. ToSet(x) \cup ToSet(y) \subseteq ToSet(z)
  BY <1>1, <1>2
<1> QED  BY <1>1, <1>2, <1>3, <1>4 DEF z

(* The lines after an offset.                                              *)
LEMMA AfterIs ==
  ASSUME NEW x \in Seq(CapLine), NEW m \in 0 .. Len(x)
  PROVE  /\ SubSeq(x, m + 1, Len(x)) \in Seq(CapLine)
         /\ ToSet(SubSeq(x, m + 1, Len(x))) = {x[i] : i \in m + 1 .. Len(x)}
<1> DEFINE y == SubSeq(x, m + 1, Len(x))
<1>1. /\ y \in Seq(CapLine) /\ Len(y) = Len(x) - m /\ Len(x) \in Nat /\ m \in Nat
      /\ \A i \in 1 .. Len(y) : y[i] = x[m + i] /\ m + i \in m + 1 .. Len(x)
  <2>1. Len(x) \in Nat /\ m \in Nat
    OBVIOUS
  <2>2. CASE m = Len(x)
    <3>1. y = <<>> /\ Len(<<>>) = 0
      BY <2>1, <2>2
    <3> HIDE DEF y
    <3> QED  BY <2>1, <2>2, <3>1
  <2>3. CASE m # Len(x)
    <3>1. m + 1 \in 1 .. Len(x) /\ Len(x) \in 1 .. Len(x)
      BY <2>1, <2>3
    <3>2. /\ y \in Seq(CapLine) /\ Len(y) = Len(x) - m
          /\ \A i \in 1 .. Len(x) - m : y[i] = x[m + i]
      BY <2>1, <3>1
    <3> HIDE DEF y
    <3> QED  BY <2>1, <3>2
  <2> QED  BY <2>2, <2>3
<1> HIDE DEF y
<1>2. ToSet(y) = {y[i] : i \in 1 .. Len(y)}
  BY <1>1 DEF ToSet
<1>3. ASSUME NEW i \in m + 1 .. Len(x) PROVE x[i] \in ToSet(y)
  <2>1. i - m \in 1 .. Len(y) /\ m + (i - m) = i
    BY <1>1
  <2> QED  BY <1>1, <1>2, <2>1
<1>4. ASSUME NEW i \in 1 .. Len(y) PROVE y[i] \in {x[j] : j \in m + 1 .. Len(x)}
  BY <1>1
<1>5. ToSet(y) = {x[j] : j \in m + 1 .. Len(x)}
  BY <1>2, <1>3, <1>4
<1> QED  BY <1>1, <1>5 DEF y

(* What the compaction takes out of the file is on the server, and what is *)
(* left of the proof covers what it says.                                  *)
ResultFits(r) ==
  /\ r \in Intended /\ Covered(r.proofPrefix, r.segments, capServer)
  /\ ToSet(r.prefix) \subseteq ToSet(capFile.lines)
  /\ ToSet(capFile.lines) \subseteq ToSet(r.prefix) \cup (Record \cap (capServer \cup early))

(* The result that a compaction intends is such a one.                     *)
LEMMA ResultIs ==
  ASSUME capFile.lines \in Seq(CapLine), NEW pf \in CapProof, ProofIs(pf, capServer), pf # NoProof,
         HasPrefix(capFile.lines, pf.prefix), Parsed(pf)
  PROVE  ResultFits(Result(pf))
<1>1. PICK m, lines : m = pf.offset /\ lines = capFile.lines
  OBVIOUS
<1>2. /\ lines \in Seq(CapLine) /\ pf.prefix \in Seq(CapLine) /\ m = Len(pf.prefix) /\ pf.segments \in Segments
      /\ Covered(pf.prefix, pf.segments, capServer) /\ m \in 0 .. Len(lines) /\ m \in Nat /\ Len(lines) \in Nat
  BY <1>1 DEF ProofIs, CapProof, HasPrefix
<1>3. \A i \in 1 .. m : pf.prefix[i] = lines[i] /\ lines[i] \in Record
  <2>1. PICK t : t = Prefix(lines, m)
    OBVIOUS
  <2>2. t = pf.prefix /\ \A i \in 1 .. Len(t) : t[i] = lines[i]
    BY <1>1, <1>2, <2>1, PrefixIs DEF HasPrefix
  <2> QED  BY <1>1, <1>2, <2>2 DEF Parsed
<1>4. ASSUME NEW s \in pf.segments
      PROVE  /\ s \in [offset : Nat, to : Nat] /\ s.offset \in 0 .. m
             /\ \A i \in 1 .. s.offset : InRange(lines[i], s.to) => lines[i] \in Record \cap (capServer \cup early)
  <2>1. /\ s \in [offset : Nat, to : Nat] /\ s.offset \in Nat /\ s.offset <= m
        /\ \A i \in 1 .. s.offset : pf.prefix[i] \in Record /\ InRange(pf.prefix[i], s.to) =>
             pf.prefix[i] \in capServer \cup early
    BY <1>2 DEF Covered, Segments
  <2>2. \A i \in 1 .. s.offset : i \in 1 .. m
    BY <1>2, <2>1
  <2> QED  BY <1>2, <1>3, <2>1, <2>2
<1>5. PICK g : g = Staying(pf)
  OBVIOUS
<1>6. Leaving(pf, m, g)
  BY <1>1, <1>2, <1>5, StayingIs
<1>7. PICK p, rest : p = g[m] /\ rest = SubSeq(lines, m + 1, Len(lines))
  OBVIOUS
<1>8. PICK r, segments : r = Result(pf) /\ segments = Moved(pf)
  OBVIOUS
<1>9. r = [prefix |-> p \o rest, proofPrefix |-> p, segments |-> segments]
  BY <1>1, <1>5, <1>7, <1>8 DEF Result
<1>10. p \in Seq(CapLine) /\ LeftOf(pf, m, p)
  <2>1. m \in 0 .. m
    BY <1>2
  <2> QED  BY <1>6, <1>7, <2>1 DEF Leaving
<1>11. rest \in Seq(CapLine) /\ ToSet(rest) = {lines[i] : i \in m + 1 .. Len(lines)}
  BY <1>2, <1>7, AfterIs
<1>12. p \o rest \in Seq(CapLine) /\ ToSet(p \o rest) = ToSet(p) \cup ToSet(rest)
  BY <1>10, <1>11, Together
<1>13. segments \in Segments /\ Covered(p, segments, capServer)
  <2>1. ASSUME NEW x \in segments
        PROVE  /\ x \in [offset : Nat, to : Nat] /\ x.offset <= Len(p)
               /\ \A n \in 1 .. x.offset : p[n] \in Record /\ InRange(p[n], x.to) => p[n] \in capServer \cup early
    <3>1. PICK s \in pf.segments : x = Segment(Len(g[s.offset]), s.to)
      BY <1>5, <1>8 DEF Moved
    <3>2. PICK q : q = g[s.offset]
      OBVIOUS
    <3>3. q \in Seq(CapLine) /\ LeftOf(pf, s.offset, q) /\ Leads(q, p)
      <4>1. m \in 0 .. m /\ s.offset \in 0 .. m
        BY <1>2, <1>4
      <4> QED  BY <1>6, <1>7, <3>2, <4>1 DEF Leaving
    <3>4. x.offset = Len(q) /\ x.to = s.to /\ x = [offset |-> Len(q), to |-> s.to]
      BY <3>1, <3>2 DEF Segment
    <3>5. Len(q) \in Nat /\ s.to \in Nat /\ Len(q) <= Len(p) /\ \A n \in 1 .. Len(q) : p[n] = q[n]
      BY <1>4, <3>3 DEF Leads
    <3>6. ToSet(q) = {q[n] : n \in 1 .. Len(q)} /\ ToSet(q) \subseteq {lines[j] : j \in 1 .. s.offset}
      <4>1. ToSet(q) \subseteq {lines[j] : j \in 1 .. s.offset}
        BY <1>1, <3>3 DEF LeftOf
      <4>2. ToSet(q) = {q[n] : n \in 1 .. Len(q)}
        BY <3>3 DEF ToSet
      <4> QED  BY <4>1, <4>2
    <3>7. \A n \in 1 .. Len(q) : InRange(p[n], s.to) => p[n] \in capServer \cup early
      <4> SUFFICES ASSUME NEW n \in 1 .. Len(q), InRange(p[n], s.to) PROVE p[n] \in capServer \cup early
        OBVIOUS
      <4>1. PICK j \in 1 .. s.offset : q[n] = lines[j]
        BY <3>6
      <4> QED  BY <1>4, <3>5, <4>1
    <3> QED  BY <3>4, <3>5, <3>7
  <2> QED  BY <2>1 DEF Covered, Segments
<1>14. r \in Intended
  BY <1>9, <1>10, <1>12, <1>13 DEF Intended
<1>15. ToSet(lines) = {lines[i] : i \in 1 .. Len(lines)}
  BY <1>2 DEF ToSet
<1>16. ToSet(p \o rest) \subseteq ToSet(lines)
  <2>1. ToSet(p) \subseteq {lines[j] : j \in 1 .. m}
    BY <1>1, <1>10 DEF LeftOf
  <2>2. \A i : i \in 1 .. m \/ i \in m + 1 .. Len(lines) => i \in 1 .. Len(lines)
    BY <1>2
  <2> QED  BY <1>11, <1>12, <1>15, <2>1, <2>2
<1>17. ToSet(lines) \subseteq ToSet(p \o rest) \cup (Record \cap (capServer \cup early))
  <2> SUFFICES ASSUME NEW i \in 1 .. Len(lines)
               PROVE  lines[i] \in ToSet(p \o rest) \cup (Record \cap (capServer \cup early))
    BY <1>15
  <2>1. CASE i \in m + 1 .. Len(lines)
    BY <1>11, <1>12, <2>1
  <2>2. CASE i \in 1 .. m
    <3>1. Removable(lines[i], i, pf) \/ lines[i] \in ToSet(p)
      BY <1>1, <1>10, <2>2 DEF LeftOf
    <3>2. ASSUME Removable(lines[i], i, pf) PROVE lines[i] \in Record \cap (capServer \cup early)
      <4>1. PICK s \in pf.segments : i <= s.offset /\ InRange(lines[i], s.to)
        BY <3>2 DEF Removable
      <4>2. i \in 1 .. s.offset
        BY <1>4, <2>2, <4>1
      <4> QED  BY <1>4, <4>1, <4>2
    <3> QED  BY <1>12, <3>1, <3>2
  <2>3. i \in m + 1 .. Len(lines) \/ i \in 1 .. m
    BY <1>2
  <2> QED  BY <2>1, <2>2, <2>3
<1>18. r.prefix = p \o rest /\ r.proofPrefix = p /\ r.segments = segments
  BY <1>9
<1> QED  BY <1>1, <1>8, <1>13, <1>14, <1>16, <1>17, <1>18 DEF ResultFits

(* What is left of a proof once the file is the intended one.              *)
LEMMA RetainedIs ==
  ASSUME NEW ino \in Nat, NEW r \in Intended, NEW have, Covered(r.proofPrefix, r.segments, have)
  PROVE  Retained(ino, r) \in CapProof \cup {NoProof} /\ ProofIs(Retained(ino, r), have)
<1>1. CASE r.segments = {}
  BY <1>1 DEF Retained, ProofIs
<1>2. CASE r.segments # {}
  <2>1. PICK pf : pf = Retained(ino, r)
    OBVIOUS
  <2>2. /\ r.proofPrefix \in Seq(CapLine) /\ r.segments \in Segments /\ Len(r.proofPrefix) \in Nat
        /\ pf = [ino |-> ino, offset |-> Len(r.proofPrefix), prefix |-> r.proofPrefix, segments |-> r.segments,
                 done |-> NoProof]
    BY <1>2, <2>1 DEF Intended, Retained, ProofOf
  <2>3. pf \in CapProof
    BY <2>2 DEF CapProof
  <2>4. ProofIs(pf, have)
    BY <2>2, <2>3 DEF ProofIs
  <2> QED  BY <2>1, <2>3, <2>4
<1> QED  BY <1>1, <1>2

(* A step of the compaction that saves nothing.                            *)
LEMMA CompactFrame ==
  ASSUME CaptureInv, UNCHANGED <<capFile, capDay, capChanges, capState, capPending, capSync, capServer, returned, early>>,
         CompactInv'
  PROVE  CaptureInv'
<1>1. capServer \subseteq capServer' /\ capServer' \subseteq returned
  BY DEF CaptureInv, CapFileInv
<1> QED  BY <1>1, StillKeeps DEF CaptureInv

(* A step that saves what it read with another proof.                      *)
LEMMA SavesInv ==
  ASSUME CaptureInv, compactor.pc # "idle", NEW p \in CapProof \cup {NoProof}, ProofIs(p, capServer), NEW next,
         CompactSaves(p, next), CompactInv'
  PROVE  CaptureInv'
<1>1. PICK s, day : s = compactor.mem /\ day = capDay
  OBVIOUS
<1>2. /\ capState' = [s EXCEPT !.proof = p]
      /\ UNCHANGED <<capFile, capDay, capChanges, capPending, capSync, capServer, returned, early>>
  BY <1>1 DEF CompactSaves
<1>3. /\ capServer \subseteq capServer' /\ capServer' \subseteq returned /\ SavedIs(s, day) /\ s \in CapSaved
      /\ day \in Nat
  BY <1>1, <1>2 DEF CaptureInv, CapFileInv, CompactInv, SavedIs
<1>4. /\ capState' \in CapSaved /\ capState'.check = s.check /\ capState'.ledger = s.ledger /\ capState'.proof = p
  BY <1>2, <1>3 DEF CapSaved
<1>5. SavedIs(s, day)' /\ ProofIs(p, capServer)'
  BY <1>2, <1>3, StillKeeps
<1>6. CapCheckIs(s.check, s.ledger, day)' /\ CapLedgerIs(s.ledger, day)'
  BY <1>5 DEF SavedIs
<1>7. ProofIs(capState.proof, capServer)' /\ capDay' = day
  BY <1>1, <1>2, <1>4, <1>5
<1>8. SavedIs(capState, capDay)'
  BY <1>4, <1>6, <1>7 DEF SavedIs
<1> QED  BY <1>2, <1>3, <1>8, StillKeeps DEF CaptureInv

(* A compaction that has ended, or died, holds nothing.                    *)
LEMMA CompactOver ==
  ASSUME compactor' = NoCompact
  PROVE  CompactInv'
<1>1. compactor'.pc = "idle" /\ compactor' \in CompactState
  BY DEF NoCompact, CompactState
<1> QED  BY <1>1 DEF CompactInv

(* A compaction begins with what is saved.                                 *)
LEMMA CompactBeginsInv ==
  ASSUME CaptureInv, CompactBegins
  PROVE  CaptureInv'
<1>1. PICK s, day : s = capState /\ day = capDay
  OBVIOUS
<1>2. /\ s.proof # NoProof /\ compactor' = [NoCompact EXCEPT !.pc = "decide", !.mem = s]
      /\ UNCHANGED <<capFile, capDay, capChanges, capState, capPending, capSync, capServer, returned, early>>
  BY <1>1 DEF CompactBegins
<1>3. /\ capServer \subseteq capServer' /\ capServer' \subseteq returned /\ SavedIs(s, day) /\ s \in CapSaved
      /\ day \in Nat
  BY <1>1, <1>2 DEF CaptureInv, CapFileInv, SavedIs
<1>4. SavedIs(s, day)'
  BY <1>2, <1>3, StillKeeps
<1>5. compactor' \in CompactState /\ compactor'.pc = "decide" /\ compactor'.mem = s
  BY <1>2, <1>3 DEF NoCompact, CompactState
<1>6. SavedIs(compactor.mem, capDay)'
  BY <1>1, <1>2, <1>4, <1>5
<1>7. CompactInv'
  BY <1>2, <1>5, <1>6 DEF CompactInv
<1> QED  BY <1>2, <1>7, CompactFrame

(* The proof that a compaction has read.                                   *)
LEMMA OursIs ==
  ASSUME CaptureInv, compactor.pc = "decide"
  PROVE  /\ Ours \in CapProof /\ Ours # NoProof /\ ProofIs(Ours, capServer) /\ SavedIs(compactor.mem, capDay)
         /\ capFile.ino \in Nat /\ capFile.lines \in Seq(CapLine) /\ compactor \in CompactState
         /\ Ours.done # NoProof => Ours.done \in Intended /\ Covered(Ours.done.proofPrefix, Ours.done.segments, capServer)
<1>1. /\ compactor \in CompactState /\ SavedIs(compactor.mem, capDay) /\ Ours # NoProof
      /\ capFile.ino \in Nat /\ capFile.lines \in Seq(CapLine)
  BY DEF CaptureInv, CompactInv, CapFileInv, CapFile, Ours
<1>2. Ours \in CapProof /\ ProofIs(Ours, capServer)
  BY <1>1 DEF SavedIs, CapSaved, Ours
<1>3. PICK pf : pf = Ours
  OBVIOUS
<1>4. pf.done # NoProof => pf.done \in Intended /\ Covered(pf.done.proofPrefix, pf.done.segments, capServer)
  BY <1>1, <1>2, <1>3 DEF ProofIs, CapProof
<1> QED  BY <1>1, <1>2, <1>3, <1>4

(* A rename that had happened leaves what was intended.                    *)
LEMMA AlreadyInv ==
  ASSUME CaptureInv, AlreadyCompacted
  PROVE  CaptureInv'
<1>1. PICK p, done, ino : done = Ours.done /\ ino = capFile.ino /\ p = Retained(ino, done)
  OBVIOUS
<1>2. compactor.pc = "decide" /\ done # NoProof /\ CompactSaves(p, NoCompact)
  BY <1>1 DEF AlreadyCompacted, Completed
<1>3. done \in Intended /\ Covered(done.proofPrefix, done.segments, capServer) /\ ino \in Nat
  BY <1>1, <1>2, OursIs
<1>4. p \in CapProof \cup {NoProof} /\ ProofIs(p, capServer)
  BY <1>1, <1>3, RetainedIs
<1>5. CompactInv'
  BY <1>2, CompactOver DEF CompactSaves
<1> QED  BY <1>2, <1>4, <1>5, SavesInv

(* A proof that does not fit the file is dropped.                          *)
LEMMA DiscardInv ==
  ASSUME CaptureInv, Discard
  PROVE  CaptureInv'
<1>1. compactor.pc = "decide" /\ CompactSaves(NoProof, NoCompact)
  BY DEF Discard
<1>2. CompactInv'
  BY <1>1, CompactOver DEF CompactSaves
<1>3. ProofIs(NoProof, capServer)
  BY DEF ProofIs
<1> QED  BY <1>1, <1>2, <1>3, SavesInv

(* Nothing is removed.                                                     *)
LEMMA NothingInv ==
  ASSUME CaptureInv, NothingToRemove
  PROVE  CaptureInv'
<1>1. /\ compactor' = NoCompact
      /\ UNCHANGED <<capFile, capDay, capChanges, capState, capPending, capSync, capServer, returned, early>>
  BY DEF NothingToRemove
<1> QED  BY <1>1, CompactOver, CompactFrame

(* What the compaction intends to do takes out only what the server has.   *)
LEMMA IntendInv ==
  ASSUME CaptureInv, Intend
  PROVE  CaptureInv'
<1>1. PICK pf, done, p, next, was :
        /\ pf = Ours /\ done = Result(pf) /\ p = [pf EXCEPT !.done = done] /\ was = capFile
        /\ next = [compactor EXCEPT !.pc = "rename", !.file = was, !.done = done]
  OBVIOUS
<1>2. /\ compactor.pc = "decide" /\ Valid /\ Parsed(pf) /\ CompactSaves(p, next)
      /\ HasPrefix(capFile.lines, pf.prefix)
  BY <1>1 DEF Intend, Valid
<1>3. /\ pf \in CapProof /\ pf # NoProof /\ ProofIs(pf, capServer) /\ SavedIs(compactor.mem, capDay)
      /\ capFile.lines \in Seq(CapLine) /\ compactor \in CompactState /\ was \in CapFile
  BY <1>1, <1>2, OursIs DEF CaptureInv, CapFileInv
<1>4. ResultFits(done)
  BY <1>1, <1>2, <1>3, ResultIs
<1>5. done \in Intended /\ Covered(done.proofPrefix, done.segments, capServer)
  BY <1>4 DEF ResultFits
<1>6. p \in CapProof /\ p.done = done /\ p.prefix = pf.prefix /\ p.segments = pf.segments /\ p.offset = pf.offset
  BY <1>1, <1>3, <1>5 DEF CapProof
<1>7. ProofIs(p, capServer)
  BY <1>3, <1>5, <1>6 DEF ProofIs
<1>8. /\ next \in CompactState /\ next.pc = "rename" /\ next.done = done /\ next.mem = compactor.mem
  BY <1>1, <1>3, <1>5 DEF CompactState
<1>9. /\ compactor' = next /\ UNCHANGED <<capFile, capDay, capChanges, capServer, returned, early>>
  BY <1>2 DEF CompactSaves
<1>10. PICK s, day : s = compactor.mem /\ day = capDay
  OBVIOUS
<1>11. SavedIs(s, day)'
  <2>1. capServer \subseteq capServer' /\ capServer' \subseteq returned /\ day \in Nat /\ day <= day
    BY <1>9, <1>10 DEF CaptureInv, CapFileInv
  <2>2. SavedIs(s, day)
    BY <1>3, <1>10
  <2> QED  BY <1>9, <2>1, <2>2, StillKeeps
<1>12. SavedIs(compactor.mem, capDay)'
  BY <1>8, <1>9, <1>10, <1>11
<1>13. ResultFits(done)'
  BY <1>4, <1>9 DEF ResultFits, Covered
<1>14. CompactInv'
  BY <1>8, <1>9, <1>12, <1>13 DEF CompactInv, ResultFits
<1> QED  BY <1>2, <1>6, <1>7, <1>14, SavesInv

(* The file that takes the place of the old one lacks only what the server *)
(* has.                                                                    *)
LEMMA RenameInv ==
  ASSUME CaptureInv, RenameCompacted
  PROVE  CaptureInv'
<1>1. PICK done, kept, ino : done = compactor.done /\ ino = capChanges + 1 /\ kept = Retained(ino, done)
  OBVIOUS
<1>2. /\ compactor.pc = "rename" /\ capFile' = FileOf(ino, done.prefix, capFile.tail, ino) /\ capChanges' = ino
      /\ compactor' = [compactor EXCEPT !.pc = "finish", !.kept = kept]
      /\ UNCHANGED <<capDay, capState, capPending, capSync, capServer, returned, early>>
  BY <1>1 DEF RenameCompacted
<1>3. /\ CapFileInv /\ capFile \in CapFile /\ capChanges \in Nat /\ capDay \in Nat /\ ino \in Nat /\ ino > capChanges
      /\ compactor \in CompactState /\ SavedIs(compactor.mem, capDay)
      /\ capFile.lines \in Seq(CapLine) /\ capFile.tail \in {Torn, NoCheck}
  BY <1>1, <1>2 DEF CaptureInv, CapFileInv, CompactInv, CapFile
<1>4. /\ done \in Intended /\ done.prefix \in Seq(CapLine)
      /\ Covered(done.proofPrefix, done.segments, capServer)
      /\ ToSet(done.prefix) \subseteq ToSet(capFile.lines)
      /\ ToSet(capFile.lines) \subseteq ToSet(done.prefix) \cup (Record \cap (capServer \cup early))
  BY <1>1, <1>2 DEF CaptureInv, CompactInv, Intended
<1>5. capFile' \in CapFile /\ capFile'.lines = done.prefix /\ capFile'.ino = ino
  BY <1>2, <1>3, <1>4 DEF FileOf, CapFile
<1>6. Onward /\ capDay <= capDay'
  BY <1>2, <1>3, <1>5 DEF Onward
<1>7. CapFileInv'
  <2>1. capFile'.ino <= capChanges'
    BY <1>2, <1>3, <1>5
  <2>2. ToSet(capFile'.lines) \cap Record \subseteq returned
    BY <1>3, <1>4, <1>5 DEF CapFileInv
  <2> QED  BY <1>2, <1>3, <1>5, <2>1, <2>2 DEF CapFileInv
<1>8. kept \in CapProof \cup {NoProof} /\ ProofIs(kept, capServer)
  BY <1>1, <1>3, <1>4, RetainedIs
<1>9. ProofIs(kept, capServer)'
  BY <1>2, <1>6, <1>8, ProofKeeps
<1>10. /\ compactor' \in CompactState /\ compactor'.pc = "finish" /\ compactor'.kept = kept
       /\ compactor'.mem = compactor.mem
  BY <1>2, <1>3, <1>8 DEF CompactState
<1>11. PICK s, day : s = compactor.mem /\ day = capDay
  OBVIOUS
<1>12. SavedIs(s, day)'
  BY <1>3, <1>6, <1>11, CapKeeps
<1>13. SavedIs(compactor.mem, capDay)' /\ ProofIs(compactor.kept, capServer)'
  BY <1>2, <1>9, <1>10, <1>11, <1>12
<1>14. CompactInv'
  BY <1>10, <1>13 DEF CompactInv
<1>15. RemovedWasAccepted'
  <2> SUFFICES ASSUME NEW r \in returned, r \notin early, r \notin capServer PROVE InFile(r)'
    BY <1>2 DEF RemovedWasAccepted
  <2>1. PICK n \in DOMAIN capFile.lines : capFile.lines[n] \in {r, Glued(r)}
    BY DEF CaptureInv, RemovedWasAccepted, InFile
  <2>2. PICK line : line = capFile.lines[n]
    OBVIOUS
  <2>3. line \in ToSet(capFile.lines) /\ line \in {r, Glued(r)} /\ r \in Record
    BY <1>3, <2>1, <2>2 DEF ToSet, CapFileInv
  <2>4. line \notin Record \cap (capServer \cup early)
    BY <2>3, CaptureAssumption DEF Glued
  <2>5. line \in ToSet(done.prefix)
    BY <1>4, <2>3, <2>4
  <2>6. PICK m \in DOMAIN done.prefix : done.prefix[m] = line
    BY <1>4, <2>5 DEF ToSet
  <2> QED  BY <1>5, <2>3, <2>6 DEF InFile
<1> QED  BY <1>2, <1>6, <1>7, <1>14, <1>15, CapFrame DEF CaptureInv

(* The last save of a compaction, of what is left of its proof.            *)
LEMMA FinishesInv ==
  ASSUME CaptureInv, CompactFinishes
  PROVE  CaptureInv'
<1>1. compactor.pc = "finish" /\ CompactSaves(compactor.kept, NoCompact)
  BY DEF CompactFinishes
<1>2. CompactInv'
  BY <1>1, CompactOver DEF CompactSaves
<1>3. compactor.kept \in CapProof \cup {NoProof} /\ ProofIs(compactor.kept, capServer)
  BY <1>1 DEF CaptureInv, CompactInv, CompactState
<1> QED  BY <1>1, <1>2, <1>3, SavesInv

(* A compaction that dies leaves what it had saved.                        *)
LEMMA CompactDiesInv ==
  ASSUME CaptureInv, CompactDies
  PROVE  CaptureInv'
<1>1. /\ compactor' = NoCompact
      /\ UNCHANGED <<capFile, capDay, capChanges, capState, capPending, capSync, capServer, returned, early>>
  BY DEF CompactDies
<1> QED  BY <1>1, CompactOver, CompactFrame

-----------------------------------------------------------------------------
(* The first state, every step, and what follows.                          *)
LEMMA CaptureStarts ==
  ASSUME CaptureInit
  PROVE  CaptureInv
<1>1. /\ capFile = FileOf(0, <<>>, NoCheck, 0) /\ capDay = 1 /\ capChanges = 0
      /\ capState = [check |-> NoCheck, ledger |-> {}, proof |-> NoProof] /\ capPending = NoProof
      /\ capSync = NoCaptureSync /\ compactor = NoCompact /\ capServer = {} /\ returned = {} /\ early = {}
  BY DEF CaptureInit
<1>2. capFile \in CapFile /\ capFile.ino = 0 /\ capFile.lines = <<>> /\ ToSet(<<>>) = {}
  BY <1>1 DEF FileOf, CapFile, ToSet
<1>3. CapFileInv
  BY <1>1, <1>2 DEF CapFileInv
<1>4. Tidy({})
  BY FS_EmptySet, ScanAssumption DEF Tidy
<1>5. SavedIs(capState, capDay)
  BY <1>1, <1>4 DEF SavedIs, CapSaved, CapCheckIs, CapLedgerIs, ProofIs
<1>6. capSync \in CapSyncState /\ capSync.pc = "idle"
  BY <1>1 DEF NoCaptureSync, CapSyncState
<1>7. CapSyncInv
  BY <1>1, <1>6 DEF CapSyncInv
<1>8. compactor \in CompactState /\ compactor.pc = "idle"
  BY <1>1 DEF NoCompact, CompactState
<1>9. CompactInv
  BY <1>8 DEF CompactInv
<1> QED  BY <1>1, <1>3, <1>5, <1>7, <1>9 DEF CaptureInv, RemovedWasAccepted

(* Every step keeps the invariant.                                         *)
LEMMA CaptureStep ==
  ASSUME CaptureInv, [CaptureNext]_captureVars
  PROVE  CaptureInv'
<1>1. CASE CaptureNextDay
  BY <1>1, CapDayInv
<1>2. CASE AppendTorn
  BY <1>2, TornInv
<1>3. CASE \E r \in Record : AppendCapture(r)
  BY <1>3, AppendInv
<1>4. CASE SyncBegins \/ Stat \/ SyncResumes
  BY <1>4, SyncBeginsInv, StatInv, ResumesInv
<1>5. CASE CollectCapture \/ ProveCapture \/ PersistCapture
  BY <1>5, CollectInv, ProveInv, PersistInv
<1>6. CASE Accept \/ AcknowledgeProof \/ CaptureSyncDies
  BY <1>6, AcceptInv, AcknowledgeInv, SyncDiesInv
<1>7. CASE CompactBegins \/ AlreadyCompacted \/ Discard
  BY <1>7, CompactBeginsInv, AlreadyInv, DiscardInv
<1>8. CASE NothingToRemove \/ Intend \/ RenameCompacted
  BY <1>8, NothingInv, IntendInv, RenameInv
<1>9. CASE CompactFinishes \/ CompactDies
  BY <1>9, FinishesInv, CompactDiesInv
<1>10. CASE UNCHANGED captureVars
  <2>1. /\ UNCHANGED <<capFile, capDay, capChanges, capState, capPending, capSync, capServer, returned, early>>
        /\ compactor' = compactor
    BY <1>10 DEF captureVars
  <2>2. capServer \subseteq capServer' /\ capServer' \subseteq returned
    BY <2>1 DEF CaptureInv, CapFileInv
  <2> QED  BY <2>1, <2>2, StillKeeps DEF CaptureInv
<1> QED
  BY <1>1, <1>2, <1>3, <1>4, <1>5, <1>6, <1>7, <1>8, <1>9, <1>10 DEF CaptureNext

(* What the invariant says of the types.                                   *)
LEMMA CaptureFits ==
  ASSUME CaptureInv
  PROVE  CaptureTypeOK
<1>1. /\ capSync \in CapSyncState /\ compactor \in CompactState /\ SavedIs(capState, capDay)
      /\ capServer \subseteq returned
  BY DEF CaptureInv, CapSyncInv, CompactInv, CapFileInv
<1>2. PICK pf : pf = capState.proof
  OBVIOUS
<1>3. pf # NoProof =>
        /\ Len(pf.prefix) = pf.offset
        /\ \A s \in pf.segments : s.offset \in 0 .. pf.offset
  <2> SUFFICES ASSUME pf # NoProof PROVE Len(pf.prefix) = pf.offset /\ \A s \in pf.segments : s.offset \in 0 .. pf.offset
    OBVIOUS
  <2>1. pf \in CapProof /\ pf.offset = Len(pf.prefix) /\ Covered(pf.prefix, pf.segments, capServer)
    BY <1>1, <1>2 DEF SavedIs, ProofIs
  <2>2. pf.offset \in Nat /\ \A s \in pf.segments : s.offset \in Nat /\ s.offset <= pf.offset
    BY <2>1 DEF Covered, CapProof, Segments
  <2> QED  BY <2>1, <2>2
<1>4. capState.ledger \subseteq Record /\ Cardinality(capState.ledger) <= LedgerLimit
  BY <1>1 DEF SavedIs, CapLedgerIs, Tidy
<1> QED  BY <1>1, <1>2, <1>3, <1>4 DEF CaptureTypeOK, CapSyncState, CompactState

(* A record that was captured leaves the file only after the server has    *)
(* counted it, whatever dies, is lost or is written back from an older     *)
(* state.json, and however the compaction and the syncs interleave.        *)
THEOREM CapturesKept == CaptureSpec => []RemovedWasAccepted
<1>1. CaptureInit => CaptureInv
  BY CaptureStarts
<1>2. CaptureInv /\ [CaptureNext]_captureVars => CaptureInv'
  BY CaptureStep
<1>3. CaptureInv => RemovedWasAccepted
  BY DEF CaptureInv
<1> QED  BY <1>1, <1>2, <1>3, PTL DEF CaptureSpec

(* A waiting proof covers no more than it hashes, and what is saved fits   *)
(* the ledger.                                                             *)
THEOREM CaptureTyped == CaptureSpec => []CaptureTypeOK
<1>1. CaptureInit => CaptureInv
  BY CaptureStarts
<1>2. CaptureInv /\ [CaptureNext]_captureVars => CaptureInv'
  BY CaptureStep
<1>3. CaptureInv => CaptureTypeOK
  BY CaptureFits
<1> QED  BY <1>1, <1>2, <1>3, PTL DEF CaptureSpec

=============================================================================
