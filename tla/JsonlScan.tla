------------------------------ MODULE JsonlScan ------------------------------
(***************************************************************************)
(* The incremental reading of JSONL stores                                 *)
(* (packages/connector/lib/adapters/shared.mjs): what one pass over a file *)
(* makes of its checkpoint and of the ledger of observed events.           *)
(*                                                                         *)
(* A file is its inode, its lines, an unterminated tail and the stamp its  *)
(* last change left; a checkpoint is the inode, offset, stamp and the mark *)
(* of the last bytes before the offset at the time it was taken.  Offsets  *)
(* count lines.  What a checkpoint is "of", the lines that were before its *)
(* offset when they were read, is not stored: the properties refer to it.  *)
(* The ledger is the set of records counted so far, one for each identity. *)
(***************************************************************************)
EXTENDS Integers, Sequences, FiniteSets, SequencesExt

CONSTANTS
  Record,      \* usage records
  IdOf,        \* the identity of each
  DayOf,       \* the UTC day of each
  Broken,      \* a line no parser supports
  Torn,        \* a tail that is only part of a record
  NoCheck,     \* no checkpoint, no tail, no mark
  Window,      \* days a rolling range covers
  LedgerLimit  \* records the ledger takes

ASSUME ScanAssumption ==
  /\ DOMAIN IdOf = Record /\ DayOf \in [Record -> Nat]
  /\ {Broken, Torn, NoCheck} \cap Record = {}
  /\ Window \in Nat \ {0} /\ LedgerLimit \in Nat

FileOf(ino, lines, tail, stamp) ==
  [ino |-> ino, lines |-> lines, tail |-> tail, stamp |-> stamp]

InRange(r, to) == to - Window < DayOf[r] /\ DayOf[r] <= to
Pruned(ledger, to) == {r \in ledger : InRange(r, to)}

Prefix(lines, n) == SubSeq(lines, 1, IF n < Len(lines) THEN n ELSE Len(lines))

(* The hash of the last bytes before an offset.                            *)
Mark(lines, n) == IF n \in 1 .. Len(lines) THEN lines[n] ELSE NoCheck

Checkpoint(file, offset, mark, of) ==
  [ino |-> file.ino, size |-> Len(file.lines), offset |-> offset,
   stamp |-> file.stamp, mark |-> mark, of |-> of]

(* Nothing was written since the checkpoint, by the file's metadata.       *)
Unchanged(check, file) ==
  /\ check # NoCheck
  /\ file.tail = NoCheck
  /\ check.ino = file.ino /\ check.stamp = file.stamp
  /\ check.size = Len(file.lines) /\ check.offset = Len(file.lines)

(* The file was only appended to since the checkpoint.                     *)
Appended(check, file, lines) ==
  /\ check # NoCheck
  /\ check.ino = file.ino
  /\ check.size <= Len(file.lines) /\ check.offset <= Len(file.lines)
  /\ check.mark = Mark(lines, check.offset)

(* Mutant: resumes in whatever file is now at the path.                    *)
ResumeAtBlindly(check, file, lines) ==
  IF check # NoCheck /\ check.offset <= Len(file.lines) THEN check.offset ELSE 0

ResumeAt(check, file, lines) == IF Appended(check, file, lines) THEN check.offset ELSE 0

(* One line: a record in the range joins the ledger unless its identity is *)
(* there already; the same identity with other contents is a conflict.     *)
Counted(pass, line, to) ==
  LET twins == {r \in pass.ledger : IdOf[r] = IdOf[line]} IN
  IF pass.full THEN pass
  ELSE IF line \notin Record THEN [pass EXCEPT !.clean = FALSE]
  ELSE IF ~InRange(line, to) \/ line \in pass.ledger THEN pass
  ELSE IF twins # {} THEN [pass EXCEPT !.clean = FALSE]
  ELSE IF Cardinality(pass.ledger) >= LedgerLimit
  THEN [pass EXCEPT !.full = TRUE, !.clean = FALSE]
  ELSE [pass EXCEPT !.ledger = @ \cup {line}]

CountedAll(ledger, lines, to) ==
  LET pass[n \in 0 .. Len(lines)] ==
        IF n = 0 THEN [ledger |-> ledger, full |-> FALSE, clean |-> TRUE]
        ELSE Counted(pass[n - 1], lines[n], to)
  IN  pass[Len(lines)]

(* A tail that happens to hold a whole record counts until the next pass.  *)
Provisional(check, appended, ledger, tail, to) ==
  {r \in {tail} \cap Record :
    /\ InRange(r, to)
    /\ check = NoCheck \/ appended
    /\ \A q \in ledger : IdOf[q] # IdOf[r]}

(* One pass over a file: seen is the file the walk found, lines and tail   *)
(* what reading up to its size returned.                                   *)
Scanned(check, ledger, seen, lines, tail, current, to) ==
  LET appended == Appended(check, seen, current)
      start == ResumeAt(check, seen, current)
      pass == CountedAll(ledger, SubSeq(lines, start + 1, Len(lines)), to)
  IN [ledger |-> pass.ledger,
      provisional |-> Provisional(check, appended, pass.ledger, tail, to),
      clean |-> pass.clean /\ tail = NoCheck,
      offset |-> IF start < Len(lines) THEN Len(lines) ELSE start,
      skipped |-> {r \in Record \cap {lines[n] : n \in (start + 1) .. Len(lines)} :
                     DayOf[r] > to}]

=============================================================================
