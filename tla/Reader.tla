------------------------------- MODULE Reader -------------------------------
(***************************************************************************)
(* A sync that collects the stores of an agent which writes JSONL files of *)
(* its own (collectJsonl in packages/connector/lib/adapters/shared.mjs,    *)
(* used by the Claude, Gemini, Qwen and Kimi adapters), while the agent    *)
(* appends, truncates, replaces and removes them and the day changes.      *)
(*                                                                         *)
(* A pass lists the files with their metadata, reads each up to the size   *)
(* it listed, and takes the mark of a new checkpoint from the file as it   *)
(* is then.  What it counted and its checkpoints are saved together.       *)
(***************************************************************************)
EXTENDS JsonlScan

CONSTANTS
  Path,        \* the files of the store
  Gone,        \* no file
  MaxDay,      \* bound: days
  MaxWrites,   \* bound: changes of the files
  MaxDeaths    \* bound: passes that die

ASSUME ReaderAssumption ==
  /\ MaxDay \in Nat \ {0} /\ MaxWrites \in Nat /\ MaxDeaths \in Nat

VARIABLES
  file,     \* path -> the file there
  wrote,    \* path -> the records its inode has held
  today,
  writes,   \* changes so far, which number the inodes and stamps
  saved,    \* state.json: checkpoints and ledger of the adapter
  pass,     \* the pass under way
  result,   \* what the last finished pass uploads, and what it should know of
  blind,    \* records a pass went past without counting
  standing, \* <<path, record>> for the lines there since the pass listed the files
  deaths

storeVars == <<file, wrote, today, writes>>
readerVars == <<storeVars, saved, pass, result, blind, standing, deaths>>

Resting ==
  [pc |-> "idle", to |-> 0, seen |-> [p \in Path |-> Gone], todo |-> {}, at |-> Gone,
   read |-> {}, offset |-> 0, checks |-> [p \in Path |-> NoCheck], ledger |-> {}, provisional |-> {},
   clean |-> TRUE]

ReaderInit ==
  /\ file = [p \in Path |-> Gone] /\ wrote = [p \in Path |-> {}]
  /\ today = 1 /\ writes = 0 /\ deaths = 0
  /\ saved = [checks |-> [p \in Path |-> NoCheck], ledger |-> {}]
  /\ pass = Resting
  /\ result = [complete |-> FALSE, to |-> 0, records |-> {}, present |-> {}]
  /\ blind = {} /\ standing = {}

(***************************************************************************)
(* The agent.  It writes a record on or after its day and never twice to   *)
(* one inode.                                                              *)
(***************************************************************************)
LinesOf(f) == IF f = Gone THEN {} ELSE ToSet(f.lines)

Changed(p, new, held) ==
  /\ writes < MaxWrites
  /\ writes' = writes + 1
  /\ file' = [file EXCEPT ![p] = new]
  /\ wrote' = [wrote EXCEPT ![p] = held]
  /\ standing' = {line \in standing : line[1] # p \/ line[2] \in LinesOf(new)}
  /\ UNCHANGED <<today, saved, pass, result, blind, deaths>>

Due == {r \in Record : DayOf[r] <= today}
Writable(p) == Due \ wrote[p]

CreateFile(p) ==
  /\ file[p] = Gone
  /\ \E r \in Due :
       Changed(p, FileOf(writes, <<r>>, NoCheck, writes), {r})

AppendLine(p) ==
  /\ file[p] # Gone /\ file[p].tail = NoCheck
  /\ \E line \in Writable(p) \cup ({Broken} \ wrote[p]) :
       Changed(p, [file[p] EXCEPT !.lines = Append(@, line), !.stamp = writes],
              wrote[p] \cup {line})

(* The first half of a record, or a record whose newline is still to come. *)
AppendPart(p) ==
  /\ file[p] # Gone /\ file[p].tail = NoCheck
  /\ \E r \in Writable(p) : \E part \in {Torn, r} :
       Changed(p, [file[p] EXCEPT !.tail = part, !.stamp = writes], wrote[p])

EndLine(p) ==
  /\ file[p] # Gone /\ file[p].tail # NoCheck
  /\ \E r \in Writable(p) :
       /\ file[p].tail \in {Torn, r}
       /\ Changed(p, [file[p] EXCEPT !.lines = Append(@, r), !.tail = NoCheck,
                                    !.stamp = writes], wrote[p] \cup {r})

Truncate(p) ==
  /\ file[p] # Gone
  /\ \E n \in 0 .. (Len(file[p].lines) - 1) :
       Changed(p, FileOf(file[p].ino, Prefix(file[p].lines, n), NoCheck, writes), wrote[p])

(* Another file takes the path, with some of the records of the old one.   *)
ReplaceFile(p) ==
  /\ file[p] # Gone
  /\ \E n \in 0 .. Len(file[p].lines) :
       Changed(p, FileOf(writes, Prefix(file[p].lines, n), NoCheck, writes),
              ToSet(Prefix(file[p].lines, n)))

DeleteFile(p) == file[p] # Gone /\ Changed(p, Gone, {})

NextDay ==
  /\ today < MaxDay /\ today' = today + 1
  /\ UNCHANGED <<file, wrote, writes, saved, pass, result, blind, standing, deaths>>

Agent ==
  \/ NextDay
  \/ \E p \in Path :
       \/ CreateFile(p) \/ AppendLine(p) \/ AppendPart(p) \/ EndLine(p)
       \/ Truncate(p) \/ ReplaceFile(p) \/ DeleteFile(p)

-----------------------------------------------------------------------------
(* The range is taken once; the ledger keeps what is in it.                *)
BeginPass ==
  /\ pass.pc = "idle"
  /\ pass' = [Resting EXCEPT !.pc = "walk", !.to = today,
                             !.ledger = Pruned(saved.ledger, today)]
  /\ UNCHANGED <<storeVars, saved, result, blind, standing, deaths>>

Walk ==
  /\ pass.pc = "walk"
  /\ pass' = [pass EXCEPT !.pc = "read", !.seen = file,
                          !.todo = {p \in Path : file[p] # Gone}]
  /\ standing' = UNION {{p} \X LinesOf(file[p]) : p \in Path}
  /\ UNCHANGED <<storeVars, saved, result, blind, deaths>>

Keeping(p) == [pass EXCEPT !.checks[p] = saved.checks[p], !.todo = @ \ {p}]

SkipUnchanged(p) ==
  /\ pass.pc = "read" /\ p \in pass.todo
  /\ Unchanged(saved.checks[p], pass.seen[p])
  /\ pass' = Keeping(p)
  /\ UNCHANGED <<storeVars, saved, result, blind, standing, deaths>>

(* The bytes up to the listed size, as they are now.                       *)
LinesRead(p) == Prefix(file[p].lines, Len(pass.seen[p].lines))
TailRead(p) ==
  IF LinesRead(p) = pass.seen[p].lines THEN pass.seen[p].tail ELSE NoCheck

(* The mark is only of the last bytes before the offset; it can agree while *)
(* there are other lines before them.                                      *)
MisledBy(check, lines) ==
  IF check # NoCheck /\ check.mark = Mark(lines, check.offset)
  THEN ToSet(Prefix(lines, check.offset)) \ check.of
  ELSE {}

ReadFile(p) ==
  /\ pass.pc = "read" /\ p \in pass.todo
  /\ ~Unchanged(saved.checks[p], pass.seen[p])
  /\ file[p] # Gone
  /\ LET scan == Scanned(saved.checks[p], pass.ledger, pass.seen[p], LinesRead(p),
                         TailRead(p), file[p].lines, pass.to)
         next == IF scan.clean
                 THEN [pass EXCEPT !.pc = "mark", !.at = p, !.offset = scan.offset,
                                   !.read = ToSet(LinesRead(p))]
                 ELSE [Keeping(p) EXCEPT !.clean = FALSE]
     IN /\ pass' = [next EXCEPT !.ledger = scan.ledger,
                                !.provisional = @ \cup scan.provisional]
        /\ blind' = blind \cup scan.skipped \cup MisledBy(saved.checks[p], file[p].lines)
  /\ UNCHANGED <<storeVars, saved, result, standing, deaths>>

(* The checkpoint is of the listed file, its mark of the file as it is.    *)
MarkFile(p) ==
  /\ pass.pc = "mark" /\ pass.at = p /\ file[p] # Gone
  /\ LET mark == Mark(file[p].lines, pass.offset) IN
     pass' = [pass EXCEPT !.pc = "read", !.todo = @ \ {p}, !.at = Gone, !.read = {}, !.offset = 0,
                !.checks[p] = Checkpoint(pass.seen[p], pass.offset, mark, pass.read)]
  /\ UNCHANGED <<storeVars, saved, result, blind, standing, deaths>>

(* The file cannot be opened any more.                                     *)
FileVanished(p) ==
  /\ pass.pc \in {"read", "mark"} /\ p \in pass.todo /\ file[p] = Gone
  /\ pass.pc = "mark" => pass.at = p
  /\ ~Unchanged(saved.checks[p], pass.seen[p])
  /\ pass' = [Keeping(p) EXCEPT !.pc = "read", !.clean = FALSE, !.at = Gone, !.read = {}, !.offset = 0]
  /\ UNCHANGED <<storeVars, saved, result, blind, standing, deaths>>

(* A partial pass keeps the checkpoints of the files it did not see.       *)
KeptChecks ==
  [p \in Path |->
    IF pass.checks[p] = NoCheck /\ ~pass.clean THEN saved.checks[p] ELSE pass.checks[p]]

FinishPass ==
  /\ pass.pc = "read" /\ pass.todo = {}
  /\ saved' = [checks |-> KeptChecks, ledger |-> pass.ledger]
  /\ result' = [complete |-> pass.clean, to |-> pass.to, present |-> {line[2] : line \in standing} \cap Record,
                records |-> pass.ledger \cup
                  {r \in pass.provisional : \A q \in pass.ledger : IdOf[q] # IdOf[r]}]
  /\ pass' = Resting /\ standing' = {}
  /\ UNCHANGED <<storeVars, blind, deaths>>

DiePass ==
  /\ pass.pc # "idle" /\ deaths < MaxDeaths
  /\ deaths' = deaths + 1
  /\ pass' = Resting /\ standing' = {}
  /\ UNCHANGED <<storeVars, saved, result, blind>>

ReaderNext ==
  \/ Agent
  \/ BeginPass \/ Walk \/ FinishPass \/ DiePass
  \/ \E p \in Path : SkipUnchanged(p) \/ ReadFile(p) \/ MarkFile(p) \/ FileVanished(p)

ReaderSpec == ReaderInit /\ [][ReaderNext]_readerVars

-----------------------------------------------------------------------------
(* Types: a checkpoint lies within the size it was taken at, and the saved *)
(* ledger has one record for each identity and respects its limit.         *)
ReaderTypeOK ==
  /\ pass.pc \in {"idle", "walk", "read", "mark"}
  /\ \A p \in Path : saved.checks[p] # NoCheck =>
       saved.checks[p].offset <= saved.checks[p].size
  /\ saved.ledger \subseteq Record /\ Cardinality(saved.ledger) <= LedgerLimit
  /\ \A q, r \in saved.ledger : IdOf[q] = IdOf[r] => q = r

(* A collection reported complete has counted every record of its range    *)
(* that stood in the files throughout the pass, whatever was appended,     *)
(* truncated, replaced or read in part before.  Records that were past the *)
(* range when a pass went over them, and lines before a mark that agrees   *)
(* although they were never read, can be missed (see the README).          *)
CompleteIsWhole ==
  result.complete =>
    \A r \in result.present \ blind :
      InRange(r, result.to) => \E q \in result.records : IdOf[q] = IdOf[r]

=============================================================================
