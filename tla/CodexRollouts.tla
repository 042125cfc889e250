--------------------------- MODULE CodexRollouts ---------------------------
(***************************************************************************)
(* The daily token components the connector takes from Codex's session     *)
(* files (packages/connector/lib/adapters/codex.mjs), while Codex goes on  *)
(* writing, forking, archiving and compressing them.                       *)
(*                                                                         *)
(* Codex is external: it appends lines to the rollout of a thread, starts  *)
(* threads and forks, continues a thread in a new rollout, moves a file to *)
(* the archive, and keeps a compressed copy that it may restore.  A        *)
(* collection lists the sessions, then the archive, reads what is new in   *)
(* each file, and rebuilds the events from all it knows.                   *)
(***************************************************************************)
EXTENDS CodexLineage

CONSTANTS
  MaxRollouts, MaxTurns, MaxCollections, MaxCodexDay,  \* bounds
  MaxOdd,     \* settings of old threads, totals begun anew or told again, broken
              \* lines, reverts, files moved and removed
  MaxSkips,   \* files and directories that cannot be read, when nothing is odd
  MaxEffort,  \* rollouts, collections and odd things together
  MaxDuring   \* changes while a collection is under way

VARIABLES
  rollouts,   \* all there ever were: thread, origin, lines
  disk,       \* the session files: <<rollout, kind>> -> [size, ino, day]
  codexDay,
  fileStates, \* state.json: <<rollout, kind>> -> the file as read, what it said
  walk,       \* the collection under way
  report,     \* what it found
  late,       \* turns that were read after the end of the range
  odd, collections, skips \* counters of the bounds

worldVars == <<rollouts, disk, codexDay, odd>>
rolloutVars == <<worldVars, fileStates, walk, report, late, collections, skips>>

NoWalk == [open |-> FALSE, to |-> 0, seen |-> <<>>, hidden |-> FALSE, during |-> 0]
NoReport == [done |-> FALSE, to |-> 0, events |-> {}, blocked |-> {}, due |-> {}]

Rollouts == DOMAIN rollouts
OnDisk(r, kind) == <<r, kind>> \in DOMAIN disk

(* The day and the running total are those of the lines; a turn is the     *)
(* line that first reports it.                                             *)
NoTurn == <<0, 0>>
TurnsOf(r) == {n \in DOMAIN rollouts[r].lines : rollouts[r].lines[n].turn = <<r, n>>}
Turns == UNION {{r} \X TurnsOf(r) : r \in Rollouts}
DayOf(t) == rollouts[t[1]].lines[t[2]].day

LastTotal(lines) ==
  LET usage == SelectSeq(lines, LAMBDA l : l.kind = "usage") IN
  IF usage = <<>> THEN 0 ELSE Last(usage).total

(* The whole history of a thread as its latest rollout has it.             *)
HistoryOf(r) ==
  SelectSeq(IF rollouts[r].origin = "base"
            THEN SubSeq(rollouts[rollouts[r].from].lines, 1, rollouts[r].cut) \o rollouts[r].lines
            ELSE rollouts[r].lines, LAMBDA l : l.kind # "meta")

RolloutInit ==
  /\ rollouts = <<>> /\ disk = <<>> /\ fileStates = <<>>
  /\ codexDay = 0
  /\ walk = NoWalk /\ report = NoReport /\ late = {}
  /\ odd = 0 /\ collections = 0 /\ skips = 0

-----------------------------------------------------------------------------
(* Codex.  Instants are told apart by the rollouts there were.             *)

Effort == Len(rollouts) + collections + odd < MaxEffort
Odd == odd < MaxOdd /\ Effort /\ odd' = odd + 1
FileOf(size, ino) == [size |-> size, ino |-> ino, day |-> codexDay]

(* Codex appends to the latest rollout of a thread.                        *)
Open(r) ==
  /\ OnDisk(r, "live") /\ disk[<<r, "live">>].size = Len(rollouts[r].lines)
  /\ \A q \in Rollouts : q > r => rollouts[q].thread # rollouts[r].thread

Write(r, kind, turn, total) ==
  /\ Open(r)
  /\ rollouts' = [rollouts EXCEPT ![r].lines =
                    Append(@, Line(kind, turn, total, Len(rollouts), codexDay))]
  /\ disk' = [disk EXCEPT ![<<r, "live">>] = FileOf(@.size + 1, @.ino)]
  /\ UNCHANGED codexDay

(* A new file appears empty; its first lines follow: the session's and     *)
(* those copied from the parent, written anew.                             *)
Start(thread, mode, origin, from, cut, copied) ==
  LET r == Len(rollouts) + 1
      meta == Line("meta", NoTurn, 0, r, codexDay)
      copies == [n \in DOMAIN copied |-> [copied[n] EXCEPT !.at = r, !.day = codexDay]]
  IN /\ r <= MaxRollouts /\ Effort
     /\ rollouts' = Append(rollouts,
          [thread |-> IF thread = 0 THEN r ELSE thread, mode |-> mode, origin |-> origin,
           from |-> from, cut |-> cut, started |-> r - 1, born |-> codexDay,
           copied |-> Len(copied) + 1, lines |-> <<meta>> \o copies])
     /\ disk' = (<<r, "live">> :> FileOf(0, 0)) @@ disk
     /\ UNCHANGED codexDay

Fill(r) ==
  /\ OnDisk(r, "live") /\ disk[<<r, "live">>].size = 0
  /\ disk' = [disk EXCEPT ![<<r, "live">>] = FileOf(Len(rollouts[r].lines), @.ino)]
  /\ UNCHANGED <<rollouts, codexDay, odd>>

NewThread ==
  /\ \E mode \in {"legacy", "paginated"} : Start(0, mode, "none", 0, 0, <<>>)
  /\ UNCHANGED odd

(* A legacy fork copies the first or the last lines of its parent, cut     *)
(* before a turn and never between a turn and the settings that follow it. *)
ForkLegacy(p) ==
  LET history == HistoryOf(p) n == Len(history) IN
  /\ Open(p) /\ rollouts[p].mode = "legacy"
  /\ \E origin \in LegacyFork, k \in 0 .. n :
       /\ k \notin {0, n} =>
            history[IF origin = "prefix" THEN k + 1 ELSE n - k + 1].kind # "settings"
       /\ Start(0, "legacy", origin, rollouts[p].thread, 0,
                IF origin = "prefix" THEN SubSeq(history, 1, k) ELSE SubSeq(history, n - k + 1, n))
  /\ UNCHANGED odd

(* A paginated fork copies all of it and notes where its own lines start.  *)
ForkPage(p) ==
  /\ Open(p) /\ rollouts[p].mode = "paginated"
  /\ Start(0, "paginated", "page", rollouts[p].thread, Len(HistoryOf(p)) + 1, HistoryOf(p))
  /\ UNCHANGED odd

(* A thread goes back to an earlier point and on from there, in a new file.*)
Revert(p) ==
  /\ Open(p) /\ rollouts[p].mode = "paginated" /\ rollouts[p].origin # "base" /\ UNCHANGED odd
  /\ \E e \in DOMAIN rollouts[p].lines : Start(rollouts[p].thread, "paginated", "base", p, e, <<>>)

(* Every legacy fork writes its thread's settings before its first turn;   *)
(* other threads may write theirs at any time.                             *)
Begun(r) == Len(rollouts[r].lines) > rollouts[r].copied

ThreadSettings(r) ==
  /\ rollouts[r].mode = "legacy"
  /\ IF rollouts[r].origin \in LegacyFork /\ ~Begun(r) THEN UNCHANGED odd ELSE Odd
  /\ Write(r, "settings", NoTurn, 0)

(* A turn; the running total may start over. *)
Turn(r) ==
  LET before == LastTotal(HistoryOf(r)) IN
  /\ Cardinality(Turns) < MaxTurns
  /\ rollouts[r].origin \in LegacyFork => Begun(r)
  /\ \E total \in {1, before + 1} :
       /\ IF total = before + 1 THEN UNCHANGED odd ELSE before > 1 /\ Odd
       /\ Write(r, "usage", <<r, Len(rollouts[r].lines) + 1>>, total)

(* The usage of the last turn is told again; a line is broken.             *)
Repeat(r) ==
  /\ Begun(r) /\ Last(rollouts[r].lines).kind = "usage" /\ Odd
  /\ Write(r, "usage", Last(rollouts[r].lines).turn, Last(rollouts[r].lines).total)
Spoil(r) == Write(r, "bad", NoTurn, 0) /\ Odd

(* Files move without their lines changing: to the archive; compressed     *)
(* beside the file, which then goes; restored from that as a new file.     *)
(* The user deletes a session.                                             *)
Without(r, kinds) == [p \in DOMAIN disk \ ({r} \X kinds) |-> disk[p]]

Moved(r) ==
  LET live == disk[<<r, "live">>] packed == disk[<<r, "packed">>] IN
  /\ UNCHANGED <<rollouts, codexDay>>
  /\ \/ OnDisk(r, "live") /\ disk' = (<<r, "archived">> :> live) @@ Without(r, {"live"}) /\ Odd
     \/ /\ Open(r) /\ ~OnDisk(r, "packed") /\ Odd
        /\ disk' = (<<r, "packed">> :> FileOf(live.size, live.ino)) @@ disk
     \/ /\ OnDisk(r, "packed") /\ ~OnDisk(r, "live") /\ UNCHANGED odd
        /\ disk' = (<<r, "live">> :> FileOf(packed.size, packed.ino + 1)) @@ disk
     \/ OnDisk(r, "live") /\ disk' = Without(r, Kinds) /\ Odd

DropOther(r) ==
  /\ OnDisk(r, "live") /\ OnDisk(r, "packed")
  /\ disk[<<r, "live">>].size = disk[<<r, "packed">>].size
  /\ \E kind \in {"live", "packed"} : disk' = Without(r, {kind})
  /\ UNCHANGED <<rollouts, codexDay, odd>>

NextCodexDay ==
  /\ codexDay < MaxCodexDay /\ Turns # {} /\ codexDay' = codexDay + 1
  /\ UNCHANGED <<rollouts, disk, odd>>

(* Nothing else happens while a file is empty, except a collection; and    *)
(* nothing after the last one.                                             *)
CodexWrites ==
  /\ IF walk.open THEN walk.during < MaxDuring ELSE collections < MaxCollections /\ Effort
  /\ walk' = IF walk.open THEN [walk EXCEPT !.during = @ + 1] ELSE walk
  /\ IF \E p \in DOMAIN disk : disk[p].size = 0
     THEN \E r \in Rollouts : Fill(r)
     ELSE \/ NewThread \/ NextCodexDay
          \/ \E r \in Rollouts :
               \/ ThreadSettings(r) \/ Turn(r) \/ Repeat(r) \/ Spoil(r)
               \/ ForkLegacy(r) \/ ForkPage(r) \/ Revert(r) \/ Moved(r) \/ DropOther(r)
  /\ report' = NoReport
  /\ UNCHANGED <<fileStates, late, collections, skips>>

-----------------------------------------------------------------------------
(* The collection (collectCodexSessionUsage).                              *)

Listed(kinds) == [p \in {q \in DOMAIN disk : q[2] \in kinds} |-> disk[p]]
Skips(n) == (n = 0 \/ skips + odd + n <= MaxSkips) /\ skips' = skips + n

(* It fixes its range and lists the sessions, or cannot.                   *)
CollectionBegins ==
  /\ ~walk.open /\ collections < MaxCollections /\ Effort /\ collections' = collections + 1
  /\ \E hidden \in BOOLEAN :
       /\ Skips(IF hidden THEN 1 ELSE 0)
       /\ walk' = [open |-> TRUE, to |-> codexDay, hidden |-> hidden, during |-> 0,
                   seen |-> IF hidden THEN <<>> ELSE Listed({"live", "packed"})]
  /\ report' = NoReport /\ UNCHANGED <<worldVars, fileStates, late>>

(* fileRanges: the days a file may have usage of, those of its events, and *)
(* from the one its name tells to that of its last change.                 *)
Between(a, b) == IF a < b THEN a .. b ELSE b .. a
Span(days) == IF days = {} THEN {} ELSE Min(days) .. Max(days)
FileRanges(p, said, file) == Span(said.dates) \cup Between(rollouts[p[1]].born, file.day)

(* incompleteIntervals: what a file that was read does not tell. *)
Incomplete(p, said, file) == said.bad \cup IF said.whole THEN {} ELSE FileRanges(p, said, file)

Said(p) == IF p \in DOMAIN fileStates THEN fileStates[p].said ELSE Unread

(* A file that has grown is read on from where it was left; a compressed   *)
(* or another one, or one whose session is not known, from the start.           *)
Appended(p, file) ==
  /\ p \in DOMAIN fileStates /\ p[2] # "packed"
  /\ fileStates[p].said.whole
  /\ fileStates[p].file.size <= file.size /\ fileStates[p].file.ino = file.ino

FirstOrdinal(r) == IF r.origin = "base" THEN r.cut ELSE 0

(* Mutation: the running total is forgotten between two readings. *)
ReadForgetful(p, file, to) ==
  LET from == IF Appended(p, file) THEN fileStates[p].file.size ELSE 0
      r == rollouts[p[1]]
  IN ParsedLines(IF from > 0 THEN [fileStates[p].said EXCEPT !.total = 0] ELSE Unread,
                 SubSeq(r.lines, 1, file.size), from, FirstOrdinal(r), r.mode = "legacy", to)

ReadFile(p, file, to) ==
  LET from == IF Appended(p, file) THEN fileStates[p].file.size ELSE 0
      r == rollouts[p[1]]
  IN ParsedLines(IF from > 0 THEN fileStates[p].said ELSE Unread,
                 SubSeq(r.lines, 1, file.size), from, FirstOrdinal(r), r.mode = "legacy", to)

(* The archive is listed, or cannot be; a file that has changed is read,   *)
(* unless that fails.  What is known of files that were not seen is kept   *)
(* if a directory could not be.  The events are rebuilt.                   *)
CollectionEnds ==
  walk.open /\ walk' = NoWalk /\ UNCHANGED <<worldVars, collections>> /\
  \E hidden \in BOOLEAN, failed \in {{}} \cup {{p} : p \in DOMAIN disk} :
    LET listed == walk.seen @@ IF hidden THEN <<>> ELSE Listed({"archived"})
        same == {p \in DOMAIN listed \cap DOMAIN fileStates : fileStates[p].file = listed[p]}
        unread == {p \in DOMAIN listed \ same : p \notin DOMAIN disk \/ p \in failed}
        got == [p \in DOMAIN listed \ unread |->
                  IF p \in same THEN fileStates[p]
                  ELSE [file |-> listed[p], said |-> ReadFile(p, listed[p], walk.to)]]
        hiddenRoots == (IF walk.hidden THEN {{"live", "packed"}} ELSE {}) \cup
                       IF hidden THEN {{"archived"}} ELSE {}
        lost == DOMAIN fileStates \ DOMAIN listed
        kept == (DOMAIN fileStates \cap unread) \cup IF hiddenRoots = {} THEN {} ELSE lost
        unseen(kinds) == {p \in DOMAIN fileStates : p[2] \in kinds}
        answer == Resolved(rollouts, fileStates')
    IN
    /\ Skips(Cardinality(failed) + IF hidden THEN 1 ELSE 0)
    /\ failed \subseteq DOMAIN listed \ same  \* it was opened
    /\ fileStates' = got @@ [p \in kept |-> fileStates[p]]
    /\ late' = late \cup {e.turn : e \in {x \in UNION {Range(fileStates'[p].said.raw) :
                                                p \in DOMAIN fileStates'} : x.day = Beyond}}
    /\ report' =
         [done |-> TRUE, to |-> walk.to,
          blocked |-> UNION ({Incomplete(p, got[p].said, got[p].file) : p \in DOMAIN got}
            \cup {FileRanges(p, Said(p), listed[p]) : p \in unread}
            \cup {FileRanges(p, Said(p), fileStates[p].file) : p \in kept \ unread}
            \cup {IF unseen(kinds) = {} THEN 0 .. walk.to ELSE {} : kinds \in hiddenRoots}
            \cup {Span(answer[r].file.said.dates) \cup {answer[r].file.file.day} :
                    r \in {q \in DOMAIN answer : ~answer[q].sure}}),
          events |-> {e \in UNION {Range(answer[r].events) : r \in DOMAIN answer} :
                        e.day \in 0 .. walk.to},
          due |-> {t \in Turns : \E p \in DOMAIN listed \cap DOMAIN disk :
                     p[1] = t[1] /\ t[2] <= listed[p].size}]

RolloutNext == CodexWrites \/ CollectionBegins \/ CollectionEnds

RolloutSpec == RolloutInit /\ [][RolloutNext]_rolloutVars

-----------------------------------------------------------------------------
RolloutTypeOK ==
  /\ DOMAIN disk \cup DOMAIN fileStates \subseteq Rollouts \X Kinds
  /\ \A p \in DOMAIN disk : disk[p].size \in 0 .. Len(rollouts[p[1]].lines)
  /\ codexDay \in 0 .. MaxCodexDay /\ odd \in 0 .. MaxOdd /\ skips \in 0 .. MaxSkips
  /\ late \subseteq Turns

(* What a fork copied is in its parent's file, but the connector may have  *)
(* read less of that file than of the fork: the parent was listed before   *)
(* it grew and the fork after that, or the parent could not be read.       *)
Overtaken(c) ==
  /\ rollouts[c].origin \in LegacyFork
  /\ \E p \in Groups(fileStates) :
       /\ rollouts[p].thread = rollouts[c].from /\ p < c
       /\ \E n \in DOMAIN rollouts[p].lines :
            /\ n > Representative(fileStates, p).file.size
            /\ rollouts[p].lines[n].at <= rollouts[c].started

(* On every day that a collection does not hold back, each turn counts     *)
(* once, on the day it happened, however often the files of forks,         *)
(* archives and compressed copies repeat it; and every turn that was there *)
(* for the whole collection counts, except one that was once read by a     *)
(* collection whose range had ended before it.  Only a fork that has       *)
(* overtaken its parent may count what it copied.                          *)
ComponentsExact ==
  report.done =>
    \A d \in (0 .. report.to) \ report.blocked :
      LET counted == {e \in report.events : e.day = d /\ ~Overtaken(e.id[1])} IN
      /\ \A e, f \in counted : e.turn = f.turn => e.id = f.id
      /\ \A e \in counted : DayOf(e.turn) = d
      /\ \A t \in report.due \ late :
           DayOf(t) = d /\ ~Overtaken(t[1]) => \E e \in counted : e.turn = t

=============================================================================
