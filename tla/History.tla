------------------------------- MODULE History -------------------------------
(***************************************************************************)
(* How a source's usage of the current year gets to the server: the        *)
(* rolling range of every sync, the backfill that works backward through   *)
(* the year in chunks, and the gaps the server reports where syncs left    *)
(* days out (packages/connector/bin/viberacing.mjs,                        *)
(* apps/web/app/api/usage/route.ts).  One source; days and years are       *)
(* numbers.                                                                *)
(*                                                                         *)
(* state.json keeps the cursor of the pass under way, of mode "initial",   *)
(* "gap" or "full"; an answered snapshot brings the server's status and    *)
(* gap back, the cursors are reconciled with them, and the acknowledged    *)
(* chunk advances its cursor.  A process may die at any of these points:   *)
(* the pending file stays and is delivered again.                          *)
(***************************************************************************)
EXTENDS Integers, FiniteSets, FiniteSetsExt

CONSTANTS
  Nil,        \* no cursor, no year, no gap, no pending file
  YearLength,  \* days of a year
  RangeDays,      \* days of a range, 31 in the code
  FirstDay, LastDay,  \* bounds: days
  MaxFails,    \* bound: collections that fail
  MaxAborts,     \* bound: processes that die, answers that are lost
  MaxGenerations,  \* bound: changes of the local store
  MaxFull      \* bound: syncs with --full

ASSUME HistoryAssumption ==
  /\ YearLength \in Nat \ {0} /\ RangeDays \in 1 .. YearLength
  /\ FirstDay \in Nat /\ LastDay \in Nat /\ FirstDay <= LastDay
  /\ {MaxFails, MaxAborts, MaxGenerations, MaxFull} \subseteq Nat
  /\ Nil \notin Int \cup {"complete", "partial"} \cup [from : Int, to : Int]

VARIABLES
  date,
  remote,      \* status, last rolling day, unresolved dates of the source
  covered,     \* days the server has had a complete observation of
  conf,        \* config: the status and gap the server last reported
  local,       \* state.json: cursor, full retry, partial gap attempt, generation
  payload,     \* the snapshot to deliver, with the advance it makes
  sync,        \* the holder of the sync lock
  spoiled,     \* days the provider's store cannot give completely
  begun,       \* the days on which the cursors of a year were first reconciled
  overlooked,  \* days before the first rolling range of a year that no pass covers
  fails, lost, generations, fulls

bounds == <<fails, lost, generations, fulls>>
notes == <<begun, overlooked>>
historyVars == <<date, remote, covered, conf, local, payload, sync, spoiled, notes, bounds>>

Year(day) == day \div YearLength
YearStart(year) == year * YearLength
Days == YearStart(Year(FirstDay)) .. LastDay
Highest(a, b) == IF a < b THEN b ELSE a

YearStatus(year, is) == [year |-> year, is |-> is]
Cursor(mode, year, start, next) ==
  [mode |-> mode, year |-> year, start |-> start, next |-> next, partial |-> FALSE]

NoSync == [pc |-> "idle", to |-> 0, full |-> FALSE, most |-> 0, chunk |-> Nil,
           fresh |-> FALSE, tried |-> {}, chunks |-> 0]

HistoryInit ==
  /\ date = FirstDay
  /\ remote = [status |-> YearStatus(Year(FirstDay), "pending"), rolled |-> Nil, open |-> {}]
  /\ covered = {}
  /\ conf = [status |-> YearStatus(Year(FirstDay), "pending"), gap |-> Nil]
  /\ local = [cursor |-> Nil, retry |-> Nil, attempt |-> Nil, generation |-> 0]
  /\ payload = Nil /\ sync = NoSync /\ spoiled \in SUBSET Days
  /\ begun = {} /\ overlooked = {}
  /\ fails = 0 /\ lost = 0 /\ generations = 0 /\ fulls = 0

-----------------------------------------------------------------------------
(***************************************************************************)
(* The cursors.                                                            *)
(***************************************************************************)
(* The last day before the rolling range, or before the year.              *)
FirstEnd(day) == Highest(YearStart(Year(day)), day - RangeDays + 1) - 1

WholeYear(cursor, mode, day) ==
  /\ cursor # Nil
  /\ cursor.year = Year(day) /\ cursor.mode = mode /\ cursor.start = YearStart(Year(day))
  /\ cursor.next \in YearStart(Year(day)) .. FirstEnd(day)

Restarted(mode, day) == Cursor(mode, Year(day), YearStart(Year(day)), FirstEnd(day))

GapIn(c, day) == c.gap # Nil /\ Year(c.gap.first) = Year(day)

(* Mutant: an attempt counts only against an older store.                  *)
ExhaustedNever(attempt, gap, generation) ==
  /\ attempt # Nil
  /\ attempt.first = gap.first /\ attempt.last = gap.last
  /\ attempt.generation > generation

(* The gap was tried on this local store, and could not be resolved.       *)
Exhausted(attempt, gap, generation) ==
  /\ attempt # Nil
  /\ attempt.first = gap.first /\ attempt.last = gap.last
  /\ attempt.generation = generation

(* Mutant: a pass of another year's gap goes on.                           *)
GapCursorKept(cursor, gap, day) ==
  IF cursor # Nil /\ cursor.mode = "gap" THEN cursor
  ELSE Cursor("gap", Year(day), gap.last, gap.first)

GapCursor(cursor, gap, day) ==
  IF /\ cursor # Nil
     /\ cursor.year = Year(day) /\ cursor.mode = "gap" /\ cursor.start = gap.first
     /\ cursor.next \in gap.first .. gap.last
  THEN cursor
  ELSE Cursor("gap", Year(day), gap.first, gap.last)

Terminal(c, day) == c.status.year = Year(day) /\ c.status.is \in {"complete", "partial"}

Reconciled(s, c, day) ==
  LET year == Year(day)
      retry == IF s.retry = year THEN year ELSE Nil
      attempt == IF s.attempt # Nil /\ s.attempt.year = year THEN s.attempt ELSE Nil
      old == [s EXCEPT !.retry = retry, !.attempt = attempt]
      initial == WholeYear(s.cursor, "initial", day)
  IN IF retry = year
     THEN [old EXCEPT !.cursor = IF WholeYear(@, "full", day) THEN @ ELSE Restarted("full", day)]
     ELSE IF /\ FirstEnd(day) >= YearStart(year)
             /\ initial \/ c.status = YearStatus(year, "pending")
     THEN [old EXCEPT !.cursor = IF initial THEN @ ELSE Restarted("initial", day)]
     ELSE IF GapIn(c, day)
     THEN IF Exhausted(attempt, c.gap, s.generation)
          THEN [old EXCEPT !.cursor = IF @ # Nil /\ @.mode = "gap" THEN Nil ELSE @]
          ELSE [old EXCEPT !.cursor = GapCursor(@, c.gap, day)]
     ELSE [old EXCEPT !.attempt = Nil,
             !.cursor = IF Terminal(c, day) \/ FirstEnd(day) < YearStart(year) THEN Nil
                        ELSE IF @ # Nil /\ @.year = year THEN @
                        ELSE Restarted("initial", day)]

(* sync --full starts the year again unless such a pass is under way.      *)
Prepared(s, day) ==
  IF FirstEnd(day) < YearStart(Year(day)) THEN s
  ELSE IF s.retry = Year(day) /\ WholeYear(s.cursor, "full", day) THEN s
  ELSE [s EXCEPT !.retry = Year(day), !.cursor = Restarted("full", day)]

-----------------------------------------------------------------------------
(***************************************************************************)
(* Snapshots and what their acknowledgement does to the cursor.            *)
(***************************************************************************)
Snapshot(kind, from, to, complete, year, advance) ==
  [kind |-> kind, from |-> from, to |-> to, complete |-> complete,
   yearIs |-> year, advance |-> advance]

Advance(mode, year, start, next, partial, is) ==
  [mode |-> mode, year |-> year, start |-> start, next |-> next, partial |-> partial,
   is |-> is]

Word(complete) == IF complete THEN "complete" ELSE "partial"

(* A rolling range that reaches back to January 1 covers the year.         *)
RollingSnapshot(to, complete) ==
  LET from == to - RangeDays + 1
      start == YearStart(Year(to))
  IN IF from > start THEN Snapshot("rolling", from, to, complete, Nil, Nil)
     ELSE Snapshot("rolling", from, to, complete, Word(complete),
                   Advance("initial", Year(to), start, Nil, ~complete, Word(complete)))

(* The chunk that reaches the start of its cursor ends the pass.           *)
ChunkSnapshot(cursor, from, to, complete) ==
  LET partial == cursor.partial \/ ~complete
      is == IF from = cursor.start THEN Word(~partial) ELSE Nil
  IN Snapshot("chunk", from, to, complete,
              IF cursor.start = YearStart(cursor.year) THEN is ELSE Nil,
              Advance(cursor.mode, cursor.year, cursor.start,
                      IF is = Nil THEN from - 1 ELSE Nil, partial, is))

Attempt(a, gap, generation) ==
  [year |-> a.year, first |-> gap.first, last |-> gap.last, generation |-> generation]

AdvancedConf(c, a) ==
  IF a = Nil \/ a.is = Nil \/ a.mode = "gap" THEN c
  ELSE [c EXCEPT !.status = YearStatus(a.year, a.is)]

Advanced(s, c, a, day) ==
  IF a = Nil THEN s
  ELSE IF a.is = Nil
  THEN [s EXCEPT !.cursor = [Cursor(a.mode, a.year, a.start, a.next) EXCEPT !.partial = a.partial]]
  ELSE Reconciled(
         [s EXCEPT !.cursor = Nil,
                   !.retry = IF a.mode = "full" THEN Nil ELSE @,
                   !.attempt = IF a.mode # "initial" /\ a.is = "partial" /\ c.gap # Nil
                               THEN Attempt(a, c.gap, s.generation) ELSE @],
         AdvancedConf(c, a), day)

-----------------------------------------------------------------------------
(***************************************************************************)
(* The server.                                                             *)
(***************************************************************************)
(* Mutant: days between two rolling ranges are not noticed.                *)
UnresolvedWithin(snap, previous, open) ==
  LET kept == {d \in open : Year(d) = Year(snap.to)}
      days == snap.from .. snap.to
  IN IF snap.complete THEN kept \ days ELSE kept \cup days

(* Days between the previous rolling range and this one, and partial days. *)
Unresolved(snap, previous, open) ==
  LET kept == {d \in open : Year(d) = Year(snap.to)}
      skipped == IF snap.kind = "rolling" /\ previous # Nil
                 THEN IF Year(previous) = Year(snap.to) THEN (previous + 1) .. (snap.from - 1)
                      ELSE {}
                 ELSE {}
      days == snap.from .. snap.to
  IN IF snap.complete THEN (kept \cup skipped) \ days ELSE kept \cup skipped \cup days

StatusAfter(snap, status) ==
  IF snap.yearIs # Nil THEN YearStatus(Year(snap.to), snap.yearIs)
  ELSE IF status.year = Year(snap.to) THEN status
  ELSE YearStatus(Year(snap.to), "pending")

TakenIn(snap, s) ==
  [status |-> StatusAfter(snap, s.status),
   rolled |-> IF snap.kind = "rolling" THEN snap.to ELSE s.rolled,
   open |-> Unresolved(snap, s.rolled, s.open)]

Reported(s) ==
  [status |-> s.status,
   gap |-> IF s.open = {} THEN Nil ELSE [first |-> Min(s.open), last |-> Max(s.open)]]

-----------------------------------------------------------------------------
(***************************************************************************)
(* A sync: the rolling range, then chunks while there is a cursor; an      *)
(* automatic one collects at most one chunk.                               *)
(***************************************************************************)
Goes(next) == sync' = next

Begun == IF \E d \in begun : Year(d) = Year(date) THEN begun ELSE begun \cup {date}
Overlooked ==
  IF payload.kind = "rolling" /\ (remote.rolled = Nil \/ Year(remote.rolled) # Year(payload.to))
  THEN UNION {(FirstEnd(d) + 1) .. (payload.from - 1) : d \in {b \in begun : Year(b) = Year(payload.to)}}
  ELSE {}

BeginSync ==
  /\ sync.pc = "idle"
  /\ \E automatic, full \in BOOLEAN :
       /\ full => ~automatic /\ fulls < MaxFull
       /\ fulls' = IF full THEN fulls + 1 ELSE fulls
       /\ Goes([NoSync EXCEPT !.pc = "range", !.to = date, !.full = full,
                              !.most = IF automatic THEN 1 ELSE YearLength])
  /\ UNCHANGED <<date, remote, covered, conf, local, payload, spoiled, notes, fails, lost, generations>>

(* Every range delivers what waits before it collects.                     *)
FirstDeliver ==
  /\ sync.pc = "range" /\ payload # Nil
  /\ Goes([sync EXCEPT !.pc = "post"])
  /\ UNCHANGED <<date, remote, covered, conf, local, payload, spoiled, notes, bounds>>

(* The server's report may be asked for; the cursors are reconciled.       *)
ReconcileState ==
  /\ sync.pc = "range" /\ payload = Nil
  /\ conf' \in {conf, Reported(remote)}
  /\ LET s == Reconciled(local, conf', date) IN
     local' = IF sync.full /\ sync.chunk = Nil THEN Prepared(s, date) ELSE s
  /\ Goes([sync EXCEPT !.pc = "collect"])
  /\ begun' = Begun /\ overlooked' = overlooked
  /\ UNCHANGED <<date, remote, covered, payload, spoiled, bounds>>

(* What is read of a range is complete if the store can give its days,     *)
(* but for a transient error.                                              *)
Reads(from, to, complete) ==
  \/ complete = ((from .. to) \cap spoiled' = {}) /\ fails' = fails
  \/ ~complete /\ fails < MaxFails /\ fails' = fails + 1

(* A store that has changed since is a new generation of it.               *)
StoreChanges ==
  \/ UNCHANGED <<spoiled, generations>>
  \/ generations < MaxGenerations /\ generations' = generations + 1 /\ spoiled' \in SUBSET Days

CollectRolling ==
  /\ sync.pc = "collect" /\ sync.chunk = Nil
  /\ StoreChanges
  /\ \E complete \in BOOLEAN :
       /\ Reads(sync.to - RangeDays + 1, sync.to, complete)
       /\ payload' = RollingSnapshot(sync.to, complete)
  /\ local' = [local EXCEPT !.generation = generations']
  /\ Goes([sync EXCEPT !.pc = "post", !.fresh = TRUE])
  /\ UNCHANGED <<date, remote, covered, conf, notes, lost, fulls>>

(* The collected range must still be the cursor's.                         *)
Current(chunk) ==
  /\ local.cursor # Nil
  /\ local.cursor.year = Year(chunk.to) /\ local.cursor.next = chunk.to

(* An automatic sync that finds what it found before sends nothing.        *)
RollingUnchanged ==
  /\ sync.pc = "collect" /\ sync.chunk = Nil
  /\ sync.most = 1 /\ remote.rolled # Nil /\ remote.rolled = sync.to
  /\ Goes([sync EXCEPT !.pc = "next"])
  /\ UNCHANGED <<date, remote, covered, conf, local, payload, spoiled, notes, bounds>>

CollectChunk ==
  /\ sync.pc = "collect" /\ sync.chunk # Nil /\ Current(sync.chunk)
  /\ spoiled' = spoiled
  /\ \E complete \in BOOLEAN :
       /\ Reads(sync.chunk.from, sync.chunk.to, complete)
       /\ payload' = ChunkSnapshot(local.cursor, sync.chunk.from, sync.chunk.to, complete)
  /\ Goes([sync EXCEPT !.pc = "post", !.fresh = TRUE])
  /\ UNCHANGED <<date, remote, covered, conf, local, notes, lost, generations, fulls>>

(* The sync throws.                                                        *)
CursorChanged ==
  /\ sync.pc = "collect" /\ sync.chunk # Nil /\ ~Current(sync.chunk)
  /\ Goes(NoSync)
  /\ UNCHANGED <<date, remote, covered, conf, local, payload, spoiled, notes, bounds>>

(* A rolling collection that fails leaves the other sources' and so the    *)
(* chunks; a chunk that fails ends the source's part of this sync.         *)
CollectFails ==
  /\ sync.pc = "collect" /\ fails < MaxFails
  /\ fails' = fails + 1
  /\ Goes(IF sync.chunk = Nil THEN [sync EXCEPT !.pc = "next"] ELSE NoSync)
  /\ UNCHANGED <<date, remote, covered, conf, local, payload, spoiled, notes, lost, generations, fulls>>

Post ==
  /\ sync.pc = "post"
  /\ remote' = TakenIn(payload, remote)
  /\ covered' = IF payload.complete THEN covered \cup (payload.from .. payload.to) ELSE covered
  /\ \/ lost' = lost /\ Goes([sync EXCEPT !.pc = "remember"])
     \/ lost < MaxAborts /\ lost' = lost + 1 /\ Goes(NoSync)
  /\ overlooked' = overlooked \cup Overlooked /\ begun' = begun
  /\ UNCHANGED <<date, conf, local, payload, spoiled, fails, generations, fulls>>

(* The answer's status and gap are saved and the cursors reconciled.       *)
RememberReport ==
  /\ sync.pc = "remember"
  /\ conf' = Reported(remote)
  /\ local' = Reconciled(local, conf', date)
  /\ Goes([sync EXCEPT !.pc = "apply"])
  /\ begun' = Begun /\ overlooked' = overlooked
  /\ UNCHANGED <<date, remote, covered, payload, spoiled, bounds>>

(* Then the acknowledged snapshot advances its cursor and is removed.      *)
(* After an older payload the range itself is still to come.               *)
ApplyAdvance ==
  /\ sync.pc = "apply"
  /\ local' = Advanced(local, conf, payload.advance, date)
  /\ conf' = AdvancedConf(conf, payload.advance)
  /\ payload' = Nil
  /\ Goes([sync EXCEPT !.pc = IF sync.fresh THEN "next" ELSE "range", !.fresh = FALSE])
  /\ begun' = Begun /\ overlooked' = overlooked
  /\ UNCHANGED <<date, remote, covered, spoiled, bounds>>

CursorKey(cursor) == [cursor |-> [cursor EXCEPT !.partial = FALSE], gap |-> conf.gap]

Eligible(cursor) ==
  /\ cursor # Nil /\ cursor.year = Year(date)
  /\ sync.full \/ cursor.mode # "full"
  /\ CursorKey(cursor) \notin sync.tried
  /\ IF sync.chunk = Nil THEN TRUE ELSE cursor.next # sync.chunk.to
  /\ sync.chunks < sync.most

ChunkOf(cursor) == [from |-> Highest(cursor.start, cursor.next - RangeDays + 1), to |-> cursor.next]

NextChunk ==
  /\ sync.pc = "next" /\ Eligible(local.cursor)
  /\ Goes([sync EXCEPT !.pc = "range", !.chunk = ChunkOf(local.cursor),
                       !.tried = @ \cup {CursorKey(local.cursor)}, !.chunks = @ + 1])
  /\ UNCHANGED <<date, remote, covered, conf, local, payload, spoiled, notes, bounds>>

EndSync ==
  /\ sync.pc = "next" /\ ~Eligible(local.cursor)
  /\ Goes(NoSync)
  /\ UNCHANGED <<date, remote, covered, conf, local, payload, spoiled, notes, bounds>>

SyncDies ==
  /\ sync.pc # "idle" /\ lost < MaxAborts
  /\ lost' = lost + 1 /\ Goes(NoSync)
  /\ UNCHANGED <<date, remote, covered, conf, local, payload, spoiled, notes, fails, generations, fulls>>

DayPasses ==
  /\ date < LastDay /\ date' = date + 1
  /\ UNCHANGED <<remote, covered, conf, local, payload, sync, spoiled, notes, bounds>>

SyncStep ==
  \/ BeginSync \/ FirstDeliver \/ ReconcileState
  \/ CollectRolling \/ RollingUnchanged \/ CollectChunk \/ CursorChanged \/ CollectFails
  \/ Post \/ RememberReport \/ ApplyAdvance \/ NextChunk \/ EndSync

HistoryNext == SyncStep \/ SyncDies \/ DayPasses

HistoryFairness == WF_historyVars(SyncStep)
HistorySpec == HistoryInit /\ [][HistoryNext]_historyVars /\ HistoryFairness

-----------------------------------------------------------------------------
(* Types: a cursor lies in its year and no later than today.  (An open     *)
(* date may lie in the previous year: a partial rolling range in January   *)
(* reaches back.)                                                          *)
HistoryTypeOK ==
  /\ sync.pc \in {"idle", "range", "collect", "post", "remember", "apply", "next"}
  /\ local.cursor # Nil =>
       /\ local.cursor.mode \in {"initial", "gap", "full"}
       /\ Year(local.cursor.start) = local.cursor.year
       /\ local.cursor.start <= local.cursor.next
       /\ local.cursor.next <= date
  /\ \A d \in covered \cup remote.open : d \in Nat /\ d <= date

(* When the server calls the history of a year complete, every day of it   *)
(* up to the last rolling range has had a complete observation, or is      *)
(* among the unresolved dates the connector goes back for; except the days *)
(* that a pass begun before the first accepted rolling range of the year   *)
(* leaves out (see the README).                                            *)
CompleteYearIsWhole ==
  /\ remote.status.is = "complete" /\ remote.rolled # Nil
  /\ Year(remote.rolled) = remote.status.year
  => \A d \in (YearStart(remote.status.year) .. remote.rolled) \ overlooked :
       d \in covered \cup remote.open

(* Backfills and gap passes come to an end once the day and the local      *)
(* store stay the same: a gap that cannot be resolved is not tried again   *)
(* for ever.                                                               *)
HistorySettles == <>[](local.cursor = Nil \/ local.cursor.mode = "full")

=============================================================================
