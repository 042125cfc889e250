---------------------------- MODULE CodexLineage ----------------------------
(***************************************************************************)
(* What Codex's session files say                                          *)
(* (packages/connector/lib/adapters/codex.mjs): the parsing of the lines   *)
(* of a rollout, and the lineage of rollouts, which tells the turns of a   *)
(* fork from those it copied from its parent.                              *)
(*                                                                         *)
(* A rollout is one session file of a thread.  A line of it is its kind,   *)
(* the turn whose usage it reports, the thread's running total, and the    *)
(* instant and day it was written.  The signature of a usage line is its   *)
(* turn: two turns whose counters agree in all six fields do not occur.    *)
(***************************************************************************)
EXTENDS Integers, Sequences, FiniteSets, SequencesExt, FiniteSetsExt

Beyond == -1  \* the day of an event whose entry was not kept
Orphan == 0   \* no parent

Line(kind, turn, total, at, day) ==
  [kind |-> kind, turn |-> turn, total |-> total, at |-> at, day |-> day]

(* A rollout is the start of a thread ("none"), a legacy fork that copies  *)
(* a prefix or a suffix of its parent, a paginated fork ("page"), or goes  *)
(* on with its thread from an ordinal of an earlier rollout ("base").      *)
LegacyFork == {"prefix", "suffix"}

(* What is known of a file before any of it is read.                       *)
Unread ==
  [whole |-> FALSE, raw |-> <<>>, bounds |-> <<>>, dates |-> {}, bad |-> {}, total |-> 0]

(* One line.  ordinal numbers it, to is the end of the range: an event     *)
(* after it keeps its place but not its entry.                             *)
Parsed(state, line, ordinal, legacy, to) ==
  CASE line.kind = "meta" -> [state EXCEPT !.whole = TRUE]
    [] line.kind = "bad" -> [state EXCEPT !.bad = @ \cup {line.day}]
    [] line.kind = "settings" ->
         IF ~legacy THEN state
         ELSE [state EXCEPT !.bounds = Append(@, [count |-> Len(state.raw), at |-> line.at])]
    [] line.kind = "usage" /\ line.total = state.total -> state
    [] OTHER ->
         [state EXCEPT !.total = line.total, !.dates = @ \cup {line.day},
                       !.raw = Append(@, [turn |-> line.turn, at |-> line.at, ordinal |-> ordinal,
                                          day |-> IF line.day > to THEN Beyond ELSE line.day])]

(* Lines after the first `from`, numbered from `first` on.                 *)
ParsedLines(state, lines, from, first, legacy, to) ==
  FoldLeft(LAMBDA s, n : Parsed(s, lines[n], first + n - 1, legacy, to), state,
           [i \in 1 .. Len(lines) - from |-> from + i])

-----------------------------------------------------------------------------
(* Legacy forks have no marker where the copied lines end.  What tells is  *)
(* the thread settings every fork writes first: after n common events the  *)
(* child has more of them than the parent had there.                       *)

BoundariesAfter(bounds, n) == Len(SelectSeq(bounds, LAMBDA b : b.count = n))

(* Events of the child that the parent may have been copied from: its      *)
(* first n are the parent's from offset on, with the same settings between.*)
Aligned(child, cb, parent, pb, n, offset) ==
  /\ n <= Len(child) /\ offset + n <= Len(parent) /\ offset >= 0
  /\ \A i \in 1 .. n : child[i].turn = parent[offset + i].turn
  /\ \A i \in 1 .. n - 1 : BoundariesAfter(cb, i) = BoundariesAfter(pb, offset + i)
  /\ n > 0 => BoundariesAfter(cb, 0) <= BoundariesAfter(pb, offset)

Offset(origin, n, parent) == IF origin = "prefix" /\ n > 0 THEN 0 ELSE Len(parent) - n

(* It ends after n of them.                                                *)
EndsAt(cb, pb, n, offset) ==
  IF n = 0 THEN BoundariesAfter(cb, 0) > 0
  ELSE BoundariesAfter(cb, n) > BoundariesAfter(pb, offset + n)

(* The copying may still be under way.                                     *)
Pending(cb, pb, n, offset) ==
  /\ IF n = 0 THEN BoundariesAfter(cb, 0) <= BoundariesAfter(pb, offset)
     ELSE BoundariesAfter(cb, n) = BoundariesAfter(pb, offset + n)
  /\ \A b \in Range(cb) : b.count <= n

(* How many events are inherited, as the set of the one answer; empty if   *)
(* there is none or more than one.                                         *)
InheritedLegacy(origin, child, cb, parent, pb) ==
  LET At(n) == Offset(origin, n, parent)
      lengths == {n \in 0 .. Len(child) : Aligned(child, cb, parent, pb, n, At(n))}
      ends == {n \in lengths : EndsAt(cb, pb, n, At(n))}
  IN IF Cardinality(ends) = 1 /\ ~\E n \in lengths : Pending(cb, pb, n, At(n))
     THEN ends ELSE {}

(* A paginated fork says where its own history starts.                     *)
InheritedPage(child, parent, start) ==
  LET n == Len(SelectSeq(child, LAMBDA e : e.ordinal < start))
      offset == Len(parent) - n
  IN IF offset >= 0 /\ \A i \in 1 .. n : child[i].turn = parent[offset + i].turn
     THEN {n} ELSE {}

-----------------------------------------------------------------------------
(* A file as the lineage sees it is what is known of it.  Each holds a     *)
(* beginning of its rollout, and the longest stands for all of them.       *)

Kinds == {"live", "archived", "packed"}  \* where a file of a rollout may be

Representative(files, r) ==
  LET states == {files[p] : p \in {q \in DOMAIN files : q[1] = r /\ files[q].said.whole}} IN
  CHOOSE f \in states : \A g \in states :
    \/ Len(f.said.raw) > Len(g.said.raw)
    \/ Len(f.said.raw) = Len(g.said.raw) /\ f.file.size >= g.file.size

Groups(files) == {p[1] : p \in {q \in DOMAIN files : files[q].said.whole}}

(* The rollout of the parent's thread that was the latest when the fork    *)
(* started.                                                                *)
ParentForThread(rollouts, groups, r) ==
  LET eligible == {p \in groups : rollouts[p].thread = rollouts[r].from /\ p < r} IN
  IF eligible = {} THEN Orphan ELSE Max(eligible)

ParentOf(rollouts, groups, r) ==
  IF rollouts[r].origin # "base" THEN ParentForThread(rollouts, groups, r)
  ELSE IF rollouts[r].from \in groups THEN rollouts[r].from ELSE Orphan

(* Mutation: whatever the parent has by now. *)
InheritableEver(events, rollout) ==
  IF rollout.origin = "base" THEN SelectSeq(events, LAMBDA e : e.ordinal < rollout.cut)
  ELSE events

(* The parent's events that the fork can have copied.                      *)
Inheritable(events, rollout) ==
  IF rollout.origin = "base" THEN SelectSeq(events, LAMBDA e : e.ordinal < rollout.cut)
  ELSE SelectSeq(events, LAMBDA e : e.at <= rollout.started)

Inherited(rollout, said, parent, parentSaid) ==
  CASE rollout.origin = "base" ->
         IF \A e \in Range(said.raw) : e.ordinal > rollout.cut THEN {0} ELSE {}
    [] rollout.origin = "page" -> InheritedPage(said.raw, parent, rollout.cut)
    [] OTHER ->
         InheritedLegacy(rollout.origin, said.raw, said.bounds, parent,
           SelectSeq(parentSaid.bounds, LAMBDA b : b.at <= rollout.started))

(* The events of a rollout, those it inherited under the identity they     *)
(* have in the parent.  A rollout without answer is unresolved, and so is  *)
(* every one that descends from it.  Parents are older than their forks.   *)
Resolved(rollouts, files) ==
  LET groups == Groups(files)
      file == [r \in groups |-> Representative(files, r)]
      Own(r, n) == [i \in 1 .. Len(file[r].said.raw) - n |->
                      [id |-> <<r, n + i>>] @@ file[r].said.raw[n + i]]
      Sure(r, events) == [sure |-> TRUE, events |-> events, file |-> file[r]]
      Unsure(r) == [sure |-> FALSE, events |-> <<>>, file |-> file[r]]
      answer[r \in groups] ==
        LET p == ParentOf(rollouts, groups, r) IN
        IF rollouts[r].origin = "none" THEN Sure(r, Own(r, 0))
        ELSE IF p = Orphan THEN Unsure(r)
        ELSE IF ~answer[p].sure THEN Unsure(r)
        ELSE LET parent == Inheritable(answer[p].events, rollouts[r])
                 lengths == Inherited(rollouts[r], file[r].said, parent, file[p].said)
                 n == CHOOSE l \in lengths : TRUE
                 offset == Offset(rollouts[r].origin, n, parent)
             IN IF lengths = {} THEN Unsure(r)
                ELSE Sure(r, SubSeq(parent, offset + 1, offset + n) \o Own(r, n))
  IN answer

=============================================================================
