---------------------------- MODULE CursorLedger ----------------------------
(***************************************************************************)
(* The capture ledger of Cursor: an append-only file of records, folded at *)
(* every opening into the events that may be uploaded.  Three kinds of     *)
(* process write it, each under the ledger's lock: the hooks of a turn     *)
(* that ended, the wrapper of a headless run, and the synchronization,     *)
(* which reserves events for a source of the server before it sends them.  *)
(*                                                                         *)
(* A headless run is counted by its aggregate: the result that its wrapper *)
(* reads, paired with the account that its sessionEnd hook reports.  The   *)
(* stop hook of the same turn is told so by a marker, and is suppressed by *)
(* correlation where the marker was lost.  Before it waits for a lock, a   *)
(* hook leaves an intent, a gap in the coverage until its record is there. *)
(*                                                                         *)
(* Every instant of the model is a day of its own.  An operation on the    *)
(* ledger is one action: it holds the lock, and the file itself survives a *)
(* crash (CursorFile).  A hook runs once; sizes, versions, hook            *)
(* observations and captures from before the start are left out.           *)
(***************************************************************************)
EXTENDS Naturals, SequencesExt, FiniteSetsExt

CONSTANTS
  Stop, Run,   \* stop hooks, and headless runs, which are the keys of their events
  KeyOf,       \* of a stop: its generation, which another stop may repeat
  SessionOf, AccountOf, TokensOf,  \* of each stop and run
  RunOf,       \* of a stop: its run, or None
  EndSession,  \* of a run: the session its sessionEnd reports
  Absent,
  Timeout,     \* cursorPairTimeoutMs
  MaxPending,  \* maximumPendingPairs
  MaxSlots,    \* intents that have a slot of their own
  MaxTime, MaxRefusals, MaxResets  \* bound the model

ASSUME CursorAssumption ==
  /\ {Timeout, MaxPending, MaxSlots, MaxTime, MaxRefusals, MaxResets} \subseteq Nat
  /\ \A s \in Stop : RunOf[s] \in Run \cup {Absent}

Key == {KeyOf[s] : s \in Stop} \cup Run
Session == Range(SessionOf) \cup Range(EndSession)
Account == Range(AccountOf)

CursorSource == Account \X (0 .. MaxResets)

Hook == Stop \cup (Run \X {"end"})   \* a stop, or the sessionEnd of a run

VARIABLES
  now,
  log,      \* the records
  ledger,   \* what they fold to
  edition,  \* of the file: a replacement has another inode
  hook,     \* of each hook: its step and capture time
  overflow, \* the time of the first intent without a slot, or None
  wrapper,      \* of each wrapper: its step, and when it began and closed
  snapshot, \* what the synchronization of an account has read, or None
  sent,     \* the events each server source was ever sent
  resets,   \* of the installation: its accounts have other sources then
  refusals  \* hooks whose payload was refused

cursorVars == <<now, log, ledger, edition, hook, overflow, wrapper, snapshot, sent, resets, refusals>>

----------------------------------------------------------------------------
(* The fold *)

Least(S) == CHOOSE x \in S : \A y \in S : x <= y
Most(S) == CHOOSE x \in S : \A y \in S : x >= y
GapOf(t, u) == [from |-> Least({t, u}), to |-> Most({t, u})]

EmptyLedger ==
  [started |-> Absent, accounts |-> {}, events |-> [k \in Key |-> Absent], order |-> <<>>,
   owners |-> [k \in Key |-> Absent], acknowledged |-> {}, pending |-> [r \in Run |-> Absent],
   completed |-> {}, paired |-> {}, gaps |-> {}, sessionAccount |-> [s \in Session |-> Absent],
   blocked |-> {}, windows |-> {}, broken |-> FALSE]

(* captureWindow: the interval of a run, with the identities it knows. *)
WindowFor(p, end, key) ==
  LET times == ({p.firstAt, p.finishedAt, end} \cup (IF p.result = Absent THEN {} ELSE {p.result.at})
                  \cup (IF p.binding = Absent THEN {} ELSE {p.binding.at})) \ {Absent}
  IN  [from |-> Least(times), to |-> Most(times), key |-> key,
       session |-> IF p.result # Absent THEN p.result.session
                   ELSE IF p.binding # Absent THEN p.binding.session ELSE Absent,
       account |-> IF p.binding # Absent THEN p.binding.account ELSE Absent]

Inside(e, w) ==
  /\ w.from <= e.at /\ e.at <= w.to
  /\ w.session \in {Absent, e.session} /\ w.account \in {Absent, e.account}

(* pendingDeadline, pendingWindowEnd *)
Deadline(p) ==
  IF p.owned /\ p.finishedAt = Absent THEN Absent
  ELSE (IF p.finishedAt # Absent THEN p.finishedAt ELSE p.firstAt) + Timeout
WindowEnd(p, t) == IF Deadline(p) # Absent /\ Deadline(p) < t THEN Deadline(p) ELSE t

(* reconcileCursorEvent, without the times *)
SameEvent(e, f) ==
  e.account = f.account /\ e.session = f.session /\ e.origin = f.origin /\ e.tokens = f.tokens

(* An account other than the one of its session blocks the session. *)
Accepted(l, e) ==
  LET owner == l.sessionAccount[e.session]
      old == l.events[e.key]
  IN  IF owner \notin {Absent, e.account}
      THEN [l EXCEPT !.blocked = @ \cup {e.session}, !.gaps = @ \cup {GapOf(l.started, e.at)}]
      ELSE IF old = Absent
      THEN [l EXCEPT !.sessionAccount[e.session] = e.account, !.events[e.key] = e,
                     !.order = Append(@, e.key)]
      ELSE IF SameEvent(old, e) THEN l
      ELSE [l EXCEPT !.gaps = @ \cup {GapOf(old.at, e.at)}]

Closed(l, r) == [l EXCEPT !.pending[r] = Absent, !.completed = @ \cup {r}]

(* One half of a run, the result or the binding of an account. *)
Halved(l, rec) ==
  LET half == rec.half
      old == l.pending[rec.run]
      p == IF old # Absent THEN old
           ELSE [firstAt |-> half.at, owned |-> FALSE, finishedAt |-> Absent, result |-> Absent, binding |-> Absent]
      q == IF rec.kind = "result"
           THEN [p EXCEPT !.result = IF @ = Absent THEN half ELSE @,
                          !.finishedAt = IF @ = Absent THEN half.at ELSE @]
           ELSE [p EXCEPT !.binding = IF @ = Absent THEN half ELSE @]
  IN  IF rec.run \in l.completed THEN l
      ELSE IF q.result = Absent \/ q.binding = Absent THEN [l EXCEPT !.pending[rec.run] = q]
      ELSE IF q.result.session # q.binding.session
      THEN Closed([l EXCEPT !.gaps = @ \cup {GapOf(q.firstAt, half.at)},
                            !.blocked = @ \cup {q.result.session, q.binding.session}], rec.run)
      ELSE LET e == [key |-> q.result.key, session |-> q.result.session, account |-> q.binding.account,
                     tokens |-> q.result.tokens, at |-> q.result.at, origin |-> "headless"]
           IN  Closed([Accepted(l, e) EXCEPT !.windows = @ \cup {WindowFor(q, half.at, e.key)},
                                             !.paired = @ \cup {rec.run}], rec.run)

Aborted(l, rec) ==
  LET p == l.pending[rec.run]
  IN  Closed([l EXCEPT
        !.gaps = @ \cup {GapOf(IF p = Absent THEN rec.at ELSE p.firstAt, rec.at)},
        !.windows = @ \cup (IF p = Absent THEN {} ELSE {WindowFor(p, WindowEnd(p, rec.at), Absent)})], rec.run)

(* An event is owned once: another owner is a conflict. *)
Owned(l, rec) ==
  LET taken == {k \in rec.keys : l.owners[k] \notin {Absent, rec.source}}
  IN  [l EXCEPT
        !.broken = @ \/ \E k \in rec.keys : l.events[k] = Absent \/ l.events[k].account # rec.account,
        !.owners = [k \in Key |-> IF k \in rec.keys \ taken THEN rec.source ELSE @[k]],
        !.gaps = @ \cup {GapOf(l.events[k].at, rec.at) : k \in taken}]

(* The accounts that a record carries must extend the known ones. *)
Named(l, rec) ==
  IF rec.accounts = Absent THEN l
  ELSE [l EXCEPT !.broken = @ \/ ~(l.accounts \subseteq rec.accounts), !.accounts = rec.accounts]

Fold(l, rec) ==
  LET n == Named(l, rec)
  IN  CASE rec.kind = "start"    -> [l EXCEPT !.started = rec.at]
        [] rec.kind = "accounts" -> n
        [] rec.kind = "gap"      -> [l EXCEPT !.gaps = @ \cup {GapOf(rec.at, rec.to)}]
        [] rec.kind = "event"    -> Accepted([n EXCEPT !.broken = @ \/ rec.event.account \notin n.accounts],
                                             rec.event)
        [] rec.kind = "begin"    -> IF rec.run \in l.completed \/ l.pending[rec.run] # Absent THEN l
                                    ELSE [l EXCEPT !.pending[rec.run] =
                                            [firstAt |-> rec.at, owned |-> TRUE, finishedAt |-> Absent,
                                             result |-> Absent, binding |-> Absent]]
        [] rec.kind = "finish"   -> IF l.pending[rec.run] = Absent THEN l
                                    ELSE [l EXCEPT !.pending[rec.run].finishedAt = IF @ = Absent THEN rec.at ELSE @]
        [] rec.kind = "abort"    -> Aborted(l, rec)
        [] rec.kind = "result"   -> Halved(l, rec)
        [] rec.kind = "binding"  -> Halved([n EXCEPT !.broken = @ \/ rec.half.account \notin n.accounts], rec)
        [] rec.kind = "owner"    -> Owned(l, rec)
        [] rec.kind = "ack"      -> [l EXCEPT !.broken = @ \/ \E k \in rec.keys : l.owners[k] # rec.source,
                                              !.acknowledged = @ \cup rec.keys]

Folded(l, recs) == FoldLeft(Fold, l, recs)

----------------------------------------------------------------------------
(* What is visible in a ledger *)

HeadlessOf(l, w) == IF w.key = Absent THEN Absent ELSE l.events[w.key]

Matching(l, w) ==
  {k \in Key : l.events[k] # Absent /\ l.events[k].origin = "stop" /\ Inside(l.events[k], w)}

(* In the window of a run, its stop has the tokens of its aggregate: of     *)
(* others that match, only the first event that was confirmed is kept.      *)
Disputed(l, w) ==
  /\ HeadlessOf(l, w) # Absent
  /\ \E k \in Matching(l, w) : l.events[k].tokens # HeadlessOf(l, w).tokens

Claimants(l, w) == SelectSeq(l.order, LAMBDA k : k \in Matching(l, w) \cup {w.key})

SuppressedBy(l, w) == IF Disputed(l, w) THEN Range(Tail(Claimants(l, w))) ELSE Matching(l, w)

Suppressed(l) == UNION {SuppressedBy(l, w) : w \in l.windows}

DisputeGaps(l) ==
  UNION {{GapOf(l.events[Head(Claimants(l, w))].at, l.events[k].at) : k \in SuppressedBy(l, w)}
           : w \in {v \in l.windows : Disputed(l, v)}}

Pending(l) == {r \in Run : l.pending[r] # Absent}

(* A stop that may be the one of a run waits for the run's outcome. *)
Deferred(l, e, t) ==
  /\ e.origin = "stop"
  /\ \E r \in Pending(l) :
       Inside(e, [WindowFor(l.pending[r], WindowEnd(l.pending[r], t), Absent) EXCEPT !.account = Absent])

(* Mutant: a stop is visible before the run's outcome is known. *)
VisibleEarly(l, t) ==
  {k \in Key : /\ l.events[k] # Absent
               /\ l.events[k].session \notin l.blocked
               /\ k \notin Suppressed(l)}

(* capturedEvents *)
Visible(l, t) ==
  {k \in Key : /\ l.events[k] # Absent
               /\ l.events[k].session \notin l.blocked
               /\ k \notin Suppressed(l)
               /\ ~Deferred(l, l.events[k], t)}

Intents == {x \in Hook : hook[x].intent = "slot"}

(* The gaps that a collection is told of. *)
Gaps(t) ==
  ledger.gaps \cup DisputeGaps(ledger)
  \cup {GapOf(ledger.pending[r].firstAt, Most({t, ledger.pending[r].firstAt})) : r \in Pending(ledger)}
  \cup {GapOf(hook[x].at, hook[x].at) : x \in Intents}
  \cup (IF overflow = Absent THEN {} ELSE {GapOf(overflow, t)})

----------------------------------------------------------------------------
CursorTypeOK ==
  /\ now \in 1 .. MaxTime
  /\ ledger.pending \in [Run -> {Absent} \cup {ledger.pending[r] : r \in Run}]
  /\ Cardinality(Pending(ledger)) <= MaxPending
  /\ Range(ledger.order) = {k \in Key : ledger.events[k] # Absent} /\ IsInjective(ledger.order)
  /\ \A x \in Hook : hook[x].step \in {"none", "begun", "recorded", "done", "lost"}
  /\ \A r \in Run : wrapper[r].step \in {"none", "running", "closed", "recorded", "dead"}
  /\ sent \in [CursorSource -> SUBSET Key]

CursorInit ==
  /\ now = 1
  /\ log = <<[kind |-> "start", at |-> 1]>>
  /\ ledger = Folded(EmptyLedger, log)
  /\ edition = 0
  /\ hook = [x \in Hook |-> [step |-> "none", at |-> 0, intent |-> "none"]]
  /\ overflow = Absent
  /\ wrapper = [r \in Run |-> [step |-> "none", closed |-> 0, result |-> FALSE]]
  /\ snapshot = [a \in Account |-> Absent]
  /\ sent = [q \in CursorSource |-> {}]
  /\ resets = 0 /\ refusals = 0

Write(recs) == log' = log \o recs /\ ledger' = Folded(ledger, recs) /\ UNCHANGED edition

(* The write of a process that dies: some of its records are there. *)
WriteSome(recs) == \E n \in 0 .. Len(recs) : Write(SubSeq(recs, 1, n))

(* expirePendingCaptures: a run whose wrapper lives has no deadline before  *)
(* its close.                                                               *)
Expired(t) ==
  {r \in Pending(ledger) :
     LET p == ledger.pending[r]
     IN  IF Deadline(p) # Absent THEN t > Deadline(p)
         ELSE t > p.firstAt + Timeout /\ wrapper[r].step \notin {"running", "closed"}}

Aborts(t) ==
  LET abort(r) == [kind |-> "abort", run |-> r, at |-> t]
  IN  SetToSeq({abort(r) : r \in Expired(t)})

----------------------------------------------------------------------------
(* Hooks *)

Of(x) == IF x \in Stop THEN RunOf[x] ELSE x[1]

(* A hook starts, while its run does, and leaves an intent. *)
HookBegins(x) ==
  /\ hook[x].step = "none"
  /\ Of(x) # Absent => wrapper[Of(x)].step = "running"
  /\ LET full == Cardinality(Intents) >= MaxSlots \/ overflow # Absent
     IN  /\ hook' = [hook EXCEPT ![x] = [step |-> "begun", at |-> now,
                                        intent |-> IF full THEN "overflow" ELSE "slot"]]
         /\ overflow' = IF full /\ overflow = Absent THEN now ELSE overflow
  /\ UNCHANGED <<now, log, ledger, edition, wrapper, snapshot, sent, resets, refusals>>

(* recordCursorCapture of a stop *)
StopRecords(s, t) ==
  LET e == [key |-> KeyOf[s], session |-> SessionOf[s], account |-> AccountOf[s], tokens |-> TokensOf[s],
            at |-> t, origin |-> "stop"]
      l == Folded(ledger, Aborts(t))
      old == l.events[KeyOf[s]]
      record == [kind |-> "event", event |-> e, accounts |-> l.accounts \cup {AccountOf[s]}]
  IN  IF old = Absent \/ (old.session = SessionOf[s] /\ old.account # AccountOf[s]) THEN <<record>>
      ELSE IF SameEvent(old, e) THEN <<>>
      ELSE <<[kind |-> "gap", at |-> old.at, to |-> t]>>

EndRecords(r, t) ==
  LET l == Folded(ledger, Aborts(t))
      half == [session |-> EndSession[r], account |-> AccountOf[r], at |-> t]
  IN  IF r \in l.completed THEN <<>>
      ELSE <<[kind |-> "binding", run |-> r, half |-> half, accounts |-> l.accounts \cup {AccountOf[r]}]>>

(* captureCursorHook: with the marker of its run, a stop is suppressed and  *)
(* a sessionEnd is the half of a pair; without it, a sessionEnd is ignored. *)
HookRecords(x, marked) ==
  LET t == hook[x].at
      recs == IF marked = (x \in Stop) THEN <<>>
              ELSE IF x \in Stop THEN StopRecords(x, t) ELSE EndRecords(x[1], t)
  IN  IF ~marked /\ x \notin Stop THEN <<>> ELSE Aborts(t) \o recs

(* A refused payload: the run is aborted, and the time is a gap. *)
RefusalRecords(x) ==
  LET t == hook[x].at
      gap == <<[kind |-> "gap", at |-> t, to |-> t]>>
  IN  Aborts(t) \o
      (IF x \in Stop \/ x[1] \in Folded(ledger, Aborts(t)).completed THEN gap
       ELSE <<[kind |-> "abort", run |-> x[1], at |-> t]>> \o gap)

HookWrites(x) ==
  /\ hook[x].step = "begun"
  /\ \/ \E marked \in IF Of(x) = Absent THEN {FALSE} ELSE BOOLEAN :
          Write(HookRecords(x, marked)) /\ UNCHANGED refusals
     \/ refusals < MaxRefusals /\ refusals' = refusals + 1 /\ Write(RefusalRecords(x))
  /\ hook' = [hook EXCEPT ![x].step = "recorded"]
  /\ UNCHANGED <<now, overflow, wrapper, snapshot, sent, resets>>

(* completeCursorIngress *)
HookCompletes(x) ==
  /\ hook[x].step = "recorded"
  /\ hook' = [hook EXCEPT ![x].step = "done", ![x].intent = "none"]
  /\ UNCHANGED <<now, log, ledger, edition, overflow, wrapper, snapshot, sent, resets, refusals>>

(* Mutant: a hook removes its intent even where it fails. *)
HookDiesTidily(x) ==
  /\ hook[x].step \in {"begun", "recorded"}
  /\ hook' = [hook EXCEPT ![x].step = "lost", ![x].intent = "none"]
  /\ UNCHANGED <<now, log, ledger, edition, overflow, wrapper, snapshot, sent, resets, refusals>>

(* Its deadline, a failure or a kill, at any point. *)
HookDies(x) ==
  /\ hook[x].step \in {"begun", "recorded"}
  /\ hook' = [hook EXCEPT ![x].step = "lost"]
  /\ UNCHANGED <<now, log, ledger, edition, overflow, wrapper, snapshot, sent, resets, refusals>>

----------------------------------------------------------------------------
(* Wrappers *)

WrapperBegins(r) ==
  /\ wrapper[r].step = "none"
  /\ Cardinality(Pending(Folded(ledger, Aborts(now)))) < MaxPending
  /\ Write(Aborts(now) \o <<[kind |-> "begin", run |-> r, at |-> now]>>)
  /\ wrapper' = [wrapper EXCEPT ![r].step = "running"]
  /\ UNCHANGED <<now, hook, overflow, snapshot, sent, resets, refusals>>

(* The native process ends, with a result or not. *)
WrapperCloses(r) ==
  /\ wrapper[r].step = "running"
  /\ \E result \in BOOLEAN : wrapper' = [wrapper EXCEPT ![r] = [step |-> "closed", closed |-> now, result |-> result]]
  /\ UNCHANGED <<now, log, ledger, edition, hook, overflow, snapshot, sent, resets, refusals>>

(* finishCursorHeadlessCapture, recordCursorCapture *)
WrapperRecords(r) ==
  LET finish == IF ledger.pending[r] = Absent \/ ledger.pending[r].finishedAt # Absent THEN <<>>
                ELSE <<[kind |-> "finish", run |-> r, at |-> wrapper[r].closed]>>
      half == [key |-> r, session |-> SessionOf[r], tokens |-> TokensOf[r], at |-> wrapper[r].closed]
      outcome == IF r \in ledger.completed
                 THEN IF wrapper[r].result THEN <<>> ELSE <<[kind |-> "gap", at |-> now, to |-> now]>>
                 ELSE IF wrapper[r].result THEN <<[kind |-> "result", run |-> r, half |-> half]>>
                 ELSE <<[kind |-> "abort", run |-> r, at |-> now]>>
  IN  finish \o outcome

WrapperEnds(r) ==
  /\ wrapper[r].step = "closed"
  /\ Write(WrapperRecords(r))
  /\ wrapper' = [wrapper EXCEPT ![r].step = "recorded"]
  /\ UNCHANGED <<now, hook, overflow, snapshot, sent, resets, refusals>>

(* It is killed, or cannot take the locks. *)
WrapperDies(r) ==
  /\ wrapper[r].step \in {"running", "closed"}
  /\ WriteSome(IF wrapper[r].step = "closed" THEN WrapperRecords(r) ELSE <<>>)
  /\ wrapper' = [wrapper EXCEPT ![r].step = "dead"]
  /\ UNCHANGED <<now, hook, overflow, snapshot, sent, resets, refusals>>

----------------------------------------------------------------------------
(* The synchronization of one account *)

Here(a) == <<a, resets>>

OfAccount(l, a, keys) == {k \in keys : l.events[k].account = a}

(* reserveCursorEvents *)
Reserve(a) ==
  /\ snapshot[a] = Absent
  /\ LET l == Folded(ledger, Aborts(now))
         keys == {k \in OfAccount(l, a, Visible(l, now)) : l.owners[k] = Absent}
         record == [kind |-> "owner", at |-> now, source |-> Here(a), account |-> a, keys |-> keys]
     IN  keys # {} /\ Write(Aborts(now) \o <<record>>)
  /\ UNCHANGED <<now, hook, overflow, wrapper, snapshot, sent, resets, refusals>>

(* Mutant: events are uploaded whoever they are reserved for. *)
UploadedUnowned(l, a, t) == OfAccount(l, a, Visible(l, t))

(* collectCursor uploads what is reserved for the current source. *)
Uploaded(l, a, t) == {k \in OfAccount(l, a, Visible(l, t)) : l.owners[k] = Here(a)}

CollectCursor(a) ==
  /\ snapshot[a] = Absent
  /\ Write(Aborts(now))
  /\ snapshot' = [snapshot EXCEPT ![a] = [source |-> Here(a), keys |-> Uploaded(ledger', a, now),
                                          edition |-> edition, length |-> Len(log'), sent |-> FALSE]]
  /\ UNCHANGED <<now, hook, overflow, wrapper, sent, resets, refusals>>

(* The answer may be lost; the same request is then repeated. *)
Send(a) ==
  /\ snapshot[a] # Absent /\ ~snapshot[a].sent
  /\ sent' = [sent EXCEPT ![snapshot[a].source] = @ \cup snapshot[a].keys]
  /\ \E answered \in BOOLEAN : snapshot' = [snapshot EXCEPT ![a].sent = answered]
  /\ UNCHANGED <<now, log, ledger, edition, hook, overflow, wrapper, resets, refusals>>

(* Mutant: what others own is acknowledged too. *)
AcknowledgedAll(a) ==
  Visible(Folded(EmptyLedger, SubSeq(log, 1, snapshot[a].length)), now) \ ledger.acknowledged

(* acknowledgeCursorCapture: of the prefix that was collected. *)
Acknowledged(a) ==
  LET prefix == Folded(EmptyLedger, SubSeq(log, 1, snapshot[a].length))
  IN  {k \in Visible(prefix, now) : prefix.owners[k] = snapshot[a].source} \ ledger.acknowledged

AcknowledgeCursor(a) ==
  /\ snapshot[a] # Absent /\ snapshot[a].sent
  /\ LET keys == IF edition = snapshot[a].edition THEN Acknowledged(a) ELSE {}
     IN  Write(IF keys = {} THEN <<>> ELSE <<[kind |-> "ack", source |-> snapshot[a].source, keys |-> keys]>>)
  /\ snapshot' = [snapshot EXCEPT ![a] = Absent]
  /\ UNCHANGED <<now, hook, overflow, wrapper, sent, resets, refusals>>

(* compactAcknowledgedCursorCapture: the longest prefix without an          *)
(* unacknowledged event or an open run.                                     *)
Settles(rec, done) ==
  /\ rec.kind = "event" => rec.event.key \in done
  /\ rec.kind \in {"begin", "finish", "abort", "result", "binding"} =>
       rec.run \in ledger.completed /\ (rec.run \in ledger.paired => rec.run \in ledger.acknowledged)

SettledPrefix ==
  LET done == ledger.acknowledged \cup Suppressed(ledger)
      open == {i \in DOMAIN log : ~Settles(log[i], done)}
  IN  IF open = {} THEN Len(log) ELSE Least(open) - 1

(* compactCursorLedger: only the repeated accounts are dropped. *)
Compacted(prefix) ==
  LET last == [kind |-> "accounts", accounts |-> Folded(EmptyLedger, prefix).accounts]
      short(rec) == IF rec.kind \in {"event", "binding"} THEN [rec EXCEPT !.accounts = Absent] ELSE rec
      kept == SelectSeq(Tail(prefix), LAMBDA rec : rec.kind # "accounts")
  IN  <<Head(prefix), last>> \o [i \in DOMAIN kept |-> short(kept[i])]

Compact ==
  LET n == SettledPrefix
      prefix == SubSeq(log, 1, n)
  IN  /\ \E i \in DOMAIN prefix : prefix[i].kind \in {"event", "binding"} /\ prefix[i].accounts # Absent
      /\ log' = Compacted(prefix) \o SubSeq(log, n + 1, Len(log))
      /\ ledger' = Folded(EmptyLedger, log')
      /\ edition' = edition + 1
      /\ UNCHANGED <<now, hook, overflow, wrapper, snapshot, sent, resets, refusals>>

(* reset: the installation is paired again, with other sources. *)
Reset ==
  /\ resets < MaxResets
  /\ resets' = resets + 1
  /\ snapshot' = [a \in Account |-> Absent]
  /\ UNCHANGED <<now, log, ledger, edition, hook, overflow, wrapper, sent, refusals>>

(* A hook ends within its deadline, a run in the instant of its sessionEnd. *)
CursorTick ==
  /\ now < MaxTime
  /\ \A x \in Hook : hook[x].step \in {"begun", "recorded"} => hook[x].at = now
  /\ \A r \in Run : hook[<<r, "end">>].step # "none" => wrapper[r].step # "running"
  /\ now' = now + 1
  /\ UNCHANGED <<log, ledger, edition, hook, overflow, wrapper, snapshot, sent, resets, refusals>>

CursorNext ==
  \/ \E x \in Hook : HookBegins(x) \/ HookWrites(x) \/ HookCompletes(x) \/ HookDies(x)
  \/ \E r \in Run : WrapperBegins(r) \/ WrapperCloses(r) \/ WrapperEnds(r) \/ WrapperDies(r)
  \/ \E a \in Account : Reserve(a) \/ CollectCursor(a) \/ Send(a) \/ AcknowledgeCursor(a)
  \/ Compact \/ Reset \/ CursorTick

CursorSpec == CursorInit /\ [][CursorNext]_cursorVars

----------------------------------------------------------------------------
(* Properties *)

(* The turn of a stop is accounted for at its time, or as its run is. *)
Declared(t, gaps) == \E g \in gaps : g.from <= t /\ t <= g.to

Accounted(s, visible, gaps) ==
  LET r == RunOf[s]
  IN  \/ KeyOf[s] \in visible \/ Declared(hook[s].at, gaps)
      \/ r # Absent /\ (r \in visible \/ (wrapper[r].closed > 0 /\ Declared(wrapper[r].closed, gaps)))

(* The fold accepts whatever the operations have written, in any order: no  *)
(* record of theirs makes the ledger unreadable for good.                   *)
StaysReadable == ~ledger.broken

(* A turn whose hook has started counts, or the coverage has a gap at its   *)
(* time: whatever hooks, wrappers and synchronizations die, in any order.   *)
(* Sessions blocked by an account conflict are the exception (the README).  *)
NoSilentLoss ==
  LET visible == Visible(ledger, now)
      gaps == Gaps(now)
  IN  /\ \A s \in Stop : hook[s].step # "none" /\ SessionOf[s] \notin ledger.blocked
                          => Accounted(s, visible, gaps)
      /\ \A r \in Run : wrapper[r].result /\ SessionOf[r] \notin ledger.blocked
                          => r \in visible \/ Declared(wrapper[r].closed, gaps)

(* The turn of a run is never uploaded twice, as its stop and as its        *)
(* aggregate: not even a stop whose marker was lost, before the outcome.    *)
CountedOnce ==
  LET uploaded == UNION {sent[q] : q \in CursorSource}
  IN  \A s \in Stop : RunOf[s] # Absent => ~({KeyOf[s], RunOf[s]} \subseteq uploaded)

(* An event goes to one source of the server for ever, over resets whose    *)
(* last answer was lost and over compactions: source_sum never adds it twice. *)
SentToOneSource == \A p, q \in CursorSource : p # q => sent[p] \cap sent[q] = {}

(* No turn of an agent is added twice: not as its stop and as its run, and *)
(* not to two sources of the server.                                       *)
TurnCountsOnce == CountedOnce /\ SentToOneSource

(* What is acknowledged, and may be compacted, was really sent. *)
AcknowledgedWasSent == ledger.acknowledged \subseteq UNION {sent[q] : q \in CursorSource}

=============================================================================
