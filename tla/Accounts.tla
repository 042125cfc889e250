------------------------------ MODULE Accounts ------------------------------
(***************************************************************************)
(* The usage of one user and one agent in the database of the web          *)
(* application: the sources of the user's computers, the agent accounts    *)
(* they feed, the daily rows of each source, the daily summary that ranks  *)
(* the user, and the events by which accounts were merged automatically.   *)
(*                                                                         *)
(* Every handler is one transaction that holds the row of the user, so a   *)
(* handler is one step.  A payload carries the ticket its collection drew  *)
(* from the server (none from an old connector); the payloads of a source  *)
(* arrive in the order of their sequence numbers, once or again, and those *)
(* of two computers in any order.  Accounts are numbered as they are made. *)
(***************************************************************************)
EXTENDS Naturals, FiniteSets, Sequences, FiniteSetsExt, Functions

CONSTANTS
  Src,          \* sources: one client source on one computer
  ComputerOf,   \* the computer of each source
  ClientOf,     \* its client source id, which two computers may share
  Nil,         \* no value
  Days,         \* usage dates 1 .. today
  Snaps,        \* the snapshots a collector may send
  MinMatched, MinDistinct, MinSpan,  \* what makes a match of two accounts confident
  DailyLimit, JumpRatio,             \* thresholds of the ranking signals
  MaxAccount,   \* bound: accounts made
  MaxTickets,   \* bound: tickets and times of acceptance drawn, and payloads waiting
  MaxEdits      \* bound: changes by the user, by later pairings and by cleanups

Entry == [n : Nat, full : BOOLEAN]
Snapshot == [full : BOOLEAN, rolling : BOOLEAN, entry : [Days -> Entry \cup {Nil}]]

ASSUME AccountsAssumption ==
  /\ MaxAccount \in Nat /\ MaxTickets \in Nat /\ MaxEdits \in Nat
  /\ Days = 1 .. Cardinality(Days) /\ Days # {}
  /\ IsFiniteSet(Src) /\ Nil \notin Src
  /\ Snaps \subseteq Snapshot

VARIABLES
  mode,     \* aggregation mode of the agent, fixed by its registry
  src,      \* installation_sources
  acct,     \* agent_accounts: made, and merged into which (0: not merged)
  event,    \* account_dedup_events, at most one for a source
  row,      \* daily_usage (at = 0: no row)
  summary,  \* daily_agent_usage
  signals,  \* ranking_signals
  now,      \* latest ticket or acceptance time
  cutover,  \* the first ticket (0: none yet)
  queue,    \* payloads on the computers
  edits     \* edits so far

acctVars == <<mode, src, acct, event, row, summary, signals, now, cutover, queue, edits>>

Today == Cardinality(Days)
Account == 1 .. MaxAccount
Payload == [at : Nat, snap : Snaps]

AccountsTypeOK ==
  /\ mode \in {"account_max", "source_sum"}
  /\ src \in [Src -> [st : {"none", "active", "disconnected"}, acct : 0 .. MaxAccount,
                      decided : BOOLEAN, profile : Src \cup {Nil}]]
  /\ \A s \in Src : src[s].st = "none" <=> src[s].acct = 0
  /\ \A s \in Src : src[s].acct # 0 => acct[src[s].acct].live
  /\ acct \in [Account -> [live : BOOLEAN, into : 0 .. MaxAccount]]
  /\ \A a \in Account : acct[a].into # 0 => acct[a].live /\ acct[acct[a].into].live
  /\ event \in [Src -> [st : {"none", "active", "undone", "superseded"},
                        prev : 0 .. MaxAccount, target : 0 .. MaxAccount]]
  /\ row \in [Src -> [Days -> [n : Nat, full : BOOLEAN, at : Nat]]]
  /\ summary \in [Days -> Nat \cup {Nil}]
  /\ signals \subseteq Days \X {"daily_total", "daily_jump"}
  /\ now \in Nat /\ cutover \in Nat /\ edits \in 0 .. MaxEdits
  /\ queue \in [Src -> Seq(Payload)]

NoSrc == [st |-> "none", acct |-> 0, decided |-> FALSE, profile |-> Nil]
NoEvent == [st |-> "none", prev |-> 0, target |-> 0]
NoRow == [n |-> 0, full |-> FALSE, at |-> 0]
NoRows == [d \in Days |-> NoRow]

AccountsInit ==
  /\ mode \in {"account_max", "source_sum"}
  /\ src = [s \in Src |-> NoSrc]
  /\ acct = [a \in Account |-> [live |-> FALSE, into |-> 0]]
  /\ event = [s \in Src |-> NoEvent]
  /\ row = [s \in Src |-> NoRows]
  /\ summary = [d \in Days |-> Nil]
  /\ signals = {}
  /\ now = 1 /\ cutover = 0
  /\ queue = [s \in Src |-> <<>>]
  /\ edits = 0

----------------------------------------------------------------------------
(* Daily summaries and ranking signals, of given sources and rows.          *)

LatestComplete(R) == Max({0} \cup {r.at : r \in {q \in R : q.full}})

(* Mutant: a row counts whatever was observed after it. *)
EligibleAlways(t, r) == r.n >= 0

(* An observation counts if it is one of the newest complete ones, made at  *)
(* t, or a partial one made after them.                                     *)
Eligible(t, r) == t = 0 \/ (r.full /\ r.at = t) \/ (~r.full /\ r.at > t)

Contributors(S, rows, a, d) == {s \in Src : S[s].acct = a /\ rows[s][d].at > 0}

AccountDay(S, rows, a, d) ==
  LET C == Contributors(S, rows, a, d)
      R == {rows[s][d] : s \in C}
      t == LatestComplete(R)
  IN  IF C = {} THEN 0
      ELSE IF mode = "account_max"
      THEN Max({r.n : r \in {q \in R : Eligible(t, q)}})
      ELSE SumFunction([s \in C |-> rows[s][d].n])

(* Only accounts with a row of that day are added up; without any, there is *)
(* no summary of the day.                                                   *)
DayTotal(S, rows, d) ==
  LET used == {a \in Account : Contributors(S, rows, a, d) # {}}
  IN  IF used = {} THEN Nil ELSE SumFunction([a \in used |-> AccountDay(S, rows, a, d)])

Totals(S, rows) == [d \in Days |-> DayTotal(S, rows, d)]

(* rankingSignals: a large day, or a day much larger than a sizeable one    *)
(* before it.                                                               *)
Signals(total) ==
  LET used == {d \in Days : total[d] # Nil}
  IN  {<<d, "daily_total">> : d \in {e \in used : total[e] > DailyLimit}} \cup
      {<<d, "daily_jump">> :
         d \in {e \in used : /\ e - 1 \in used
                             /\ total[e - 1] >= DailyLimit \div 100
                             /\ total[e] > total[e - 1] * JumpRatio}}

(* rebuildAgentDailySummaries and refreshRankingSignals, at the end of a transaction. *)
Rebuild ==
  /\ summary' = Totals(src', row')
  /\ signals' = Signals(summary')

Unsummarised == UNCHANGED <<summary, signals>>

----------------------------------------------------------------------------
(* Accounts *)

Undecided(s) == ~src[s].decided /\ event[s].st = "none"
Owned(a) == {s \in Src : src[s].acct = a}
Open(a) == a \in Account /\ acct[a].live /\ acct[a].into = 0

Made == {a \in Account : acct[a].live}
NextAccount == Max({0} \cup {a \in Account : acct[a].live \/ \E s \in Src : event[s].prev = a}) + 1

(* Mutant: a merge stands although its source was moved. *)
SupersededNot(e) == e

(* A source leaves its account by a decision: its merge no longer stands. *)
Superseded(e) == IF e.st = "active" THEN [e EXCEPT !.st = "superseded"] ELSE e

(* Mutant: accounts merged into the deleted one stay. *)
CascadeOne(a) == {a}

(* Deleting an account deletes what refers to it: the accounts merged into  *)
(* it, the sources of these, their rows, and the events.                    *)
Cascade(a) ==
  {b \in Account :
     \A G \in SUBSET Account :
       a \in G /\ (\A c \in Account : acct[c].into \in G => c \in G) => b \in G}

Remove(G, lost) ==
  /\ acct' = [b \in Account |-> IF b \in G THEN [live |-> FALSE, into |-> 0] ELSE acct[b]]
  /\ src' = [s \in Src |-> IF s \in lost THEN NoSrc ELSE src[s]]
  /\ row' = [s \in Src |-> IF s \in lost THEN NoRows ELSE row[s]]
  /\ event' = [s \in Src |-> IF s \in lost \/ event[s].prev \in G \/ event[s].target \in G
                             THEN NoEvent ELSE event[s]]
  /\ queue' = [s \in Src |-> IF s \in lost THEN <<>> ELSE queue[s]]

Unedited == UNCHANGED <<mode, now, cutover, edits>>
Edit ==
  /\ edits < MaxEdits
  /\ edits' = edits + 1
  /\ UNCHANGED <<mode, now, cutover>>

(* The account a source is mapped to when a pairing is approved: its own,   *)
(* a new one, or another open one.                                          *)
Mappable(s) == {a \in Account : Open(a) \/ a = NextAccount \/ a = src[s].acct}

Opened(a) == IF Open(a) \/ acct[a].live THEN acct ELSE [acct EXCEPT ![a].live = TRUE]

(* POST /api/pairing/approve for one source s, dropping the sources D of    *)
(* its computer that a detection no longer finds.                           *)
ApproveSource(s, a, D) ==
  LET moved == src[s].acct # 0 /\ src[s].acct # a
  IN  /\ IF src[s].st = "none" /\ D = {} THEN Unedited ELSE Edit
      /\ acct' = Opened(a)
      /\ src' = [q \in Src |->
           CASE q = s -> [src[s] EXCEPT !.st = "active", !.acct = a,
                            !.decided = @ \/ (moved /\ mode = "account_max")]
             [] q \in D -> [src[q] EXCEPT !.st = "disconnected"]
             [] OTHER -> src[q]]
      /\ event' = [q \in Src |-> IF (q = s /\ moved) \/ q \in D
                                 THEN Superseded(event[q]) ELSE event[q]]
      /\ row' = [q \in Src |-> IF q \in D THEN NoRows ELSE row[q]]
      /\ IF moved \/ D # {} THEN Rebuild ELSE Unsummarised
      /\ UNCHANGED queue

(* POST /api/installations/current/sources/register: a further account of   *)
(* the profile p, found by the connector.  Sources of the same client id    *)
(* say which account it is, unless they disagree.                           *)
Reusable(s) ==
  LET known == {q \in Src : ClientOf[q] = ClientOf[s] /\ src[q].st # "none"}
      home(q) == IF acct[src[q].acct].into = 0 THEN src[q].acct ELSE acct[src[q].acct].into
  IN  {home(q) : q \in {r \in known : acct[home(r)].into = 0}}

Register(s, p) ==
  /\ Unedited
  /\ src[s].st = "none"
  /\ src[p].st = "active" /\ src[p].profile = Nil
  /\ p # s /\ ComputerOf[p] = ComputerOf[s]
  /\ Cardinality(Reusable(s)) <= 1
  /\ \E a \in IF Reusable(s) = {} THEN {NextAccount} \cap Account ELSE Reusable(s) :
        /\ acct' = Opened(a)
        /\ src' = [src EXCEPT ![s] = [st |-> "active", acct |-> a, decided |-> FALSE,
                                      profile |-> p]]
  /\ Unsummarised
  /\ UNCHANGED <<event, row, queue>>

(* POST /api/sources/reassign *)
Reassign(s, a) ==
  /\ Edit
  /\ src[s].st # "none" /\ Open(a) /\ src[s].acct # a
  /\ src' = [src EXCEPT ![s].acct = a, ![s].decided = @ \/ mode = "account_max"]
  /\ event' = [event EXCEPT ![s] = Superseded(@)]
  /\ UNCHANGED <<acct, row, queue>>
  /\ Rebuild

(* POST /api/accounts/dedup/undo *)
Undo(s) ==
  LET e == event[s]
      stands == src[s].acct = e.target /\ acct[e.prev].into = e.target
  IN  /\ Edit
      /\ e.st = "active"
      /\ event' = [event EXCEPT ![s].st = IF stands THEN "undone" ELSE "superseded"]
      /\ IF stands
         THEN /\ src' = [src EXCEPT ![s].acct = e.prev]
              /\ acct' = [acct EXCEPT ![e.prev].into = 0]
              /\ UNCHANGED <<row, queue>>
              /\ Rebuild
         ELSE UNCHANGED <<src, acct, row, queue>> /\ Unsummarised

(* POST /api/accounts/delete *)
DeleteAccount(a) ==
  /\ Edit
  /\ Open(a)
  /\ ~\E s \in Src : src[s].profile \in Owned(a) /\ src[s].acct # a
  /\ Remove(Cascade(a), UNION {Owned(b) : b \in Cascade(a)})
  /\ Rebuild

(* A computer or a source is disconnected: its history stays. *)
DisconnectSources(S) ==
  /\ Edit
  /\ S # {} /\ \A s \in S : src[s].st = "active"
  /\ src' = [s \in Src |-> IF s \in S THEN [src[s] EXCEPT !.st = "disconnected"] ELSE src[s]]
  /\ UNCHANGED <<acct, event, row, queue>>
  /\ Unsummarised

(* POST /api/leaderboard/leave *)
LeaveLeaderboard ==
  /\ Edit
  /\ src' = [s \in Src |-> IF src[s].st = "none" THEN src[s]
                           ELSE [src[s] EXCEPT !.st = "disconnected"]]
  /\ event' = [s \in Src |-> Superseded(event[s])]
  /\ row' = [s \in Src |-> NoRows]
  /\ summary' = [d \in Days |-> Nil]
  /\ signals' = {}
  /\ UNCHANGED <<acct, queue>>

(* createSession deletes what nothing refers to any more: an account that   *)
(* no source feeds and no merge could bring back, a revoked computer that   *)
(* has no usage.                                                            *)
Orphan(a) ==
  /\ acct[a].live /\ Owned(a) = {}
  /\ acct[a].into = 0 \/ ~\E s \in Src : event[s].prev = a /\ event[s].st = "active"

CleanAccount(a) ==
  /\ Edit
  /\ Orphan(a)
  /\ Remove(Cascade(a), UNION {Owned(b) : b \in Cascade(a)})
  /\ Unsummarised

CleanComputer(S) ==
  /\ Edit
  /\ \A s \in S : src[s].st # "active" /\ row[s] = NoRows
  /\ \E s \in S : src[s].st = "disconnected"
  /\ Remove({}, S)
  /\ Unsummarised

----------------------------------------------------------------------------
(* Usage *)

(* A collection on a computer draws a ticket, which the sources collected   *)
(* in the same run share; an old connector draws none.                      *)
CollectSnapshot(s, x, t) ==
  /\ src[s].st = "active"
  /\ FoldFunction(+, 0, [q \in Src |-> Len(queue[q])]) + now <= MaxTickets
  /\ \/ /\ t = now + 1
        /\ now' = t
        /\ cutover' = IF cutover = 0 THEN t ELSE cutover
     \/ /\ t = now /\ queue[s] = <<>>
        /\ \E q \in Src \ {s} : ComputerOf[q] = ComputerOf[s] /\ queue[q] # <<>>
                              /\ queue[q][Len(queue[q])].at = now
        /\ UNCHANGED <<now, cutover>>
     \/ t = 0 /\ UNCHANGED <<now, cutover>>
  /\ queue' = [queue EXCEPT ![s] = Append(@, [at |-> t, snap |-> x])]
  /\ UNCHANGED <<mode, src, acct, event, row, summary, signals, edits>>

(* When was it observed?  Without a ticket: when it arrives, but never      *)
(* after the first ticket.                                                  *)
ObservedAt(p) ==
  IF p.at # 0 THEN p.at ELSE IF cutover # 0 THEN cutover - 1 ELSE now + 1

(* A snapshot with a partial day is a partial one. *)
Complete(x) == x.full /\ \A d \in Days : x.entry[d] # Nil => x.entry[d].full

(* Mutant: a row made after the observation is replaced all the same. *)
StoredBlindly(old, e, x, t) ==
  IF e # Nil THEN [n |-> e.n, full |-> e.full, at |-> t]
  ELSE IF x.rolling /\ Complete(x) THEN NoRow ELSE old

(* A partial entry never lowers a total, nor makes an equal one partial.    *)
Weaker(e, old) == ~e.full /\ (e.n < old.n \/ (e.n = old.n /\ old.full))

(* The row of a day after the upload of the entry e of a snapshot observed  *)
(* at t: nothing newer is touched, and a complete rolling snapshot deletes  *)
(* what it leaves out.                                                      *)
Stored(old, e, x, t) ==
  IF old.at > t \/ (e # Nil /\ old.at > 0 /\ Weaker(e, old)) THEN old
  ELSE IF e # Nil THEN [n |-> e.n, full |-> e.full, at |-> t]
  ELSE IF x.rolling /\ Complete(x) THEN NoRow ELSE old

(* Mutant: only the days with an entry are summarised again. *)
AffectedEntries(x) == {d \in Days : x.entry[d] # Nil}

Affected(x) == IF Complete(x) THEN Days ELSE {d \in Days : x.entry[d] # Nil}

(* Two sources report the same account: enough complete days before today  *)
(* with equal totals, and none that differs.                                *)
Matched(rows, s, c) ==
  {d \in Days : /\ d < Today /\ rows[s][d].full /\ rows[c][d].full
                /\ rows[s][d].n = rows[c][d].n /\ rows[s][d].n > 0}
Mismatched(rows, s, c) ==
  {d \in Days : /\ d < Today /\ rows[s][d].full /\ rows[c][d].full
                /\ rows[s][d].n # rows[c][d].n}
Confident(rows, s, c) ==
  LET M == Matched(rows, s, c)
  IN  /\ Mismatched(rows, s, c) = {}
      /\ Cardinality(M) >= MinMatched
      /\ Cardinality({rows[s][d].n : d \in M}) >= MinDistinct
      /\ Max(M) - Min(M) >= MinSpan

Candidates(rows, s) ==
  {c \in Src : /\ src[c].acct # src[s].acct /\ Open(src[c].acct)
               /\ Undecided(c) /\ Owned(src[c].acct) = {c} /\ Confident(rows, s, c)}

(* Mutant: a source the user has decided about is merged again. *)
MergesDecided(rows, s) ==
  IF mode # "account_max" \/ ~Open(src[s].acct)
  THEN {}
  ELSE {<<IF src[s].acct < src[c].acct THEN c ELSE s,
          IF src[s].acct < src[c].acct THEN src[s].acct ELSE src[c].acct>> :
          c \in {q \in Src : /\ src[q].acct # src[s].acct /\ Open(src[q].acct)
                             /\ Owned(src[q].acct) = {q} /\ Confident(rows, s, q)}}

(* autoDeduplicateAccountWideSource: which source moves to which account.   *)
(* The candidate with most matched days wins, then the older account; of    *)
(* the two accounts the one with more sources stays, then the older.  The   *)
(* second look at the rows, before the update, finds what the first one     *)
(* found: the user's row is locked.                                         *)
Merges(rows, s) ==
  IF mode # "account_max" \/ ~Open(src[s].acct) \/ ~Undecided(s)
  THEN {}
  ELSE LET C == Candidates(rows, s)
           days(c) == Cardinality(Matched(rows, s, c))
           best == {c \in C : \A q \in C : \/ days(c) > days(q)
                                           \/ days(c) = days(q) /\ src[c].acct <= src[q].acct}
           stays(c) == Cardinality(Owned(src[s].acct)) > 1 \/ src[s].acct < src[c].acct
       IN  {<<IF stays(c) THEN c ELSE s, IF stays(c) THEN src[s].acct ELSE src[c].acct>> :
              c \in best}

Merge(moving, target) ==
  LET previous == src[moving].acct
  IN  /\ src' = [src EXCEPT ![moving].acct = target, ![moving].decided = TRUE]
      /\ acct' = [acct EXCEPT ![previous].into = target]
      /\ event' = [event EXCEPT ![moving] = [st |-> "active", prev |-> previous,
                                             target |-> target]]

(* POST /api/usage with the first payload of a source; the answer may get   *)
(* lost, and the payload is sent again.                                     *)
Upload(s, answered) ==
  LET p == Head(queue[s])
      x == p.snap
      t == ObservedAt(p)
      dedup == \E d \in Days : x.entry[d] # Nil /\ x.entry[d].full
  IN  /\ queue[s] # <<>> /\ src[s].st = "active" /\ t <= MaxTickets + 1
      /\ row' = [row EXCEPT ![s] = [d \in Days |-> Stored(row[s][d], x.entry[d], x, t)]]
      /\ IF dedup /\ Merges(row', s) # {}
         THEN /\ \E m \in Merges(row', s) : Merge(m[1], m[2])
              /\ summary' = Totals(src', row')
         ELSE /\ UNCHANGED <<src, acct, event>>
              /\ summary' = [d \in Days |-> IF d \in Affected(x) THEN DayTotal(src, row', d)
                                            ELSE summary[d]]
      /\ signals' = Signals(summary')
      /\ now' = IF t > now THEN t ELSE now
      /\ queue' = IF answered THEN [queue EXCEPT ![s] = Tail(@)] ELSE queue
      /\ UNCHANGED <<mode, cutover, edits>>

AccountsNext ==
  \/ \E s \in Src : \/ \E a \in Mappable(s), D \in SUBSET {q \in Src \ {s} :
                            ComputerOf[q] = ComputerOf[s] /\ src[q].st = "active"} :
                         ApproveSource(s, a, D)
                    \/ \E p \in Src : Register(s, p)
                    \/ \E a \in Account : Reassign(s, a)
                    \/ Undo(s)
                    \/ \E x \in Snaps, t \in {0, now, now + 1} : CollectSnapshot(s, x, t)
                    \/ \E answered \in BOOLEAN : Upload(s, answered)
  \/ \E a \in Account : DeleteAccount(a) \/ CleanAccount(a)
  \/ \E S \in SUBSET Src : DisconnectSources(S)
  \/ \E k \in Range(ComputerOf) : CleanComputer({s \in Src : ComputerOf[s] = k})
  \/ LeaveLeaderboard

AccountsSpec == AccountsInit /\ [][AccountsNext]_acctVars

----------------------------------------------------------------------------
(* Properties *)

(* Although an upload summarises only the days it may have touched, and a   *)
(* handler only when it thinks it must, the public summary is at any time   *)
(* what the rows and the mapping of sources to accounts say, and the        *)
(* ranking signals are those of the summary.                                *)
SummaryMatches == summary = Totals(src, row) /\ signals = Signals(summary)

(* A merge that stands can be undone: the source is where the merge put it, *)
(* the account it left exists, is empty and points at the target, and the   *)
(* target was not itself merged away.  A merged account is never fed.       *)
MergesAreReversible ==
  /\ \A s \in Src : event[s].st = "active" =>
       /\ src[s].acct = event[s].target /\ src[s].decided
       /\ acct[event[s].prev] = [live |-> TRUE, into |-> event[s].target]
       /\ Open(event[s].target)
  /\ \A a \in Account : acct[a].into # 0 => Owned(a) = {}

(* Uploads never move a source about which the user has decided (mapped it  *)
(* elsewhere, or undone its merge), nor one that shares its account.        *)
DecisionsStand ==
  [][\A s \in Src : edits' = edits /\ src[s].acct \notin {0, src'[s].acct} =>
        Undecided(s) /\ Owned(src[s].acct) = {s}]_acctVars

(* An upload that was observed before the newest complete observation of    *)
(* its account and day, and delivered after it, does not change the total:  *)
(* an offline computer does not mask a correction made elsewhere.           *)
LateIsMasked ==
  [][\A s \in Src, d \in Days :
        LET a == src[s].acct
            R == {row[q][d] : q \in Contributors(src, row, a, d)}
        IN  /\ mode = "account_max" /\ queue[s] # <<>> /\ src' = src
            /\ edits' = edits /\ row'[s] # row[s]
            /\ LatestComplete(R) > ObservedAt(Head(queue[s]))
            => AccountDay(src', row', a, d) = AccountDay(src, row, a, d)]_acctVars

=============================================================================
