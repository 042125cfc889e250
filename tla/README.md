# Viberacing: a verification project

TLA+ models of the Viberacing connector and of the server transactions it talks to, checked
with TLC and proved about with TLAPS. Paths are relative to the repository
(`packages/connector/lib/runtime.mjs`; `lib/...` alone means the connector's), and `viberacing.mjs` is
`packages/connector/bin/viberacing.mjs`. `PROJECT.json` lists components, runs, mutants,
the line map, findings, hazards and theorems.

1. [The system](#the-system)
2. [Modules](#modules), what each one models and leaves out
3. [Runs](#runs): questions, bounds, fairness
4. [Findings](#findings) and disagreements
5. [Proofs](#proofs)
6. [Plan](#plan)

## The system

Coding agents leave usage logs on a developer's machine. The **connector**, a Node command
started by hooks, by hand or by a browser link, collects them per *source* and uploads daily
token counts; the **web application** (Next.js over PostgreSQL) takes uploads in, derives daily
summaries and shows a leaderboard. Several connector processes run at once and share nothing
but files; any of them may be killed. A handler of the web application is one database transaction that
locks the rows it is about.

| Component | State | Operations | What is hard | What makes it correct |
|---|---|---|---|---|
| Owned locks (`lib/owned-lock.mjs`) | the lock file and its takeover guard, with owner tokens and times | acquire, wait, take over, release | takeover of a dead owner's file while others contend; deaths between create and write | one holder; nobody removes a live owner's file; every wait ends |
| Dirty ledger and scheduler (`lib/runtime.mjs`, `viberacing.mjs`) | one generation per source, failed attempts, launch/scheduler/dirty/sync locks | hook marks, launch handshake, automatic attempt, manual sync, clear | four locks, hooks during attempts, deaths, failing requests | an event stays in the ledger until collected; finite attempts; the loop ends |
| Lifecycle (`lib/connection-lifecycle.mjs`, `lib/config.mjs`) | the lifecycle marker, config and its journal | connect, disconnect, add and remove a source, reset | racing with a running sync or hook; partial failure | nothing of the old connection acts after a disconnect |
| State directory (`lib/config.mjs`) | the directory, its marker, the migration lock | open, inspect, make private, mark | two processes, an older connector and the user write while one looks | a process uses only a directory that is its own, and private |
| Agent hooks (`lib/config.mjs`, `viberacing.mjs`) | handlers in settings files, installed copies, the launcher | connect, repair, remove, uninstall | settings read, then replaced; commands overtaken by others | the user's handlers stay, every hook starts a whole copy |
| Codex (`lib/adapters/codex.mjs`, `syncRange`, `lib/config.mjs`) | accounts of a profile, noted totals; session files and what was read of them | read the identity, bind, register, collect | the account switches during a reading; forks, archives and compressed copies repeat turns | totals belong to the account that was signed in; a turn counts once, on its day |
| Sync and delivery (`viberacing.mjs`, `lib/runtime.mjs`) | `state.json` (sequences, fingerprints, cursors, intent), pending, error and quarantine files | recover, drain, reconcile, collect, persist, deliver | death between any two writes, lost answers, refused batches, stale sequences | fingerprints and cursors stand for delivered usage; the server never goes back |
| History and gaps (`viberacing.mjs`, `api/usage/route.ts`) | a cursor per source and year, retry and gap attempts, the server's status and unresolved dates | choose a range, advance, reconcile, reset | cycles, chunks acknowledged twice, days between two passes | a year called complete has every day; passes end |
| Capture retention (`runtime.mjs`, `compactPendingCaptures`) | capture file, cleanup proof | append, prove, merge, compact, recover | appends during compaction, death around the rename, a stale copy of the state file | only accepted records go |
| JSONL stores (`lib/adapters/shared.mjs`) | a checkpoint per file, the ledger of counted records | walk, resume, read, mark, save | files rewritten, truncated, replaced while they are read | what is called complete is whole |
| Cursor ledger (`lib/cursor-*.mjs`) | an append-only file of records, its proof file, intents of hooks, runs of the wrapper | append, fold, reserve, acknowledge, compact | a turn told twice or half, three-file recovery, power failure, restored backups | no turn twice, none lost in silence, no file that stays unreadable |
| Cursor hooks (`lib/cursor-hooks.mjs`) | `hooks.json` and its recovery, reconcile and stage files | install, remove, recover | editors that know of no lock | no foreign entry lost; it settles |
| OpenCode plugin (`lib/opencode-*.mjs`) | plugin files under names of the connector's, a journal of paths | install, replace, move, remove, clean up | deaths between link and record, the user editing the directory | nothing of the user's goes, nothing of ours stays |
| Browser sync (`browserSync`, `api/accounts/sync`, `api/installations/current/sync`) | grants, runs, handlers | grant, claim, result | death after the claim, repeated links | one sync per request; nobody is blocked for ever |
| Diagnostics (`lib/diagnostics.mjs`) | an outbox of transitions for each source | reconcile, deliver, acknowledge | transitions replaced during delivery | the last the server hears is how things stand |
| Usage ingestion (`api/usage/route.ts`) | last sequence, daily rows, errors, history status | one transaction per upload | repeated and reordered uploads, several sources of an account | sequences only move forward; the latest complete observation wins |
| Summaries, dedup, accounts (`apps/web/lib/usage-summary.ts`, `account-dedup.ts`) | daily summaries, merge events, ranking signals | refresh, merge, undo, delete, reassign | late observations, merge after undo, partial refreshes | a summary equals its definition over all rows |
| Pairing (`api/pairing/*`, connect) | installation and source rows, codes, tokens; five files of the connector | start, approve, poll, cancel, revoke | any order of them, lost answers, deaths between two files | both sides agree; an abandoned attempt harms nothing |
| Admission (`apps/web/lib/rate-limit.ts`, `overload.ts`) | buckets, backoff, slots, a waiter queue | admit, reject, wait, resume | roll-back on rejection, a timeout racing a resume | slots neither leak nor double; budgets hold |
| Sessions, leaderboard, pages, scripts | rows read and written in single statements | | | not modelled: no protocol |

How they meet: hooks **mark** the ledger and **launch** a scheduler process; the scheduler, a
user or a browser link runs a **sync** under the sync lock; a sync reads the ledger, collects (reading stores,
captures and the Cursor ledger from their checkpoints), writes intent and files, **uploads**, advances history, proofs and
fingerprints, and clears the ledger. A lifecycle command sets a marker that every step of a
sync looks at, takes the sync lock and stops the scheduler. All four locks are owned locks. On the server an upload is
admitted, merged into rows, may merge accounts, and refreshes the summary.

## Modules

| Module | Models |
|---|---|
| `Mutex` | abstract: at most one holder |
| `OwnedLock` | `acquireOwnedLock`, `releaseOwnedLock`, one action per file operation |
| `Scheduler` | ledger, hooks, launch handshake, scheduler loop, the ledger's side of a sync, disconnect |
| `Outbox` | abstract: the server's view of a source moves forward along its collections |
| `Delivery` | a sync range by range, the state and pending files, the upload transaction, crashes, compaction |
| `StateRoot` | `ensurePrivateStateDirectory`: whose directory it is, and who may mark it |
| `CodexAccounts` | several accounts in one Codex profile: identity, binding, registration, noted totals |
| `CodexLineage`, `CodexRollouts` | the lines of a session file and the lineage of forks; a collection beside a Codex that goes on writing |
| `AgentHooks` | the hooks in the agents' settings and the copies they start, under the commands that change them |
| `Lists` | `Array.filter` as a recursive function, for the modules proved about |
| `History` | cursors of the initial, gap and full pass, reconciled with the server's status |
| `JsonlScan`, `Reader` | one pass over a JSONL file; a sync over a store that its agent writes meanwhile |
| `Capture` | the captured records: append, collect, prove, compact |
| `CursorLedger`, `CursorFile` | the records of the Cursor ledger and their fold; the file that holds them |
| `HooksFile` | Cursor's `hooks.json` under compare-and-swap |
| `OpenCodePlugin` | the plugin's files, journal and commands |
| `BrowserSync` | grants, runs and handlers of a sync asked for in the browser |
| `Diagnostics` | the outbox of diagnostic transitions |
| `Pairing` | the pairing routes with the lifecycle commands and files of the connector |
| `Accounts` | sources, accounts, merges, daily rows, summaries and signals of a user |
| `Admission` | backoff, slots and buckets of an endpoint |
| `MCOwnedLock`, `MCOwnedLockParts`, `MCScheduler`, `MCSchedulerParts`, `MCDelivery`, `MCPairing` | instances of one component |
| `MCLocal`, `MCConnector`, `MCWeb`, `MCServices` | instances that put several components into one run |
| `*_proofs` | theorems, see [Proofs](#proofs) |

`Scheduler`, `Pairing`, `CursorLedger` and `Capture` use locks as atomic variables, which is what `OwnedLock` implements (`Mutex`);
what `OwnedLock` shows to fail (finding 1) is not carried into them. `Delivery` takes the sync lock as
given: one process runs ranges, everything else that touches the files is an action beside it.
`Scheduler` knows nothing of payloads and `Delivery` nothing of the ledger; they meet in the
order collect, persist, deliver, clear that both follow. `Delivery` treats what a payload says of its days as a model
value; `Accounts` says what the server makes of it and `History` which days it has. `CursorLedger` takes its file as given and `CursorFile` shows what
the file does. An operator marked *Mutant* in a module is a plausible slip in the operation after it, not part of the specification.

**Parts.** The modules `MC…Parts`, `MCLocal`, `MCConnector`, `MCWeb` and `MCServices` hold several instances in one specification: a variable `part` says
which of them runs, a behaviour stays in its part, and the other components keep one initial state. The runs check independent components
side by side; nothing is claimed about their interleaving, because they share no state.

### OwnedLock

State: `lock` and `guard` (which file is at the two paths), `torn` (files that will never get their text), `old`
(dead processes whose unwritten files are older than `staleMs`), the guard text a process read (`seen`), the guard file it
has renamed away (`aside`), its retry flags and where it stands. `Create`,
`WriteOwner`, `Inspect*`, `GuardCreate`, `Steal` (the rename), `Verify`, `Recheck*`,
`RemoveStale`, `GuardUnlink`, `Unlink` follow owned-lock.mjs:40-169 in order. `Gone` processes
died before and may have left a lock file or a guard; `Mortal` ones may die anywhere outside the takeover,
`GuardMortal` ones inside it as well.

Abstractions: the `stat` and `readFile` of one inspection are one step; a live creator writes
its owner before `staleMs` passes; a process id is not reused; errors of the exclusive open other than
EEXIST are left out; a process acquires once. `Rounds` tells the guard tokens of one process apart.

### Scheduler

State: the ledger (`dirty`: the generation of each source), the four locks, the marker, and per process its control point,
handshake, claims and observations. Three history variables judge the ledger: `need` (the last generation given to a
source), `got` (the generation up to which its recent days were collected and persisted) and `excused` (up to which an automatic
attempt failed or a disconnect wiped). `Event/Check/Mark` are the hook's steps,
`Claim ... Unlaunch` the launch, `Start ... Remain` the loop, `Begin ... Unlock` a run of `sync`,
`LifeBegin ... Unmark` a disconnect. Every clear of the ledger goes through `Cleared`, the
comparison of generations of `clearDirty`.

Abstractions: cooldown and due times (a poll may find nothing due); the timeout of the dirty lock;
the disabled reason, the diagnostics written by `recordAutomaticSyncFailure`, the extra
condition for Cursor profiles in `clearSuccessfulDirty`. A death frees its locks at once; how a dead
owner's file is taken over is `OwnedLock`. Lifecycle commands are serialised by their own lock.

### Delivery

State: `state.json` (`seq`, `fp`, `cursor`, `intent`), its copy in the running process,
the pending, error and quarantine files, the configuration (`known`, `mapped`), what the server
stores, the running range, and the process in its final compaction. `Recover`, `Persist`, `Save`,
`ClearIntent` are the separate writes of runtime.mjs:1038-1147; `Drain`, `PostAnswered`,
`PostFails`, `Bisect`, `RefuseOne`, `DropRetired`, `Remember`, `Ack`, `Acked`, `Settle` are
`drainPending` and `deliverPendingGroup`; `TakeIn` is the upload transaction; `Inspect*` is
`reconcileServerState`; `Collect` is the collection and what it adds to the payload; `NextRange`
and `End` are the loop of `sync`. A rolling collection is numbered (`at`), so that the server's view can
be compared with the order of collections whatever sequence it is sent under.

Abstractions: content is a model value standing for entries, range and completeness; `Bad`
contents are those refused when parsed. Left out: splitting groups by size, legacy pending errors of
protocols 2 and 3, registration backfills, the selection
of sources by a command, the lifecycle marker (`Scheduler` has it). Written as one step: state and config in `Remember`; files, config and
state in `Retire`; the quarantine file and its entry; a pending file's write and the removal of
its counterpart in `Save` (a replay redoes both). No other process holds the lock between two ranges of
one sync. The compaction under the lock (viberacing.mjs:2824) changes nothing modelled.

### StateRoot

State: where the directory is (`place`), what its path is (`root`), its `entries` (which file, of what kind, private or not), the `marker`, temporary files of the marker (`stages`), the migration lock, and each opener's step and what it
has seen. `OpenRoot`, `ReadMarker`, `ListRoot`, `StatRoot`, `CheckEvidence`, `CheckAgain`, `AcquireMigration`, `Sweep`, `SecureFile`, `CheckFile`, `StageMarker`, `PublishMarker`, `Ready` are the operations of `ensurePrivateStateDirectory` in order; each may be followed by a
death (`Dies`), and an older connector, this one and the user write or remove entries at any time (`ConnectorWrites`, `OlderWrites`, `UserWrites`, `EntryRemoved`). A process that starts again is another opener. Two processes that open a fresh directory at once may make one of them fail: it fails closed.
Left out: access control lists of Windows, and what is inside the files beyond being evidence or not.

### CodexAccounts

State: the account that is signed in, the local sources with the account each is bound to, the sources the server knows, the notes of `pendingAccountRegistrations`, the queue of payloads, what the server shows, and the running sync. A sync drains, reads the identity, the usage and the identity again
(a change begins the reading once more), binds or finds the source, registers it, and on failure notes the totals; the next sync takes them up. The user switches accounts and Codex moves at any time, requests fail, the process dies. A reading is `sure` unless the user switched away and back inside it, which no
comparison before and after can see. History ranges are left out.

### CodexLineage, CodexRollouts

`CodexLineage` is the parsing of a rollout line by line and the alignment of a fork with its parent; `CodexRollouts` has Codex (external: it appends, forks, continues a thread, archives, compresses, restores) and the collection (list the sessions, list the archive, read on in each file, rebuild the events). A line is its kind, its turn,
the running total, an instant and a day. Assumed of Codex: two turns do not agree in all six counters, a legacy fork writes its settings before its first turn, and instants are told apart only as far as the order of rollouts does. Exempt from `ComponentsExact`: turns that an earlier collection read after the end of its range (`late`), and forks
read at a longer length than their parent (`Overtaken`, codex.mjs:959-991): the copied turns that the older parent does not show yet are counted as the fork's own.

### AgentHooks

State: each settings file (the user's handlers, ours, or unreadable), the installed copies and the launcher, the connected sources, the listed ones, the lifecycle lock, and in each terminal the command at work with the settings it has read. Commands are entered, wait for the lock, install or repair a copy (stage, move aside, place), write the launcher, and read and replace settings source by source; they fail and die anywhere, the user
edits settings, copies are damaged. Exempt by name: settings edited between a command's read and its replace (`raced`: config.mjs:1914 compares nothing), copies that were damaged or whose repair died (`damaged`), sources where a command failed or died or the user took hooks out (`unsettled`), and those a repair treated by a configuration that was replaced meanwhile (`stale`, viberacing.mjs:4228).
One event per settings file.

### History

State: the date, the server's `remote` (status, last rolling day, unresolved dates) and what it has had complete (`covered`), the
connector's `conf` and `local` (cursor, full retry, partial gap attempt, generation), the payload under way and the steps of the
sync. `spoiled` days are those whose store cannot be read completely, from the start. Days and years are numbers, a year has `YearLength` days.
A sync chooses a range, collects, posts, remembers the server's answer, reconciles, applies the acknowledged advance and goes on; it may die or lose the answer at each point.
One source. `overlooked` collects the days of the second disagreement below.

### JsonlScan, Reader, Capture

`JsonlScan` is the arithmetic of one pass: whether a checkpoint lets a file be skipped (`Unchanged`) or resumed (`Appended`, `ResumeAt`), how each line joins the
ledger (`Counted`), and what a tail without a newline counts for (`Provisional`). A file is an inode, lines, a tail and a stamp; hashes are the
lines themselves. `Reader` interleaves a pass (list, read each file, take the mark of its checkpoint, save everything at once) with an agent that appends,
tears, truncates, replaces and deletes, with midnight and with deaths. `Capture` is the store the connector writes itself: appends under the capture lock,
a collection with a proof, its acknowledgement in `state.json`, the merge of proofs, and a compaction that writes `state.json` from a copy it read before, renames, and writes again.

Exempt from their properties are `blind` records (beyond the range at midnight, put in place between the reading of a file and its mark, or passed over because a mark agrees with a file it was not taken of) and `early` ones (the first disagreement below). The mark is a fingerprint of the last bytes before the offset only (shared.mjs:508-518): a file rewritten
before them, with the same end in the same place, is read on and not again (`MisledBy`). To say so a checkpoint carries the lines it was taken of (`of`), which the code does not have; no step of the program looks at it.

### CursorLedger, CursorFile

`CursorLedger` folds the records into visible events, reservations, gaps and blocked sessions; stop hooks, `sessionEnd` hooks, wrappers and synchronizations append to it under a lock. Every
instant is a day; a hook runs once; a run ends in the instant of its `sessionEnd`; a process does not outlive its wrapper; each half of a run is told once; hook observations, captures from
before the start, versions and sizes are left out; a reset changes the sources of all accounts. A marked stop whose dead wrapper's run was aborted is suppressed without a gap, as in the code. `NoSilentLoss` counts a blocked session as announced.
`CursorFile` is the file with its proof file: open, observe, append, sync, prove, replace, with deaths at each step, power failures that take what was not synced, and backups put back. A line
cut in the very first record stays stuck, and bytes that one process wrote, another proved and a power failure took (`exposed`) are exempt. `repairCursorLedger` (cursor-ledger.mjs:1415) is only called by tests and not modelled.

### HooksFile, OpenCodePlugin

`HooksFile` has the four names, which of them are hard links, the steps of `mutateHooksWithCas` and of the recovery, and editors that write in place or replace the file at any step. Documents are
sequences of entries; files are compared by contents, where the code compares fingerprints. Top-level conflicts, and editors that write through a handle opened before a displacement, are left out. Versions that the code refuses to merge
(`Ambiguous`) may stay, as docs/CURSOR_EVIDENCE.md:418-424 says.

`OpenCodePlugin` has the directory (paths to files), contents, journal, recorded path and configuration; a command is a list of tasks, each step one write to the disk; deaths and failed writes come anywhere, the user edits and moves files and
changes `XDG_CONFIG_HOME`. Left out: unreadable configurations and journals, unresolved targets, symbolic links, newer schemas, access control on Windows; the window between `lstat` and `unlink` in `removeVerifiedRecoveryHardlink` is one step; the torn
stage of another version stays blocked, as in the code. `trusted` exempts the third disagreement below.

### BrowserSync, Diagnostics, Admission

`BrowserSync`: a grant is drawn, opened (also twice) and claimed under the sync lock; the handler syncs, reports, or dies; the server ages runs. `Diagnostics`: phases raise and resolve codes, a key keeps at
most `KeyLimit` transitions, a request carries the first `EventLimit`, its answer may be lost. A request the server still works on after its timeout is not modelled. `Admission`: the slots and the queue of
`ConcurrencyLimit`, three buckets of one endpoint with one window size, roll-back when one is full, the negative cache, the deletion of old buckets.

### Pairing

State: the server's installation and source rows, the connector's identity, configuration, registry, attempt and journal, the lifecycle lock, and per process its step and what it has read (`my`). One token stands for the code, the poll token
and the device token that a start makes together; the column says which. The routes are one step each; a commit of the connection writes the journal and then two files, with recovery.
`unsure` are tokens of which the user was told that their revocation could not be confirmed, or whose attempt was given up without a cancel reaching the server: a death in the middle of a cancel or after another connect replaced the attempt, a `Begin` over another attempt, the cleanup after a 401, a
reset of the installation, a start of a superseded connect that replaces a newer poll token (viberacing.mjs:1180).

### Accounts

State: sources, accounts, merge events, rows, summary, signals, the clock of tickets, and the payloads on the computers. One user, one agent; one source per approval; the lock on the user's row makes a handler one step; a redelivery follows at once; an observation
without a ticket after the cutover counts as just before it. `Cascade` (the closing of superseded merges) is the least set closed under its rule; `DayTotal` sums `AccountDay` over the accounts (or sources) with a row of the day.
The purge of pending installations is in `Pairing` (finding 5).

## Runs

| Run | Question | Bounds and why they are enough |
|---|---|---|
| `OwnedLock_contention` | Is a live owner's file safe, is it a mutex, does every acquisition end? | 4 processes. "guard": 2 dead at first, one of them inside the guard, a third may die in it, 2 tokens each. "crash": 1 dead at first, 2 mortal: a dead owner, a taker, a contender, a late starter |
| `OwnedLock_steal` | The same with 5 processes | **violated**, finding 1 |
| `Scheduler_safety` | Is an event lost, a failed generation retried, does anything outlive a disconnect? | 4 parts of 2 hooks, 2 children, 1 or 2 manual syncs, 1 lifecycle command, 1 or 2 events: ledger with failing requests and collectors, lifecycle with a revoked authorization, crashes with failing launches, cleanup with both |
| `Scheduler_live` | Do loop and lifecycle command end? | every process may die, 1 event, 1 manual sync; the cycle to break is scheduler lock against sync lock |
| `Scheduler_history` | The ledger with a history range | **violated**, finding 2 |
| `Scheduler_stranded` | Is there always someone to attempt a dirty source? | **violated**, finding 3 |
| `Local_faults` | Fingerprints, cursors and order under every fault; is the directory ours, are the hooks, the accounts and the turns of Codex right? | 5 parts. Delivery: 1 source, 2 contents of which one is refused, 3 collections (A, B, A again), 1 chunk, 2 changes, 2 losses: a payload may be stale twice. Root: 2 openers, 1 edit (of any writer, at any step). Accounts: 2 accounts and sources, 2 switches (away and back), 3 readings, 2 troubles. Rollouts: 2 rollouts, 2 turns, 2 collections, 1 turn of the day, 1 oddity or 1 skip, 4 of all these together, 2 changes inside a collection. Agents: 2 terminals, 2 sources of which one is Codex, 2 versions, 2 commands, 1 edit |
| `Delivery_compaction` | The compaction outside the lock | **violated**, finding 4 |
| `Connector_disk` | Is usage on disk lost or counted twice? | 8 parts. Cursor ledger in four casts (a run and the stop that repeats it; a run beside a stop of its session; two accounts in a session; a generation told twice), 2 or 3 instants; file: 3 records, 3 inodes, 3 faults; reader: 2 files, 3 writes, 3 records of which two share an identity, 2 days; capture: 4 days, 1 loss; history: 3-day years, 4 days across a turn of the year, at most one day that cannot be read |
| `Web_accounts` | Do both sides of a connection agree, and does the summary equal its definition? | 5 parts of pairing (2 connects; a connect and 2 commands; deaths; two agents; a restart) with 2 installations, 2 tokens; 3 parts of accounts with 2 or 3 sources on 2 computers, 2 days, 3 tickets |
| `Pairing_purge` | Does a pairing keep history? | **violated**, finding 5 |
| `Services_live` | Does what must happen eventually happen? | 8 parts: 2 sources of which one is refused, with and without a disconnect; 2 grants and handlers; 2 diagnostic sources, keys of length 2; 2 clients, 1 slot, 4 ticks; 2 edits and 2 crashes of the hooks file; 2 days of history; 2 plugin commands, 1 edit, 1 death |

The passing runs are exhaustive within their bounds (`MaxLost` of `Delivery` counts lost answers, deaths that leave an answer
unused, and lost state files, because each of them uses up a sequence; other deaths are not
bounded). Deadlock is not checked: every bounded instance stops when its events, changes and
processes are used up. `MCLocal` breaks symmetry in its actions: the first of two openers, or of two idle terminals, is the one that begins; Codex is signed in to the first of two accounts; the two agents begin with the same kind of old hooks. Each property of a passing run is violated by at least one of the listed mutants.

### Properties

* Locks: `HolderOwnsFile`, `OnlyOwnerRemoves`, `MutualExclusion` (implied by `ImplementsMutex`), `EveryAcquireReturns`.
* `NoLostEvent`: an event no rolling collection has covered is still in the ledger, unless an automatic attempt that claimed it
  failed or a disconnect wiped it. `AttemptedOnce`: no batch starts for a generation that has failed or was dropped.
  `DisconnectClean`: after a disconnect the ledger is empty, nobody else is a scheduler, no hook is about to mark.
  `NothingAfterDisconnect`: usage is never persisted for a disconnected connector. `NoStranded`: a generation created during
  an attempt has a successor by the time every process is gone. `SchedulerEnds`, `LifecycleEnds`.
* `FingerprintIsDurable`: a fingerprint the connector would skip on is what the server shows, or
  something on disk carries it. `ChunkAcknowledged`: the chunks behind a cursor were taken in.
  `DeliveredWhenDone`: after a range everything collected was taken in, refused for good or
  overtaken. `ImplementsOutbox`: repaired sequences, replays and repeated requests never bring older usage
  back, and no error outlives later usage. `SyncEnds`. `TypeOK` of `Delivery` includes that a drain has
  at most two passes, so nothing is renumbered for ever.
* `LocalInvariant`: `NothingAdopted` and `MarkedAsSeen` (a directory is marked only when what was in it is the connector's, and is still as it was when looked at under the lock), `ReadyIsPrivate`; `AttributedToOwner`, `NoOlderTotals`, `NotedIsKept`;
  `ComponentsExact`; `TheirsKept`, `HooksStart`, `AsConfigured`; and the types.
* `CompleteIsWhole`, `RemovedWasAccepted`, `CompleteYearIsWhole`: what is called complete is, what is deleted was accepted.
  `NoSilentLoss`, `TurnCountsOnce`, `LedgerIsDurable` of the Cursor ledger; `ConnectorInvariant` has the types, `StaysReadable` and `AcknowledgedWasSent`.
* `PairingConsistent` (an active installation can be reached, a source row waits for the code shown, a stored configuration can be used),
  `AbandonedIsHarmless`; `SummaryMatches`, `MergesAreReversible`, `DecisionsStand`, `LateIsMasked`; `HistoryRetained` (violated).
* `ServicesInvariant` (`OneBrowserSync`, `OutboxTellsTruth`, `AdmittedIsCounted`, `LeftoversAreKnown` and the types), `SlotsAccounted`, `NothingForeignLost`,
  `RejectionsFade`, `EveryoneLeaves`, `EventuallyUnblocked`, `EventuallySettled`, `HistorySettles`.

### Fairness

* `OwnedLock`: weak fairness of each process's steps, and strong fairness of `GiveUp`: a caller that comes back to a wait again
  and again finds its deadline passed at last.
* `Scheduler`: weak fairness of each process once it has started: Node runs a ready process, requests have timeouts, polls have
  limits. Nothing is assumed of hooks, users, faults or deaths.
* `Services_live` has one weak fairness condition on `FairStep`, the disjunction of what each part is sure to go on with (a behaviour has one part): the running range and its requests, which
  are bounded (viberacing.mjs:738-786); the ageing of runs, which is time; statements of the database, which end or time out (nothing is assumed of the waiters' own timers);
  the steps of a sync; a connector whose user repeats `doctor` or an uninstall until nothing is left to do. Nothing is assumed of editors, users, deaths or the environment.

## Findings

1. **Takeover of a guard** (`OwnedLock_steal`, owned-lock.mjs:111). The rename of a guard judged dead takes whatever
   file is there. With a dead guard and four more processes it carries a live guard off, two processes are in the
   takeover together, and two end up with the lock.
2. **History ranges clear rolling events** (`Scheduler_history`, viberacing.mjs:2846). Claims are read and
   cleared by every range, so an event between the rolling range and a history range is dropped uncollected.
3. **Launch given away** (`Scheduler_stranded`, viberacing.mjs:3711). A hook's child loses to a scheduler that is finishing, while that
   scheduler's relaunch loses to the hook's launch lock; a dirty source is left to the next hook.
4. **Compaction outside the lock** (`Delivery_compaction`, viberacing.mjs:3555). A stale copy of the state file replaces
   the one a concurrent sync wrote; a fingerprint then stands for nothing. `ImplementsOutbox` breaks the same way: a copied intent is put back and replayed over newer usage.
5. **Purge of a revoked installation** (`Pairing_purge`, pairing/start/route.ts:227). A start turns a revoked row into a pending one; if
   that pairing expires, the next start of anyone deletes the row with its sources and usage, although docs/PRIVACY.md:185 says history is retained.

Disagreements read in the code which no run is about, and which the properties exempt by name:

* *Midnight* (shared.mjs:863, range fixed at viberacing.mjs:1362 and 2840). A record of the next day appended during a sync is passed by its checkpoint; the next day's file is
  unchanged and "complete", its proof covers the record, and compaction deletes it though it was never uploaded, against packages/connector/README.md:369-371 "removes only proved records
  older than 35 days; appended, replaced, truncated, malformed, and unacknowledged bytes are retained". (`early`, `blind`)
* *Days before the first rolling range* (viberacing.mjs:1976-1998, usage/route.ts:372-402). The initial cursor is stored on one day while the first rolling range is accepted later; the days between
  are in no chunk and no gap, and the year is called complete, against docs/AGENT_SUPPORT.md:67. Only `sync --full` heals it. The same happens at the first rolling range of each new year when the one before it was in the old year. A gap reported in January for the year before is ignored (viberacing.mjs:2005). (`overlooked`)
* *A moved Codex with two accounts* (config.mjs:738-743). Sources of one profile must name one executable, and each is validated as it is stored; with two accounts bound, neither `doctor --repair` nor `connect` can store the new path, against packages/connector/README.md:50-53.
* *Plugin trusted too early* (opencode-cleanup.mjs:381-405). The journal entry of a published plugin is cleared as committed before its path is recorded; if a death comes between and
  `XDG_CONFIG_HOME` changes, an uninstall leaves it behind, against packages/connector/README.md "cleanup still reaches the verified old location". (`trusted`)
* *Newest complete observation* (usage/route.ts:624-690). A partial observation overwrites the complete row of its source, so an older complete row of another source decides the account's day, against docs/RANKING_SEMANTICS.md:50-57.
* *Blocked sessions* (cursor-ledger.mjs:342, 297, 475). Blocking hides events at times no gap covers, against docs/AGENT_SUPPORT.md:47-49.
* *doctor --repair* (viberacing.mjs:4228) reads the configuration before it takes the lifecycle lock and may install hooks again after a disconnect.
* Narrower: an accepted history chunk clears the quarantine of a refused rolling payload (viberacing.mjs:2400); a source error collected while a snapshot that is stale twice
  is pending is overtaken and not reported again (2374, usage/route.ts:752); `updateHook` reads, modifies and writes without a comparison (config.mjs:1914); a torn append of a capture glues the next record to it (runtime.mjs:632).

## Proofs

What TLC shows on a small instance, these theorems show for every value of the constants that satisfies the named
assumptions of the modules. The only assumptions added to those are fault kinds that the findings show to break the property; a
theorem that needs one names it in its hypothesis. Each `THEOREM Spec => []P` rests on an inductive invariant that TLC checked before it was proved.

| Module | Theorem | States | Rests on |
|---|---|---|---|
| `OwnedLock_proofs` | `TypeCorrect` | `TypeOK` | itself, whoever dies |
| | `OwnerKept`, `Exclusion`, `NoForeignRemoval`, `Refinement` | `HolderOwnsFile`, `MutualExclusion`, `OnlyOwnerRemoves`, `ImplementsMutex` | `IInv`: the guard file names whoever is inside, nobody inside has lost it, a file about to be removed is a dead owner's. They need that nobody dies inside the guard: finding 1 is the counterexample |
| `Scheduler_proofs` | `TypeCorrect`, `NothingPersisted` | `TypeOK`, `NothingAfterDisconnect` | `OwnersInv`: which process owns the sync and scheduler locks and the mark, `ReadConnected`, `Disconnecting` |
| | `EventsKept` | `NoLostEvent` | `LedgerInv`: entries, claims and batches of every process refer to generations that exist. Needs `MaxHistory = 0`: finding 2 |
| | `DisconnectsClean` | `DisconnectClean` | the same, without expired waits for locks |
| | `OneAttempt` | `AttemptedOnce` | the same, without crashes: a death between the failure and the clearing repeats it |
| `Delivery_proofs` | `TypeCorrect`, `CursorBehind` | `TypeOK`, `ChunkAcknowledged` | `ChunkInv`, under every fault |
| | `Refinement`, `FingerprintsStand` | `ImplementsOutbox`, `FingerprintIsDurable` | `OrderInv` (what each file, request and answer may still bring to the server, and in which order) and `FpInv` (each fingerprint is backed by what is shown, pending or intended), while no final compaction runs: finding 4 |
| | `Delivered` | `DeliveredWhenDone` | `DutyInv`: at each step of a delivery every payload collected has met its end, or is the one in its file and in a group still to be sent, or was called stale in the first pass and now carries a sequence the server has not seen. Under every fault, compaction included |
| `Pairing_proofs` | `TypeCorrect`, `Consistent`, `AbandonmentIsHarmless` | `PairingTypeOK`, `PairingConsistent`, `AbandonedIsHarmless` | `IInv`: nine parts that say, per process and step, what the files and the server's rows it has read still imply |
| `Accounts_proofs` | `AccountsTyped`, `WebTyped`, `Reversible`, `SummaryIsTrue`, `DecisionsKept`, `LateMasked` | the types, also of the composition (`WebTypeOK`), `MergesAreReversible`, `SummaryMatches`, `DecisionsStand`, `LateIsMasked` | `StructInv`: sources have homes, closed accounts are bare, former accounts stay open or empty |
| `Admission_proofs` | `SlotsKept`, `BudgetKept`, `RejectionsKept` | `SlotsAccounted`, the limits per client and endpoint, `RejectionsFade` | slots and queue agree with the jobs' states; counters agree with admissions |
| `Connector_proofs` | `LedgerSurvives` | `LedgerIsDurable` | `FileInv`: any file that may be found is sound for its proof, and what has been acknowledged is behind it |
| | `CompleteYears` | `CompleteYearIsWhole` | `HistoryInv`: for each day a pass of the year began, every day between the cursor and the rolling range of that day is observed by the server; a copy of an old report still implies that much |
| | `CompleteCollections`, `ReaderTyped` | `CompleteIsWhole` and the types | `ReaderInv`: every line a checkpoint has passed, and every line that has stood in its place since the pass listed its file, was counted or excused |
| | `CapturesKept`, `CaptureTyped` | `RemovedWasAccepted` and the types | `CaptureInv`: the segments of a waiting proof are on the server or will be with its payload; a checkpoint counted the file with its inode; what an intended result leaves out is on the server |
| `Services_proofs` | `ForeignKept` | `ForeignHooksKept` | `HooksInv`: each hook of the user's is in a file that a recovery reads, whatever a mutation has written or moved aside |
| | `PluginKept`, `NothingLost` | `UserFilesKept`, and with `ForeignKept` the run's `NothingForeignLost` | `PluginInv`: each file of the user's has a name that no step still planned takes away, as the plan unlinks only names of the connector's making, verifies what it has moved aside before it does, and finds what a step or its fallback needs |
| | `OneSync` | `OneBrowserSync` and types | `BrowserInv`: a run and its grant point at each other, and a claim holds the lock |

The attempt to prove `CompleteYears` failed at first for a good reason: a rolling range accepted on the first days of a new year was
not recognised as the year's first, so days before it counted as covered; the definition of `Overlooked` was corrected, and `Connector_disk` now crosses a turn of the year.

Induction over data is available in one form only: the induction theorems of the library take an operator as a parameter, but a least element of a set of numbers exists by a theorem about a set
(`Least` in the proof modules, from the well-foundedness of the naturals). A minimal counterexample then does the work of the induction; the sums and maxima over finite sets of `Accounts` are typed this way.

**Checked by TLC only.** Liveness (`EveryAcquireReturns`, `SchedulerEnds`, `LifecycleEnds`, `SyncEnds`, `EveryoneLeaves`, `EventuallyUnblocked`, `EventuallySettled`, `HistorySettles`) and `NoStranded`,
`HistoryRetained`, which are violated. Not proved: the records of the Cursor ledger (`NoSilentLoss`, `TurnCountsOnce`), whose fold is an operator of the community modules with an operator as parameter, so that what it computes of a log of any length is induction over data;
that no file of the OpenCode plugin is forgotten (`LeftoversAreKnown`); the diagnostics outbox; and, of the conjunctions that the runs check, the parts of `LocalInvariant` (state directory, Codex accounts and rollouts, agent hooks).

## Plan

What is left, in this order: `OutboxTellsTruth`, `LeftoversAreKnown` of the OpenCode plugin on top of `PluginInv`, the parts of `LocalInvariant` beginning with `StateRoot`, and a fold of the
Cursor ledger written as a recursive function of the log, as `Capture.Staying` is, so that it can be reasoned about.
