------------------------------ MODULE Delivery ------------------------------
(***************************************************************************)
(* How the connector turns collected usage into a server's view of it: the *)
(* state file, the pending files, the upload and its answer                *)
(* (packages/connector/bin/viberacing.mjs, lib/runtime.mjs), and the       *)
(* transaction that takes an upload in (apps/web/app/api/usage/route.ts).  *)
(*                                                                         *)
(* The holder of the sync lock runs ranges, the rolling one and then the   *)
(* chunks of this year's history.  A range replays an interrupted write,   *)
(* drains the pending files, asks the server for its sequences, collects,  *)
(* writes new sequences and fingerprints together with the payload as one  *)
(* intent, turns the intent into a pending file per source, and drains     *)
(* again.  The sources of a batch the server refuses are bisected; a stale *)
(* sequence is renumbered and sent once more.  The process may die between *)
(* any two file writes and a request or its answer may be lost.            *)
(*                                                                         *)
(* A process that has finished its ranges compacts captures without the    *)
(* lock, reading and rewriting the whole state file.                       *)
(***************************************************************************)
EXTENDS Integers, Sequences, FiniteSets, FiniteSetsExt

CONSTANTS
  Source,       \* configured sources
  Content,      \* what a rolling collection may find: entries and completeness
  Bad,          \* contents the server refuses as an invalid payload
  None,         \* no file, no fingerprint
  Error,        \* fingerprint and payload of a failed collection
  Chunks,       \* history chunks of the year, numbered from the newest, 0
  Faults,       \* what may go wrong
  MaxChanges,   \* bound: changes of the usage of a source
  MaxMade,      \* bound: rolling collections of a source that are written
  MaxLost       \* bound: answers the connector never acts on, state files it loses

FaultKinds ==
  {"network", "lost", "crash", "collector", "disconnect", "stateLost", "compaction"}

ASSUME ConstantsAssumption ==
  /\ Bad \subseteq Content
  /\ None \notin Content /\ Error \notin Content /\ None # Error
  /\ Chunks \in Nat /\ MaxChanges \in Nat /\ MaxMade \in Nat /\ MaxLost \in Nat
  /\ (Content \cup {Error}) \cap (0 .. (Chunks - 1)) = {}
  /\ None \notin [seq : Nat, data : Content \cup {Error} \cup (0 .. (Chunks - 1)), at : Nat]
  /\ Faults \subseteq FaultKinds

VARIABLES
  usage,       \* what a collector would find now
  state,       \* state.json
  mem,         \* the copy the running range works on
  pending,     \* <sourceId>.snapshot.json: the snapshot to deliver
  error,       \* <sourceId>.error.json: the source error to deliver
  quarantine,  \* the refused payload of each source
  known,       \* config: lastAcceptedSyncSequence
  mapped,      \* config: the sources
  server,      \* what the server stores
  run,         \* the process that holds the sync lock
  compact,     \* the process in its final compaction
  made,        \* rolling collections written so far
  changes, losses

files == <<pending, error, quarantine>>
config == <<known, mapped>>
world == <<usage, changes>>
vars == <<state, mem, files, config, server, run, compact, made, losses, world>>

Rolling == -1                           \* the range that is not a chunk
Chunk == 0 .. (Chunks - 1)
Nowhere == [s \in Source |-> None]

(* A payload: a rolling snapshot, a chunk or a source error.  The sequence *)
(* of an error is its observedAfterSequence.                               *)
Item(sequence, what, number) == [seq |-> sequence, data |-> what, at |-> number]

NewState ==
  [seq |-> [s \in Source |-> 0], fp |-> Nowhere, cursor |-> [s \in Source |-> 0],
   intent |-> Nowhere, missing |-> {}]

Idle ==
  [pc |-> "idle", auto |-> FALSE, range |-> Rolling, scope |-> {}, stage |-> "before",
   pass |-> 1, saving |-> {}, work |-> <<>>, todo |-> {}, cur |-> None, taken |-> {},
   stale |-> {}, retired |-> {}, blocked |-> {}, tried |-> {}, barren |-> FALSE]

Init ==
  /\ usage \in [Source -> Content]
  /\ state = NewState /\ mem = NewState
  /\ pending = Nowhere /\ error = Nowhere /\ quarantine = Nowhere
  /\ known = [s \in Source |-> 0] /\ mapped = Source
  /\ server = [last |-> [s \in Source |-> 0], shown |-> [s \in Source |-> Item(0, None, 0)],
               chunks |-> [s \in Source |-> {}], failing |-> [s \in Source |-> 0],
               active |-> Source]
  /\ run = Idle
  /\ compact = [pc |-> "off", copy |-> NewState]
  /\ made = [s \in Source |-> 0]
  /\ changes = 0 /\ losses = 0

At(pc) == run.pc = pc

(* The process leaves with what is on disk. *)
Leaves == run' = Idle /\ mem' = NewState

-----------------------------------------------------------------------------
(* sync: the rolling range and the history ranges after it *)

Begin ==
  /\ At("idle") /\ mapped # {}
  /\ \E automatic \in BOOLEAN :
       run' = [Idle EXCEPT !.pc = "recover", !.auto = automatic, !.scope = Source]
  /\ UNCHANGED <<state, mem, files, config, server, compact, made, losses, world>>

(* The candidates whose cursor is the most recent form the next range. *)
Candidates ==
  {s \in mapped \ run.blocked : state.cursor[s] \in Chunk /\ <<s, state.cursor[s]>> \notin run.tried}

(* A history range that moved no cursor is not tried again. *)
NoProgress ==
  /\ run.range # Rolling
  /\ run.scope \subseteq mapped \ run.blocked
  /\ \A s \in run.scope : state.cursor[s] = run.range

MoreHistory ==
  /\ ~(run.auto /\ run.range # Rolling)
  /\ ~(NoProgress /\ run.range # Chunks - 1)
  /\ Candidates # {}

NextRange ==
  /\ At("done") /\ MoreHistory
  /\ LET from == Min({state.cursor[s] : s \in Candidates})
         scope == {s \in Candidates : state.cursor[s] = from}
     IN  run' = [Idle EXCEPT !.pc = "recover", !.auto = run.auto, !.range = from, !.scope = scope,
                   !.blocked = run.blocked,
                   !.tried = run.tried \cup {<<s, from>> : s \in scope}]
  /\ mem' = NewState
  /\ UNCHANGED <<state, files, config, server, compact, made, losses, world>>

(* The last range is over; the process goes on to its final compaction,    *)
(* unless it throws because an older range is left and nothing moved.      *)
End ==
  /\ At("done") /\ ~MoreHistory
  /\ Leaves
  /\ compact' = IF /\ "compaction" \in Faults /\ compact.pc = "off"
                   /\ ~(NoProgress /\ run.range # Chunks - 1)
                THEN [compact EXCEPT !.pc = "begin"] ELSE compact
  /\ UNCHANGED <<state, files, config, server, made, losses, world>>

-----------------------------------------------------------------------------
(* recoverPendingWrite, persistPendingWrite, savePending *)

Written(items) == {s \in Source : items[s] # None}

Recover ==
  /\ At("recover")
  /\ IF state.intent = Nowhere
     THEN run' = [run EXCEPT !.pc = "drain"] /\ UNCHANGED mem
     ELSE /\ run' = [run EXCEPT !.pc = "save", !.saving = Written(state.intent)]
          /\ mem' = state
  /\ UNCHANGED <<state, files, config, server, compact, made, losses, world>>

(* Mutation: the intent is left out of the state that is written first. *)
PersistWithoutIntent ==
  /\ At("persist")
  /\ state' = [mem EXCEPT !.intent = Nowhere]
  /\ run' = [run EXCEPT !.pc = "save", !.saving = Written(mem.intent), !.stage = "after"]
  /\ UNCHANGED <<mem, files, config, server, compact, made, losses, world>>

(* Mutation: the cursor moves with the collection, not with the answer. *)
PersistAdvancing ==
  /\ At("persist")
  /\ state' = [mem EXCEPT !.cursor = [s \in Source |->
                 IF run.range # Rolling /\ mem.intent[s] # None THEN run.range + 1 ELSE @[s]]]
  /\ run' = [run EXCEPT !.pc = "save", !.saving = Written(mem.intent), !.stage = "after"]
  /\ UNCHANGED <<mem, files, config, server, compact, made, losses, world>>

(* State, sequences, fingerprints and the intent in one atomic rename.     *)
Persist ==
  /\ At("persist")
  /\ state' = mem
  /\ run' = [run EXCEPT !.pc = "save", !.saving = Written(mem.intent), !.stage = "after"]
  /\ UNCHANGED <<mem, files, config, server, compact, made, losses, world>>

(* One pending file; a snapshot replaces the error of its source. *)
Save(s) ==
  /\ At("save") /\ s \in run.saving
  /\ LET item == mem.intent[s]
     IN  /\ pending' = IF item.data = Error THEN pending ELSE [pending EXCEPT ![s] = item]
         /\ error' = [error EXCEPT ![s] = IF item.data = Error THEN item ELSE None]
  /\ run' = [run EXCEPT !.saving = @ \ {s}]
  /\ UNCHANGED <<state, mem, quarantine, config, server, compact, made, losses, world>>

ClearIntent ==
  /\ At("save") /\ run.saving = {}
  /\ state' = [mem EXCEPT !.intent = Nowhere]
  /\ run' = [run EXCEPT !.pc = "drain"]
  /\ mem' = IF run.stage = "before" THEN NewState ELSE mem
  /\ UNCHANGED <<files, config, server, compact, made, losses, world>>

-----------------------------------------------------------------------------
(* drainPending and deliverPendingGroup *)

(* Snapshots first, then errors, as they are read here; the files of       *)
(* unmapped sources are removed.                                           *)
Drain ==
  /\ At("drain")
  /\ pending' = [s \in Source |-> IF s \in mapped THEN pending[s] ELSE None]
  /\ error' = [s \in Source |-> IF s \in mapped THEN error[s] ELSE None]
  /\ LET Files(errors, file) ==
           LET of == {s \in run.scope : file[s] # None}
           IN  IF of = {} THEN <<>> ELSE << [errors |-> errors, of |-> of, item |-> file] >>
     IN  run' = [run EXCEPT !.pc = "post", !.stale = {}, !.retired = {},
                   !.work = Files(FALSE, pending') \o Files(TRUE, error')]
  /\ UNCHANGED <<state, mem, quarantine, config, server, compact, made, losses, world>>

Group == Head(run.work)
Batch == Group.of

(* post: the whole batch is one transaction. *)
Refused ==
  \E s \in Batch : s \notin server.active \/ Group.item[s].data \in Bad

Fresh == {s \in Batch : ~Group.errors /\ server.last[s] < Group.item[s].seq}

FreshRolling == {s \in Fresh : Group.item[s].data \in Content}

(* Mutation: usage does not clear the collector error. *)
TakeInKeepingError ==
  server' = [server EXCEPT
    !.last = [s \in Source |-> IF s \in Fresh THEN Group.item[s].seq ELSE @[s]],
    !.shown = [s \in Source |-> IF s \in FreshRolling THEN Group.item[s] ELSE @[s]],
    !.chunks = [s \in Source |-> IF s \in Fresh \ FreshRolling
                                 THEN @[s] \cup {Group.item[s].data} ELSE @[s]],
    !.failing = [s \in Source |->
                   IF Group.errors /\ s \in Batch /\ server.last[s] = Group.item[s].seq
                   THEN Group.item[s].at ELSE @[s]]]

(* Only a later sequence is taken in.  An error counts only while nothing  *)
(* was taken in since; usage ends it.                                      *)
TakeIn ==
  server' = [server EXCEPT
    !.last = [s \in Source |-> IF s \in Fresh THEN Group.item[s].seq ELSE @[s]],
    !.shown = [s \in Source |-> IF s \in FreshRolling THEN Group.item[s] ELSE @[s]],
    !.chunks = [s \in Source |-> IF s \in Fresh \ FreshRolling
                                 THEN @[s] \cup {Group.item[s].data} ELSE @[s]],
    !.failing = [s \in Source |->
                   IF s \in FreshRolling THEN 0
                   ELSE IF Group.errors /\ s \in Batch /\ server.last[s] = Group.item[s].seq
                   THEN Group.item[s].at ELSE @[s]]]

Posting == At("post") /\ run.work # <<>> /\ Batch \cap run.retired = {}

(* The answer arrives.  When an earlier attempt of the same request had    *)
(* already been taken in, it says that nothing was accepted.               *)
PostAnswered ==
  /\ Posting /\ ~Refused
  /\ TakeIn
  /\ \E again \in BOOLEAN :
       /\ again => "lost" \in Faults /\ losses < MaxLost /\ Fresh # {}
       /\ losses' = IF again THEN losses + 1 ELSE losses
       /\ run' = [run EXCEPT !.pc = "remember", !.taken = IF again THEN {} ELSE Fresh]
  /\ UNCHANGED <<state, mem, files, config, compact, made, world>>

(* Every attempt was taken in or not, and no answer arrived. *)
PostFails ==
  /\ Posting
  /\ \/ "network" \in Faults /\ UNCHANGED <<server, losses>>
     \/ /\ "lost" \in Faults /\ losses < MaxLost /\ ~Refused
        /\ TakeIn /\ losses' = losses + 1
  /\ Leaves
  /\ UNCHANGED <<state, files, config, compact, made, world>>

(* Mutation: the second half is forgotten. *)
BisectFirstHalf ==
  /\ Posting /\ Refused /\ Cardinality(Batch) > 1
  /\ \E left \in SUBSET Batch :
       /\ Cardinality(left) = (Cardinality(Batch) + 1) \div 2
       /\ run' = [run EXCEPT !.work = <<[Group EXCEPT !.of = left]>> \o Tail(@)]
  /\ UNCHANGED <<state, mem, files, config, server, compact, made, losses, world>>

(* Mutation: the middle is one too far, so a pair is never split. *)
BisectWhole ==
  /\ Posting /\ Refused /\ Cardinality(Batch) > 1
  /\ \E left \in SUBSET Batch :
       /\ Cardinality(left) = Min({Cardinality(Batch), (Cardinality(Batch) + 2) \div 2})
       /\ run' = [run EXCEPT !.work =
                    SelectSeq(<< [Group EXCEPT !.of = left], [Group EXCEPT !.of = Batch \ left] >>,
                              LAMBDA g : g.of # {}) \o Tail(@)]
  /\ UNCHANGED <<state, mem, files, config, server, compact, made, losses, world>>

(* 400 for more than one item: the two halves are delivered on their own.  *)
Bisect ==
  /\ Posting /\ Refused /\ Cardinality(Batch) > 1
  /\ \E left \in SUBSET Batch :
       /\ Cardinality(left) = (Cardinality(Batch) + 1) \div 2
       /\ run' = [run EXCEPT !.work =
                    << [Group EXCEPT !.of = left], [Group EXCEPT !.of = Batch \ left] >> \o Tail(@)]
  /\ UNCHANGED <<state, mem, files, config, server, compact, made, losses, world>>

RemoveFile(s) ==
  IF Group.errors THEN error' = [error EXCEPT ![s] = None] /\ UNCHANGED pending
                  ELSE pending' = [pending EXCEPT ![s] = None] /\ UNCHANGED error

(* 400 for one item: a payload the server will never take is quarantined,  *)
(* a disconnected source is retired.                                       *)
RefuseOne ==
  /\ Posting /\ Refused
  /\ \E s \in Batch :
       /\ Batch = {s}
       /\ RemoveFile(s)
       /\ IF Group.item[s].data \in Bad
          THEN /\ quarantine' = [quarantine EXCEPT ![s] = Group.item[s].data]
               /\ run' = [run EXCEPT !.work = Tail(@), !.blocked = @ \cup {s}]
          ELSE /\ run' = [run EXCEPT !.work = Tail(@), !.retired = @ \cup {s}]
               /\ UNCHANGED quarantine
  /\ UNCHANGED <<state, mem, config, server, compact, made, losses, world>>

(* The error files of sources retired a moment ago are dropped unsent. *)
DropRetired ==
  /\ At("post") /\ run.work # <<>> /\ Batch \cap run.retired # {}
  /\ LET left == Batch \ run.retired
     IN  run' = [run EXCEPT !.work = (IF left = {} THEN <<>> ELSE <<[Group EXCEPT !.of = left]>>)
                                     \o Tail(@)]
  /\ error' = [s \in Source |-> IF s \in run.retired THEN None ELSE error[s]]
  /\ UNCHANGED <<state, mem, pending, quarantine, config, server, compact, made, losses, world>>

Later(mine, reported) == IF mine < reported THEN reported ELSE mine

(* rememberServerSequences *)
Remember ==
  /\ At("remember")
  /\ known' = [s \in Source |-> IF s \in Batch THEN server.last[s] ELSE known[s]]
  /\ state' = [state EXCEPT
       !.seq = [s \in Source |-> IF s \in Batch THEN Later(@[s], server.last[s]) ELSE @[s]],
       !.missing = @ \ Batch]
  /\ run' = [run EXCEPT !.pc = "ack", !.todo = Batch]
  /\ UNCHANGED <<mem, files, mapped, server, compact, made, losses, world>>

Stale(s) == ~Group.errors /\ s \notin run.taken

(* A stale snapshot is saved again as server + 1; the cursor of an         *)
(* accepted chunk advances before its file is removed.                     *)
Ack(s) ==
  /\ At("ack") /\ s \in run.todo
  /\ run' = [run EXCEPT !.pc = "acked", !.cur = s]
  /\ IF Stale(s)
     THEN /\ pending' = [pending EXCEPT ![s].seq = known[s] + 1]
          /\ error' = [error EXCEPT ![s] = None]
          /\ UNCHANGED state
     ELSE /\ state' = IF ~Group.errors /\ Group.item[s].data \in Chunk
                      THEN [state EXCEPT !.cursor[s] = Group.item[s].data + 1] ELSE state
          /\ UNCHANGED <<pending, error>>
  /\ UNCHANGED <<mem, quarantine, config, server, compact, made, losses, world>>

Acked ==
  /\ At("acked")
  /\ LET s == run.cur
         left == run.todo \ {s}
         next == [run EXCEPT !.pc = IF left = {} THEN "post" ELSE "ack", !.todo = left,
                             !.work = IF left = {} THEN Tail(@) ELSE @]
     IN  IF Stale(s)
         THEN /\ state' = [state EXCEPT !.seq[s] = pending[s].seq]
              /\ run' = [next EXCEPT !.stale = @ \cup {s}]
              /\ UNCHANGED files
         ELSE /\ RemoveFile(s)
              /\ quarantine' = IF Group.errors THEN quarantine
                               ELSE [quarantine EXCEPT ![s] = None]
              /\ run' = next
              /\ UNCHANGED state
  /\ UNCHANGED <<mem, config, server, compact, made, losses, world>>

(* retireMappedSources *)
Retire(gone) ==
  /\ mapped' = mapped \ gone
  /\ pending' = [s \in Source |-> IF s \in gone THEN None ELSE pending[s]]
  /\ error' = [s \in Source |-> IF s \in gone THEN None ELSE error[s]]
  /\ quarantine' = [s \in Source |-> IF s \in gone THEN None ELSE quarantine[s]]

Forgotten(st, gone) ==
  [st EXCEPT !.seq = [s \in Source |-> IF s \in gone THEN 0 ELSE @[s]],
             !.fp = [s \in Source |-> IF s \in gone THEN None ELSE @[s]],
             !.cursor = [s \in Source |-> IF s \in gone THEN 0 ELSE @[s]],
             !.missing = @ \ gone]

(* Mutation: stale payloads are sent again as long as there are any. *)
SettleUnbounded ==
  /\ At("post") /\ run.work = <<>>
  /\ Retire(run.retired)
  /\ state' = Forgotten(state, run.retired)
  /\ LET again == run.stale # {}
         next == [run EXCEPT !.pass = IF again THEN @ + 1 ELSE 1, !.blocked = @ \cup run.retired]
     IN  IF ~again /\ run.stage = "after" /\ run.barren
         THEN Leaves
         ELSE /\ run' = [next EXCEPT !.pc = IF again THEN "drain"
                                           ELSE IF run.stage = "before" THEN "inspect" ELSE "done"]
              /\ UNCHANGED mem
  /\ UNCHANGED <<known, server, compact, made, losses, world>>

(* All groups are through: retire, then one more drain for stale payloads. *)
(* A range that collected nothing but failures throws after its delivery.  *)
Settle ==
  /\ At("post") /\ run.work = <<>>
  /\ Retire(run.retired)
  /\ state' = Forgotten(state, run.retired)
  /\ LET again == run.stale # {} /\ run.pass = 1
         next == [run EXCEPT !.pass = IF again THEN 2 ELSE 1, !.blocked = @ \cup run.retired]
     IN  IF ~again /\ run.stage = "after" /\ run.barren
         THEN Leaves
         ELSE /\ run' = [next EXCEPT !.pc = IF again THEN "drain"
                                           ELSE IF run.stage = "before" THEN "inspect" ELSE "done"]
              /\ UNCHANGED mem
  /\ UNCHANGED <<known, server, compact, made, losses, world>>

-----------------------------------------------------------------------------
(* reconcileServerState, collection *)

(* Asked at an interval, and whenever a sequence is missing.  A finished   *)
(* year is learnt from the server.                                         *)
Inspect ==
  /\ At("inspect")
  /\ LET gone == mapped \ server.active
         kept == mapped \cap server.active
     IN  /\ Retire(gone)
         /\ known' = [s \in Source |-> IF s \in kept THEN server.last[s] ELSE known[s]]
         /\ state' = [Forgotten(state, gone) EXCEPT
              !.seq = [s \in Source |-> IF s \in kept THEN Later(@[s], server.last[s]) ELSE @[s]],
              !.cursor = [s \in Source |-> IF s \in kept /\ (Chunks - 1) \in server.chunks[s]
                                           THEN Chunks ELSE @[s]],
              !.missing = {}]
  /\ mem' = state'
  /\ run' = [run EXCEPT !.pc = "collect"]
  /\ UNCHANGED <<server, compact, made, losses, world>>

InspectSkipped ==
  /\ At("inspect") /\ state.missing \cap mapped = {}
  /\ mem' = state
  /\ run' = [run EXCEPT !.pc = "collect"]
  /\ UNCHANGED <<state, files, config, server, compact, made, losses, world>>

InspectFails ==
  /\ At("inspect") /\ state.missing \cap mapped # {} /\ "network" \in Faults
  /\ Leaves
  /\ UNCHANGED <<state, files, config, server, compact, made, losses, world>>

(* A requested source was retired, or its cursor moved, in the meantime. *)
CollectThrows ==
  /\ At("collect") /\ run.range # Rolling
  /\ ~(run.scope \subseteq mapped) \/ \E s \in run.scope : mem.cursor[s] # run.range
  /\ Leaves
  /\ UNCHANGED <<state, files, config, server, compact, made, losses, world>>

(* What the collection of a source ends with: usage, a failure, nothing    *)
(* because another account of the provider is active, or no collection     *)
(* because no hook has marked the source.                                  *)
Outcomes ==
  {"usage", "inactive"} \cup (IF "collector" \in Faults THEN {"failure"} ELSE {})
                        \cup (IF run.auto /\ run.range = Rolling THEN {"unmarked"} ELSE {})

(* An automatic sync leaves out usage whose fingerprint is unchanged; a    *)
(* failure is reported once.                                               *)
Contribution(s, outcome) ==
  CASE outcome = "usage" /\ run.range # Rolling -> Item(mem.seq[s] + 1, run.range, made[s])
    [] outcome = "usage" /\ run.range = Rolling /\ ~(run.auto /\ mem.fp[s] = usage[s]) ->
         Item(mem.seq[s] + 1, usage[s], made[s] + 1)
    [] outcome = "failure" /\ run.range = Rolling /\ mem.fp[s] # Error ->
         Item(known[s], Error, made[s] + 1)
    [] OTHER -> None

Collect ==
  /\ At("collect")
  /\ \E outcome \in [mapped \cap run.scope -> Outcomes] :
       LET Ended(how) == {s \in DOMAIN outcome : outcome[s] = how}
           items == [s \in Source |-> IF s \in DOMAIN outcome THEN Contribution(s, outcome[s])
                                      ELSE None]
           new == Written(items)
           rolling == IF run.range = Rolling THEN new ELSE {}
           next == [mem EXCEPT
                      !.seq = [s \in Source |-> IF s \in new /\ items[s].data # Error
                                                THEN @[s] + 1 ELSE @[s]],
                      !.fp = [s \in Source |-> IF s \in rolling THEN items[s].data ELSE @[s]]]
       IN  /\ run.range # Rolling =>
                /\ run.scope \subseteq mapped
                /\ \A s \in Ended("usage") : mem.cursor[s] = run.range
           /\ \A s \in rolling : made[s] < MaxMade
           /\ made' = [s \in Source |-> IF s \in rolling THEN made[s] + 1 ELSE made[s]]
           /\ IF new = {}
              THEN state' = next /\ mem' = NewState
              ELSE mem' = [next EXCEPT !.intent = items] /\ UNCHANGED state
           /\ run' = [run EXCEPT
                !.pc = IF new = {} THEN "done" ELSE "persist",
                !.barren = new # {} /\ Ended("usage") = {},
                !.blocked = @ \cup Ended("inactive")
                              \cup (IF run.range = Rolling THEN {} ELSE Ended("failure"))]
  /\ UNCHANGED <<files, config, server, compact, losses, world>>

-----------------------------------------------------------------------------
(* The rest of the world *)

(* Usage is recorded, or corrected back to what it was. *)
Change(s) ==
  /\ changes < MaxChanges
  /\ \E c \in Content \ {usage[s]} : usage' = [usage EXCEPT ![s] = c]
  /\ changes' = changes + 1
  /\ UNCHANGED <<state, mem, files, config, server, run, compact, made, losses>>

(* A death anywhere.  One that leaves an answer unused makes a sequence be *)
(* used up, so it counts towards the bound.                                *)
Crash ==
  /\ "crash" \in Faults /\ ~At("idle")
  /\ IF run.pc \in {"remember", "ack", "acked"} \/ run.retired # {}
     THEN losses < MaxLost /\ losses' = losses + 1
     ELSE UNCHANGED losses
  /\ Leaves
  /\ UNCHANGED <<state, files, config, server, compact, made, world>>

(* The source is disconnected in the dashboard. *)
Disconnect(s) ==
  /\ "disconnect" \in Faults /\ s \in server.active
  /\ server' = [server EXCEPT !.active = @ \ {s}]
  /\ UNCHANGED <<state, mem, files, config, run, compact, made, losses, world>>

(* The connector loses its state file. *)
LoseState ==
  /\ "stateLost" \in Faults /\ At("idle") /\ losses < MaxLost
  /\ state' = [NewState EXCEPT !.missing = Source]
  /\ losses' = losses + 1
  /\ UNCHANGED <<mem, files, config, server, run, compact, made, world>>

(* compactPendingCaptures after the last range, without the sync lock; the *)
(* instance has one process that gets to it.                               *)
CompactRead ==
  /\ compact.pc = "begin"
  /\ \E s \in mapped : pending[s] = None /\ quarantine[s] = None /\ server.shown[s].at > 0
  /\ compact' = [pc |-> "write", copy |-> state]
  /\ UNCHANGED <<state, mem, files, config, server, run, made, losses, world>>

(* Before and after the capture file is replaced. *)
CompactWrite ==
  /\ compact.pc \in {"write", "rewrite"}
  /\ state' = compact.copy
  /\ compact' = IF compact.pc = "write" THEN [compact EXCEPT !.pc = "rewrite"]
                ELSE [pc |-> "over", copy |-> NewState]
  /\ UNCHANGED <<mem, files, config, server, run, made, losses, world>>

(* Nothing to compact, or a death on the way. *)
CompactEnds ==
  /\ compact.pc \in {"begin", "write", "rewrite"}
  /\ compact' = [pc |-> "over", copy |-> NewState]
  /\ UNCHANGED <<state, mem, files, config, server, run, made, losses, world>>

-----------------------------------------------------------------------------

Deliver ==
  \/ Drain \/ PostAnswered \/ PostFails \/ Bisect \/ RefuseOne \/ DropRetired
  \/ Remember \/ (\E s \in Source : Ack(s)) \/ Acked \/ Settle

RangeStep ==
  \/ Recover \/ Persist \/ (\E s \in Source : Save(s)) \/ ClearIntent
  \/ Inspect \/ InspectSkipped \/ InspectFails \/ CollectThrows \/ Collect
  \/ NextRange \/ End

Compaction == CompactRead \/ CompactWrite \/ CompactEnds

Next ==
  \/ Begin \/ RangeStep \/ Deliver \/ Crash \/ LoseState \/ Compaction
  \/ \E s \in Source : Change(s) \/ Disconnect(s)

Spec == Init /\ [][Next]_vars

(* The process that runs a range is scheduled, every request is bounded. *)
FairSpec == Spec /\ WF_vars(RangeStep \/ Deliver)

-----------------------------------------------------------------------------
(* Properties *)

Items == [seq : Nat, data : Content \cup {Error} \cup Chunk, at : Nat]

StateType ==
  [seq : [Source -> Nat], fp : [Source -> Content \cup {Error, None}],
   cursor : [Source -> 0 .. Chunks], intent : [Source -> Items \cup {None}],
   missing : SUBSET Source]

(* The type of the state.  A payload the server calls stale is renumbered  *)
(* and sent once more, no oftener: a drain has two passes.                 *)
TypeOK ==
  /\ usage \in [Source -> Content] /\ changes \in 0 .. MaxChanges /\ losses \in 0 .. MaxLost
  /\ made \in [Source -> 0 .. MaxMade]
  /\ state \in StateType /\ mem \in StateType
  /\ compact.pc \in {"off", "begin", "write", "rewrite", "over"} /\ compact.copy \in StateType
  /\ pending \in [Source -> Items \cup {None}] /\ error \in [Source -> Items \cup {None}]
  /\ quarantine \in [Source -> Bad \cup {None}]
  /\ known \in [Source -> Nat] /\ mapped \subseteq Source
  /\ server.last \in [Source -> Nat] /\ server.chunks \in [Source -> SUBSET Chunk]
  /\ \A s \in Source : server.shown[s].data \in (Content \ Bad) \cup {None}
  /\ server.failing \in [Source -> Nat] /\ server.active \subseteq Source
  /\ run.pc \in {"idle", "recover", "save", "drain", "post", "remember", "ack", "acked",
                 "inspect", "collect", "persist", "done"}
  /\ run.range \in Chunk \cup {Rolling} /\ run.pass \in 1 .. 2
  /\ UNION {run.scope, run.saving, run.todo, run.taken, run.stale, run.retired, run.blocked}
       \subseteq Source

(* An automatic sync skips usage whose fingerprint is unchanged, so a      *)
(* fingerprint must stand for something durable: the server shows usage    *)
(* with that fingerprint, or a pending file or the intent carries it.      *)
(* Crashes fall between the writes, answers are lost, errors intervene.    *)
(* A source disconnected on the server is forgotten a little later.        *)
FingerprintIsDurable ==
  \A s \in mapped \cap server.active :
    state.fp[s] \in Content \ Bad =>
      \/ server.shown[s].data = state.fp[s]
      \/ pending[s] # None /\ pending[s].data = state.fp[s]
      \/ state.intent[s] # None /\ state.intent[s].data = state.fp[s]

(* A range that ends well has delivered: whatever it collected the server  *)
(* has taken in, or refused for good, or an error was overtaken by usage.  *)
DeliveredWhenDone ==
  (At("done") /\ run.stage = "after") =>
    \A s \in mapped : mem.intent[s] # None =>
      LET item == mem.intent[s]
      IN  \/ item.data \in Content \ Bad /\ server.shown[s].at >= item.at
          \/ item.data \in Chunk /\ item.data \in server.chunks[s]
          \/ item.data \in Bad /\ quarantine[s] = item.data
          \/ item.data = Error /\ (server.failing[s] = item.at \/ server.last[s] > item.seq)

(* The cursor of the history never runs ahead of the server: the chunks    *)
(* behind it were taken in.  It moves after the answer and before the      *)
(* pending file goes, so a crash between the two sends the chunk again.    *)
ChunkAcknowledged ==
  \A s \in Source : \A n \in Chunk : n < state.cursor[s] => n \in server.chunks[s]

(* The server's view of a source only moves forward: repaired sequences,   *)
(* replayed intents and repeated requests never bring older usage back,    *)
(* and an error never outlives the usage that follows it.                  *)
O == INSTANCE Outbox WITH
  shown <- [s \in Source |-> server.shown[s].at], failing <- server.failing

ImplementsOutbox == O!Spec

(* No endless retry: whatever the server answers, a sync comes to an end.  *)
SyncEnds == ~At("idle") ~> At("idle")

=============================================================================
