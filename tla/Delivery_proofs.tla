---------------------------- MODULE Delivery_proofs ----------------------------
(***************************************************************************)
(* Proofs about Delivery: its type invariant, that the cursor of the       *)
(* history never runs ahead of the server, that it implements Outbox, that *)
(* fingerprints stand for something durable, and that a range that ends    *)
(* well has delivered what it collected.                                   *)
(***************************************************************************)
EXTENDS Delivery, TLAPS, SequenceTheorems, NaturalsInduction, WellFoundedInduction

(* What a pending file holds, and what an error file holds. *)
Snapshots == [seq : Nat, data : Content \cup Chunk, at : Nat]
Failures == [seq : Nat, data : {Error}, at : Nat]

(* Files that are delivered together. *)
Groups == [errors : BOOLEAN, of : SUBSET Source, item : [Source -> Items \cup {None}]]

PCs == {"idle", "recover", "save", "drain", "post", "remember", "ack", "acked",
        "inspect", "collect", "persist", "done"}

Delivering == {"post", "remember", "ack", "acked"}

Runs ==
  [pc : PCs, auto : BOOLEAN, range : Chunk \cup {Rolling}, scope : SUBSET Source,
   stage : {"before", "after"}, pass : 1 .. 2, saving : SUBSET Source, work : Seq(Groups),
   todo : SUBSET Source, cur : Source \cup {None}, taken : SUBSET Source,
   stale : SUBSET Source, retired : SUBSET Source, blocked : SUBSET Source,
   tried : SUBSET (Source \X Chunk), barren : BOOLEAN]

Views ==
  [last : [Source -> Nat],
   shown : [Source -> [seq : Nat, data : (Content \ Bad) \cup {None}, at : Nat]],
   chunks : [Source -> SUBSET Chunk], failing : [Source -> Nat], active : SUBSET Source]

Compacts == [pc : {"off", "begin", "write", "rewrite", "over"}, copy : StateType]

FilesOK ==
  /\ pending \in [Source -> Snapshots \cup {None}] /\ error \in [Source -> Failures \cup {None}]
  /\ quarantine \in [Source -> Bad \cup {None}]

DiskOK ==
  /\ state \in StateType /\ mem \in StateType /\ compact \in Compacts
  /\ known \in [Source -> Nat] /\ mapped \subseteq Source

WorldOK ==
  /\ usage \in [Source -> Content] /\ changes \in 0 .. MaxChanges /\ losses \in 0 .. MaxLost
  /\ made \in [Source -> 0 .. MaxMade]

(* What the position of the run says about the rest of it. *)
RunOK ==
  /\ run \in Runs
  /\ run.work # <<>> => run.pc \in Delivering
  /\ run.pc \in {"remember", "ack", "acked"} => run.work # <<>>
  /\ run.pc \in {"ack", "acked"} => run.todo \subseteq Batch
  /\ run.pc = "acked" => run.cur \in run.todo
  /\ run.pc = "save" => \A s \in run.saving : mem.intent[s] \in Items

(* What is still to be delivered of a group: all of it, or what is left of *)
(* the first one once the server has answered.                             *)
Due(i) == IF i = 1 /\ run.pc \in {"ack", "acked"} THEN run.todo ELSE run.work[i].of

Filled ==
  \A i \in DOMAIN run.work : \A s \in run.work[i].of :
    run.work[i].item[s] \in (IF run.work[i].errors THEN Failures ELSE Snapshots)

(* No two groups of snapshots have a source in common. *)
Apart ==
  \A i, j \in DOMAIN run.work :
    i # j /\ ~run.work[i].errors /\ ~run.work[j].errors =>
      run.work[i].of \cap run.work[j].of = {}

(* A snapshot that is due is still in its file, whatever its sequence. *)
OnFile ==
  \A i \in DOMAIN run.work : ~run.work[i].errors =>
    \A s \in Due(i) : /\ pending[s] \in Snapshots
                      /\ pending[s].data = run.work[i].item[s].data
                      /\ pending[s].at = run.work[i].item[s].at

WorkOK == Filled /\ Apart /\ OnFile

TInv == DiskOK /\ FilesOK /\ WorldOK /\ server \in Views /\ RunOK /\ WorkOK

USE DEF Chunk, Rolling, Items, StateType, Snapshots, Failures

-----------------------------------------------------------------------------
(* Sequences and sets *)

(* A nonempty set of naturals has a least element, and Min yields it. *)
LEMMA MinIs ==
  ASSUME NEW T \in SUBSET Nat, T # {}
  PROVE  Min(T) \in T /\ \A y \in T : Min(T) <= y
<1> DEFINE R == OpToRel(<, Nat)
<1>1. \A x, y \in Nat : y < x => <<y, x>> \in R
  BY DEF OpToRel
<1>2. IsWellFoundedOn(R, Nat)
  BY NatLessThanWellFounded
<1> HIDE DEF R
<1>3. PICK x \in T : \A y \in T : ~ (<<y, x>> \in R)
  BY <1>2, WFMin
<1>4. ASSUME NEW y \in T PROVE x <= y
  <2>1. ~ (y < x)
    BY <1>1, <1>3
  <2> QED  BY <2>1
<1> QED  BY <1>4 DEF Min

(* What is put before the rest of the groups. *)
LEMMA FrontOne ==
  ASSUME NEW w \in Seq(Groups), w # <<>>, NEW a \in Groups
  PROVE  /\ <<a>> \o Tail(w) \in Seq(Groups)
         /\ Len(<<a>> \o Tail(w)) = Len(w)
         /\ (<<a>> \o Tail(w))[1] = a
         /\ \A i \in 2 .. Len(w) : (<<a>> \o Tail(w))[i] = w[i]
<1> HIDE DEF Groups
<1> QED  OBVIOUS

(* Two groups put before the rest. *)
LEMMA FrontTwo ==
  ASSUME NEW w \in Seq(Groups), w # <<>>, NEW a \in Groups, NEW b \in Groups
  PROVE  /\ <<a, b>> \o Tail(w) \in Seq(Groups)
         /\ Len(<<a, b>> \o Tail(w)) = Len(w) + 1
         /\ (<<a, b>> \o Tail(w))[1] = a
         /\ (<<a, b>> \o Tail(w))[2] = b
         /\ \A i \in 3 .. Len(w) + 1 : (<<a, b>> \o Tail(w))[i] = w[i - 1]
OBVIOUS

(* The groups after the first one. *)
LEMMA Rest ==
  ASSUME NEW w \in Seq(Groups), w # <<>>
  PROVE  /\ Tail(w) \in Seq(Groups) /\ Len(Tail(w)) = Len(w) - 1
         /\ \A i \in 1 .. Len(w) - 1 : Tail(w)[i] = w[i + 1]
         /\ Head(w) = w[1] /\ 1 \in DOMAIN w /\ w[1] \in Groups
OBVIOUS

-----------------------------------------------------------------------------
(* Types *)

(* The record of a process that holds no lock, and an empty state file. *)
LEMMA IdleType == Idle \in Runs /\ NewState \in StateType
BY ConstantsAssumption DEF Idle, Runs, NewState, PCs, Nowhere

(* The types hold when nothing has run. *)
LEMMA TypeInit ==
  ASSUME Init
  PROVE  TInv
<1> USE ConstantsAssumption, IdleType DEF Init
<1>1. DiskOK
  BY DEF DiskOK, Compacts
<1>2. FilesOK
  BY DEF FilesOK, Nowhere
<1>3. WorldOK
  BY DEF WorldOK
<1>4. server \in Views
  BY DEF Views, Item
<1>5. RunOK /\ WorkOK
  BY DEF RunOK, WorkOK, Filled, Apart, OnFile, Idle
<1> QED
  BY <1>1, <1>2, <1>3, <1>4, <1>5 DEF TInv

(* A process that leaves has nothing at work. *)
LEMMA LeavesOK ==
  ASSUME Leaves
  PROVE  mem' \in StateType /\ RunOK' /\ WorkOK'
BY IdleType DEF Leaves, RunOK, WorkOK, Filled, Apart, OnFile, Idle

(* What the server takes in is well typed: what it refuses never is.       *)
LEMMA TakeInType ==
  ASSUME TInv, Posting, ~Refused, TakeIn
  PROVE  server' \in Views
<1> USE ConstantsAssumption
<1>1. server \in Views /\ run.work \in Seq(Groups) /\ run.work # <<>>
  BY DEF TInv, RunOK, Runs, Posting
<1>2. Group = run.work[1] /\ Group \in Groups /\ 1 \in DOMAIN run.work
  BY <1>1, Rest DEF Group
<1>3. Batch \subseteq Source
  BY <1>2 DEF Batch, Groups
<1>4. \A s \in Batch : ~Group.errors => Group.item[s] \in Snapshots /\ Group.item[s].data \notin Bad
  BY <1>1, <1>2 DEF TInv, WorkOK, Filled, Refused, Batch
<1>5. \A s \in Batch : Group.item[s] \in Items
  BY <1>1, <1>2 DEF TInv, WorkOK, Filled, Batch
<1>6. Fresh \subseteq Batch /\ (Fresh # {} => ~Group.errors)
      /\ \A s \in Fresh : s \in FreshRolling <=> Group.item[s].data \in Content
  BY DEF Fresh, FreshRolling
<1> HIDE DEF Group, Batch, Fresh, FreshRolling
<1>7. server'.last \in [Source -> Nat]
  BY <1>1, <1>3, <1>5, <1>6 DEF TakeIn, Views
<1>8. server'.shown \in [Source -> [seq : Nat, data : (Content \ Bad) \cup {None}, at : Nat]]
  <2>1. \A s \in Source : s \in FreshRolling =>
          Group.item[s] \in [seq : Nat, data : (Content \ Bad) \cup {None}, at : Nat]
    BY <1>3, <1>4, <1>6 DEF FreshRolling
  <2>2. server'.shown = [s \in Source |-> IF s \in FreshRolling THEN Group.item[s] ELSE server.shown[s]]
    BY <1>1 DEF TakeIn, Views
  <2> QED
    BY <1>1, <2>1, <2>2 DEF Views
<1>9. server'.chunks \in [Source -> SUBSET Chunk]
  <2>1. \A s \in Fresh \ FreshRolling : Group.item[s].data \in Chunk
    BY <1>3, <1>4, <1>6
  <2>2. server'.chunks = [s \in Source |-> IF s \in Fresh \ FreshRolling
                             THEN server.chunks[s] \cup {Group.item[s].data} ELSE server.chunks[s]]
    BY <1>1 DEF TakeIn, Views
  <2> QED
    BY <1>1, <2>1, <2>2 DEF Views
<1>10. server'.failing \in [Source -> Nat]
  BY <1>1, <1>3, <1>5, <1>6 DEF TakeIn, Views
<1> QED
  BY <1>1, <1>7, <1>8, <1>9, <1>10 DEF TakeIn, Views

(* Retiring and forgetting sources keeps the files and a state well typed. *)
LEMMA RetireType ==
  ASSUME FilesOK, mapped \subseteq Source, NEW gone, Retire(gone)
  PROVE  FilesOK' /\ mapped' \subseteq Source
BY DEF FilesOK, Retire

(* A state file from which sources are removed is a state file. *)
LEMMA ForgottenType ==
  ASSUME NEW st \in StateType, NEW gone
  PROVE  /\ Forgotten(st, gone) \in StateType
         /\ Forgotten(st, gone).intent = st.intent
<1> DEFINE a == [s \in Source |-> IF s \in gone THEN 0 ELSE st.seq[s]]
           b == [s \in Source |-> IF s \in gone THEN None ELSE st.fp[s]]
           c == [s \in Source |-> IF s \in gone THEN 0 ELSE st.cursor[s]]
           d == st.missing \ gone
<1>1. Forgotten(st, gone) = [st EXCEPT !.seq = a, !.fp = b, !.cursor = c, !.missing = d]
  BY DEF Forgotten
<1>2. /\ a \in [Source -> Nat] /\ b \in [Source -> Content \cup {Error, None}]
      /\ c \in [Source -> 0 .. Chunks] /\ d \subseteq Source
  BY ConstantsAssumption
<1> HIDE DEF a, b, c, d
<1> QED
  BY <1>1, <1>2

(* A step that leaves the run and the files alone keeps what relates them. *)
LEMMA SameRun ==
  ASSUME RunOK, WorkOK, UNCHANGED <<run, mem, pending>>
  PROVE  RunOK' /\ WorkOK'
<1>1. UNCHANGED <<Group, Batch>> /\ \A i : UNCHANGED Due(i)
  BY DEF Group, Batch, Due
<1>2. RunOK'
  BY <1>1 DEF RunOK
<1>3. Filled' /\ Apart'
  BY DEF WorkOK, Filled, Apart
<1>4. OnFile'
  BY <1>1 DEF WorkOK, OnFile
<1> QED
  BY <1>2, <1>3, <1>4 DEF WorkOK

(* A run with nothing left to deliver has its files in order. *)
LEMMA NoWork ==
  ASSUME run'.work = <<>>
  PROVE  WorkOK'
BY DEF WorkOK, Filled, Apart, OnFile

(* The next range begins at a chunk of the year. *)
LEMMA NextIs ==
  ASSUME Candidates # {}
  PROVE  Min({state.cursor[s] : s \in Candidates}) \in Chunk
<1> DEFINE cursors == {state.cursor[s] : s \in Candidates}
<1>1. \A s \in Candidates : state.cursor[s] \in Chunk
  BY DEF Candidates
<1> HIDE DEF Candidates
<1>2. cursors \subseteq Chunk /\ cursors # {}
  BY <1>1
<1>3. Chunk \subseteq Nat
  BY ConstantsAssumption
<1> HIDE DEF cursors, Chunk
<1>4. Min(cursors) \in cursors
  BY <1>2, <1>3, MinIs
<1> QED
  BY <1>2, <1>4 DEF cursors

(* What a source contributes to a collection. *)
LEMMA ContributionIs ==
  ASSUME TInv, NEW s \in Source, NEW how
  PROVE  /\ Contribution(s, how) \in Items \cup {None}
         /\ Contribution(s, how) # None =>
              /\ Contribution(s, how) \in Items
              /\ run.range = Rolling => Contribution(s, how).data \in Content \cup {Error}
              /\ run.range # Rolling => Contribution(s, how).data = run.range /\ how = "usage"
<1> USE ConstantsAssumption
<1>1. /\ run.range \in Chunk \cup {Rolling} /\ mem.seq[s] + 1 \in Nat /\ made[s] \in Nat
      /\ made[s] + 1 \in Nat /\ usage[s] \in Content /\ known[s] \in Nat
  BY DEF TInv, DiskOK, WorldOK, RunOK, Runs
<1>2. \/ /\ run.range # Rolling
         /\ Contribution(s, how) = Item(mem.seq[s] + 1, run.range, made[s]) /\ how = "usage"
      \/ /\ run.range = Rolling
         /\ Contribution(s, how) = Item(mem.seq[s] + 1, usage[s], made[s] + 1)
      \/ /\ run.range = Rolling
         /\ Contribution(s, how) = Item(known[s], Error, made[s] + 1)
      \/ Contribution(s, how) = None
  BY DEF Contribution
<1> QED
  BY <1>1, <1>2 DEF Item

(* A collection makes a state, payloads and a run of the right types. *)
LEMMA CollectType ==
  ASSUME TInv, Collect
  PROVE  TInv'
<1> USE ConstantsAssumption
<1>1. /\ DiskOK /\ FilesOK /\ WorldOK /\ server \in Views /\ RunOK
      /\ run \in Runs /\ state \in StateType /\ mem \in StateType
      /\ run.pc = "collect" /\ run.work = <<>> /\ NewState \in StateType
  BY IdleType DEF TInv, DiskOK, RunOK, Collect, At, Delivering
<1>2. PICK outcome \in [mapped \cap run.scope -> Outcomes] :
        LET Ended(how) == {s \in DOMAIN outcome : outcome[s] = how}
            items == [s \in Source |-> IF s \in DOMAIN outcome THEN Contribution(s, outcome[s])
                                      ELSE None]
            new == Written(items)
            rolling == IF run.range = Rolling THEN new ELSE {}
            next == [mem EXCEPT
                       !.seq = [s \in Source |-> IF s \in new /\ items[s].data # Error
                                                 THEN @[s] + 1 ELSE @[s]],
                       !.fp = [s \in Source |-> IF s \in rolling THEN items[s].data ELSE @[s]]]
        IN  /\ \A s \in rolling : made[s] < MaxMade
            /\ made' = [s \in Source |-> IF s \in rolling THEN made[s] + 1 ELSE made[s]]
            /\ IF new = {}
               THEN state' = next /\ mem' = NewState
               ELSE mem' = [next EXCEPT !.intent = items] /\ UNCHANGED state
            /\ run' = [run EXCEPT
                 !.pc = IF new = {} THEN "done" ELSE "persist",
                 !.barren = new # {} /\ Ended("usage") = {},
                 !.blocked = @ \cup Ended("inactive")
                               \cup (IF run.range = Rolling THEN {} ELSE Ended("failure"))]
  BY DEF Collect
<1> DEFINE items == [s \in Source |-> IF s \in DOMAIN outcome THEN Contribution(s, outcome[s])
                                     ELSE None]
           new == Written(items)
           rolling == IF run.range = Rolling THEN new ELSE {}
           seqs == [s \in Source |-> IF s \in new /\ items[s].data # Error
                                     THEN mem.seq[s] + 1 ELSE mem.seq[s]]
           fps == [s \in Source |-> IF s \in rolling THEN items[s].data ELSE mem.fp[s]]
           next == [mem EXCEPT !.seq = seqs, !.fp = fps]
           idle == {s \in DOMAIN outcome : outcome[s] = "inactive"}
           failed == {s \in DOMAIN outcome : outcome[s] = "failure"}
           used == {s \in DOMAIN outcome : outcome[s] = "usage"}
           shut == run.blocked \cup idle \cup (IF run.range = Rolling THEN {} ELSE failed)
<1>3. /\ \A s \in rolling : made[s] < MaxMade
      /\ made' = [s \in Source |-> IF s \in rolling THEN made[s] + 1 ELSE made[s]]
      /\ IF new = {}
         THEN state' = next /\ mem' = NewState
         ELSE mem' = [next EXCEPT !.intent = items] /\ UNCHANGED state
      /\ run' = [run EXCEPT !.pc = IF new = {} THEN "done" ELSE "persist",
                            !.barren = new # {} /\ used = {}, !.blocked = shut]
  BY <1>2
<1>4. shut \subseteq Source
  BY <1>1 DEF Runs
<1>5. \A s \in Source : items[s] \in Items \cup {None}
  BY ContributionIs
<1>6. \A s \in rolling : items[s].data \in Content \cup {Error}
  BY ContributionIs DEF Written
<1>7. new \subseteq Source /\ rolling \subseteq new
  BY DEF Written
<1>8. items \in [Source -> Items \cup {None}]
  BY <1>5
<1> HIDE DEF items, new, rolling, idle, failed, used, shut
<1>9. seqs \in [Source -> Nat] /\ fps \in [Source -> Content \cup {Error, None}]
  BY <1>1, <1>6, <1>7
<1> HIDE DEF seqs, fps
<1>10. next \in StateType
  BY <1>1, <1>9
<1> HIDE DEF next
<1>11. state' \in StateType /\ mem' \in StateType
  BY <1>1, <1>3, <1>8, <1>10
<1>12. made' \in [Source -> 0 .. MaxMade]
  BY <1>1, <1>3 DEF WorldOK
<1>13. run' \in Runs
  <2>1. PICK pc \in {"done", "persist"}, b \in BOOLEAN :
          run' = [run EXCEPT !.pc = pc, !.barren = b, !.blocked = shut]
    BY <1>3
  <2> QED
    BY <1>1, <1>4, <2>1 DEF Runs, PCs
<1>14. run'.work = <<>> /\ run'.pc \in {"done", "persist"}
  BY <1>1, <1>3 DEF Runs
<1>15. RunOK'
  BY <1>13, <1>14 DEF RunOK
<1>16. UNCHANGED <<files, config, server, compact, losses, world>>
  BY DEF Collect
<1>17. (DiskOK /\ FilesOK /\ WorldOK /\ server \in Views)'
  BY <1>1, <1>11, <1>12, <1>16 DEF DiskOK, FilesOK, WorldOK, files, config, world
<1> QED
  BY <1>14, <1>15, <1>17, NoWork DEF TInv

(* Every step of a range, and every step around it, keeps the types. *)
LEMMA RangeType ==
  ASSUME TInv, Begin \/ RangeStep \/ Crash \/ LoseState \/ Compaction
               \/ (\E s \in Source : Change(s) \/ Disconnect(s))
  PROVE  TInv'
<1> USE ConstantsAssumption
<1>0. /\ DiskOK /\ FilesOK /\ WorldOK /\ server \in Views /\ RunOK /\ WorkOK
      /\ run \in Runs /\ state \in StateType /\ mem \in StateType /\ compact \in Compacts
      /\ (run.pc \notin Delivering => run.work = <<>>)
      /\ NewState \in StateType /\ Idle \in Runs
  BY IdleType DEF TInv, DiskOK, RunOK
<1>1. CASE Begin
  <2> USE <1>0, <1>1 DEF Begin
  <2>0. PICK a \in BOOLEAN : run' = [Idle EXCEPT !.pc = "recover", !.auto = a, !.scope = Source]
    OBVIOUS
  <2>1. run' \in Runs
    BY <2>0 DEF Runs, PCs
  <2>1a. run'.work = <<>> /\ run'.pc = "recover"
    BY <2>0 DEF Idle
  <2>2. RunOK'
    BY <2>1, <2>1a DEF RunOK
  <2>3. (DiskOK /\ FilesOK /\ WorldOK /\ server \in Views)'
    BY DEF DiskOK, FilesOK, WorldOK, files, config, world
  <2> QED
    BY <2>1a, <2>2, <2>3, NoWork DEF TInv
<1>2. CASE Recover
  <2> USE <1>0, <1>2 DEF Recover, At
  <2>1. \/ run' = [run EXCEPT !.pc = "drain"]
        \/ run' = [run EXCEPT !.pc = "save", !.saving = Written(state.intent)] /\ mem' = state
    OBVIOUS
  <2>2. Written(state.intent) \in SUBSET Source
    BY DEF Written
  <2>3. run' \in Runs
    <3> HIDE <1>0, <1>2
    <3>1. run \in Runs
      BY <1>0
    <3>2. CASE run' = [run EXCEPT !.pc = "drain"]
      BY <3>1, <3>2 DEF Runs, PCs
    <3>3. CASE run' = [run EXCEPT !.pc = "save", !.saving = Written(state.intent)]
      BY <2>2, <3>1, <3>3 DEF Runs, PCs
    <3> QED
      BY <2>1, <3>2, <3>3
  <2>0. /\ run'.work = <<>> /\ run'.pc \in {"drain", "save"}
        /\ run'.pc = "save" => run'.saving = Written(state.intent) /\ mem' = state
    BY <2>1 DEF Runs, Delivering
  <2>4. mem' \in StateType
    OBVIOUS
  <2>5. run'.pc = "save" => \A s \in run'.saving : mem'.intent[s] \in Items
    BY <2>0 DEF Written
  <2>6. RunOK'
    BY <2>0, <2>3, <2>5 DEF RunOK
  <2>7. (DiskOK /\ FilesOK /\ WorldOK /\ server \in Views)'
    BY <2>4 DEF DiskOK, FilesOK, WorldOK, files, config, world
  <2> QED
    BY <2>0, <2>6, <2>7, NoWork DEF TInv
<1>3. CASE Persist
  <2> USE <1>0, <1>3 DEF Persist, At
  <2>1. run' \in Runs /\ run'.work = <<>> /\ run'.pc = "save"
        /\ run'.saving = Written(mem.intent)
    BY DEF Runs, PCs, Written, Delivering
  <2>2. \A s \in run'.saving : mem'.intent[s] \in Items
    BY <2>1 DEF Written
  <2>3. RunOK'
    BY <2>1, <2>2 DEF RunOK
  <2>4. (DiskOK /\ FilesOK /\ WorldOK /\ server \in Views)'
    BY DEF DiskOK, FilesOK, WorldOK, files, config, world
  <2> QED
    BY <2>1, <2>3, <2>4, NoWork DEF TInv
<1>4. ASSUME NEW s \in Source, Save(s) PROVE TInv'
  <2> USE <1>0, <1>4 DEF Save, At
  <2>1. run' \in Runs /\ run'.work = <<>> /\ run'.pc = "save" /\ run'.saving \subseteq run.saving
    BY DEF Runs, PCs, Delivering
  <2>2. mem.intent[s] \in Items
    BY DEF RunOK
  <2>3. FilesOK'
    BY <2>2 DEF FilesOK
  <2>4. RunOK'
    BY <2>1 DEF RunOK
  <2>5. (DiskOK /\ WorldOK /\ server \in Views)'
    BY DEF DiskOK, WorldOK, files, config, world
  <2> QED
    BY <2>1, <2>3, <2>4, <2>5, NoWork DEF TInv
<1>5. CASE ClearIntent
  <2> USE <1>0, <1>5 DEF ClearIntent, At
  <2>1. run' \in Runs /\ run'.work = <<>> /\ run'.pc = "drain"
    BY DEF Runs, PCs, Delivering
  <2>2. state' \in StateType /\ mem' \in StateType
    BY DEF Nowhere
  <2>3. RunOK'
    BY <2>1 DEF RunOK
  <2>4. (DiskOK /\ FilesOK /\ WorldOK /\ server \in Views)'
    BY <2>2 DEF DiskOK, FilesOK, WorldOK, files, config, world
  <2> QED
    BY <2>1, <2>3, <2>4, NoWork DEF TInv
<1>6. CASE Inspect
  <2> USE <1>0, <1>6 DEF Inspect, At
  <2>1. run' \in Runs /\ run'.work = <<>> /\ run'.pc = "collect"
    BY DEF Runs, PCs, Delivering
  <2>2. RunOK'
    BY <2>1 DEF RunOK
  <2>3. PICK gone, kept : /\ gone = mapped \ server.active /\ kept = mapped \cap server.active
                          /\ Retire(gone)
    OBVIOUS
  <2>4. FilesOK' /\ mapped' \subseteq Source
    BY <2>3, RetireType DEF DiskOK
  <2>5. known' \in [Source -> Nat]
    BY DEF DiskOK, Views
  <2>6. state' \in StateType
    <3> DEFINE old == Forgotten(state, mapped \ server.active)
               a == [s \in Source |-> IF s \in mapped \cap server.active
                                      THEN Later(old.seq[s], server.last[s]) ELSE old.seq[s]]
               c == [s \in Source |-> IF /\ s \in mapped \cap server.active
                                         /\ (Chunks - 1) \in server.chunks[s]
                                      THEN Chunks ELSE old.cursor[s]]
    <3>1. old \in StateType
      BY ForgottenType
    <3>2. state' = [old EXCEPT !.seq = a, !.cursor = c, !.missing = {}]
      OBVIOUS
    <3> HIDE DEF old
    <3>3. a \in [Source -> Nat] /\ c \in [Source -> 0 .. Chunks]
      BY <3>1 DEF Later, Views
    <3> HIDE DEF a, c
    <3> QED
      BY <3>1, <3>2, <3>3
  <2>7. DiskOK'
    BY <2>4, <2>5, <2>6 DEF DiskOK
  <2> QED
    BY <2>1, <2>2, <2>4, <2>7, NoWork DEF TInv, WorldOK, world
<1>7. CASE InspectSkipped
  <2> USE <1>0, <1>7 DEF InspectSkipped, At
  <2>1. run' \in Runs /\ run'.work = <<>> /\ run'.pc = "collect"
    BY DEF Runs, PCs, Delivering
  <2>2. RunOK'
    BY <2>1 DEF RunOK
  <2>3. (DiskOK /\ FilesOK /\ WorldOK /\ server \in Views)'
    BY DEF DiskOK, FilesOK, WorldOK, files, config, world
  <2> QED
    BY <2>1, <2>2, <2>3, NoWork DEF TInv
<1>8. CASE InspectFails \/ CollectThrows
  <2>1. Leaves /\ UNCHANGED <<state, files, config, server, compact, made, losses, world>>
    BY <1>8 DEF InspectFails, CollectThrows
  <2> QED
    BY <1>0, <2>1, LeavesOK DEF TInv, DiskOK, FilesOK, WorldOK, files, config, world
<1>9. CASE NextRange
  <2> USE <1>0, <1>9 DEF NextRange, At
  <2> DEFINE from == Min({state.cursor[s] : s \in Candidates})
  <2>2. from \in Chunk
    BY NextIs DEF MoreHistory
  <2> DEFINE scope == {s \in Candidates : state.cursor[s] = from}
             tries == run.tried \cup {<<s, from>> : s \in scope}
  <2>3. scope \subseteq Source /\ tries \subseteq Source \X Chunk
    <3>1. scope \subseteq Source /\ run.tried \subseteq Source \X Chunk
      BY DEF Candidates, DiskOK, Runs
    <3> HIDE DEF scope, from
    <3> QED
      BY <2>2, <3>1
  <2>3a. run.auto \in BOOLEAN /\ run.blocked \subseteq Source
    BY DEF Runs
  <2>4. run' = [Idle EXCEPT !.pc = "recover", !.auto = run.auto, !.range = from, !.scope = scope,
                   !.blocked = run.blocked, !.tried = tries]
    OBVIOUS
  <2> HIDE DEF from, scope, tries
  <2>5. run' \in Runs
    <3> HIDE <1>0, <1>9
    <3>1. Idle \in Runs
      BY <1>0
    <3> QED
      BY <2>2, <2>3, <2>3a, <2>4, <3>1 DEF Runs, PCs
  <2>6. run'.work = <<>> /\ run'.pc = "recover"
    BY <2>4 DEF Idle
  <2>7. RunOK'
    BY <2>5, <2>6 DEF RunOK
  <2>8. (DiskOK /\ FilesOK /\ WorldOK /\ server \in Views)'
    BY DEF DiskOK, FilesOK, WorldOK, files, config, world
  <2> QED
    BY <2>6, <2>7, <2>8, NoWork DEF TInv
<1>10. CASE End
  <2>1. compact' \in Compacts
    BY <1>0, <1>10 DEF End, Compacts
  <2> QED
    BY <1>0, <1>10, <2>1, LeavesOK DEF End, TInv, DiskOK, FilesOK, WorldOK, files, config, world
<1>11. CASE Crash
  <2>1. losses' \in 0 .. MaxLost
    BY <1>0, <1>11 DEF Crash, WorldOK
  <2> QED
    BY <1>0, <1>11, <2>1, LeavesOK DEF Crash, TInv, DiskOK, FilesOK, WorldOK, files, config, world
<1>12. CASE LoseState
  <2>0. state' \in StateType
    BY <1>0, <1>12 DEF LoseState
  <2>1. losses' \in 0 .. MaxLost
    BY <1>0, <1>12 DEF LoseState, WorldOK
  <2>2. (DiskOK /\ FilesOK /\ WorldOK /\ server \in Views)'
    BY <1>0, <1>12, <2>0, <2>1 DEF LoseState, DiskOK, FilesOK, WorldOK, files, config, world
  <2>3. RunOK' /\ WorkOK'
    BY <1>0, <1>12, SameRun DEF LoseState, files
  <2> QED
    BY <2>2, <2>3 DEF TInv
<1>13. CASE Compaction
  <2>0. compact.copy \in StateType
    BY <1>0 DEF Compacts
  <2>1. state' \in StateType /\ compact' \in Compacts
    <3>1. CASE CompactRead
      BY <1>0, <3>1 DEF CompactRead, Compacts
    <3>2. CASE CompactWrite
      <4>1. state' \in StateType
        BY <2>0, <3>2 DEF CompactWrite
      <4>2. compact' \in Compacts
        BY <1>0, <3>2 DEF CompactWrite, Compacts
      <4> QED
        BY <4>1, <4>2
    <3>3. CASE CompactEnds
      BY <1>0, <3>3 DEF CompactEnds, Compacts
    <3> QED
      BY <1>13, <3>1, <3>2, <3>3 DEF Compaction
  <2>2. UNCHANGED <<mem, files, config, server, run, made, losses, world>>
    BY <1>13 DEF Compaction, CompactRead, CompactWrite, CompactEnds
  <2>3. (DiskOK /\ FilesOK /\ WorldOK /\ server \in Views)'
    BY <1>0, <2>1, <2>2 DEF DiskOK, FilesOK, WorldOK, files, config, world
  <2>4. RunOK' /\ WorkOK'
    BY <1>0, <2>2, SameRun DEF files
  <2> QED
    BY <2>3, <2>4 DEF TInv
<1>14. ASSUME NEW s \in Source, Change(s) \/ Disconnect(s) PROVE TInv'
  <2>1. UNCHANGED <<state, mem, files, config, run, compact, made, losses>>
    BY <1>14 DEF Change, Disconnect
  <2>2. usage' \in [Source -> Content] /\ changes' \in 0 .. MaxChanges
    <3>1. CASE Change(s)
      BY <1>0, <3>1 DEF Change, WorldOK
    <3>2. CASE Disconnect(s)
      BY <1>0, <3>2 DEF Disconnect, WorldOK, world
    <3> QED
      BY <1>14, <3>1, <3>2
  <2>3. server' \in Views
    <3>1. CASE Change(s)
      BY <1>0, <3>1 DEF Change
    <3>2. CASE Disconnect(s)
      BY <1>0, <3>2 DEF Disconnect, Views
    <3> QED
      BY <1>14, <3>1, <3>2
  <2>4. (DiskOK /\ FilesOK /\ WorldOK)'
    BY <1>0, <2>1, <2>2 DEF DiskOK, FilesOK, WorldOK, files, config
  <2>5. RunOK' /\ WorkOK'
    BY <1>0, <2>1, SameRun DEF files
  <2> QED
    BY <2>3, <2>4, <2>5 DEF TInv
<1>15. CASE Collect
  BY <1>15, CollectType
<1> QED
  BY <1>1, <1>2, <1>3, <1>4, <1>5, <1>6, <1>7, <1>8, <1>9, <1>10, <1>11, <1>12, <1>13, <1>14, <1>15
  DEF RangeStep

(* Groups that are cut out of groups stay disjoint and on file. *)
LEMMA Derived ==
  ASSUME TInv, run'.work \in Seq(Groups), run'.pc \notin {"ack", "acked"},
         NEW o \in [DOMAIN run'.work -> DOMAIN run.work],
         \A i \in DOMAIN run'.work : /\ run'.work[i].errors = run.work[o[i]].errors
                                     /\ run'.work[i].item = run.work[o[i]].item
                                     /\ run'.work[i].of \subseteq run.work[o[i]].of,
         \A i, j \in DOMAIN run'.work :
           i # j /\ o[i] = o[j] => run'.work[i].of \cap run'.work[j].of = {},
         \A i \in DOMAIN run'.work : run.pc = "post" \/ o[i] # 1,
         \A i \in DOMAIN run'.work : ~run'.work[i].errors =>
           \A s \in run'.work[i].of : pending'[s] = pending[s]
  PROVE  WorkOK'
<1>1. WorkOK
  BY DEF TInv
<1>2. \A i \in DOMAIN run'.work : Due(o[i]) = run.work[o[i]].of /\ Due(i)' = run'.work[i].of
  BY DEF Due
<1>3. Filled'
  <2> SUFFICES ASSUME NEW i \in DOMAIN run'.work, NEW s \in run'.work[i].of
               PROVE  run'.work[i].item[s] \in (IF run'.work[i].errors THEN Failures ELSE Snapshots)
    BY DEF Filled
  <2>1. o[i] \in DOMAIN run.work /\ s \in run.work[o[i]].of
    OBVIOUS
  <2>2. run.work[o[i]].item[s] \in (IF run.work[o[i]].errors THEN Failures ELSE Snapshots)
    BY <1>1, <2>1 DEF WorkOK, Filled
  <2> QED
    BY <2>2
<1>4. Apart'
  <2> SUFFICES ASSUME NEW i \in DOMAIN run'.work, NEW j \in DOMAIN run'.work, i # j,
                      ~run'.work[i].errors, ~run'.work[j].errors
               PROVE  run'.work[i].of \cap run'.work[j].of = {}
    BY DEF Apart
  <2>1. CASE o[i] = o[j]
    BY <2>1
  <2>2. CASE o[i] # o[j]
    <3>1. run.work[o[i]].of \cap run.work[o[j]].of = {}
      BY <1>1, <2>2 DEF WorkOK, Apart
    <3> QED
      BY <3>1
  <2> QED
    BY <2>1, <2>2
<1>5. OnFile'
  <2> SUFFICES ASSUME NEW i \in DOMAIN run'.work, ~run'.work[i].errors, NEW s \in run'.work[i].of
               PROVE  /\ pending'[s] \in Snapshots
                      /\ pending'[s].data = run'.work[i].item[s].data
                      /\ pending'[s].at = run'.work[i].item[s].at
    BY <1>2 DEF OnFile
  <2>1. o[i] \in DOMAIN run.work /\ ~run.work[o[i]].errors /\ s \in Due(o[i])
    BY <1>2
  <2>2. /\ pending[s] \in Snapshots
        /\ pending[s].data = run.work[o[i]].item[s].data
        /\ pending[s].at = run.work[o[i]].item[s].at
    BY <1>1, <2>1 DEF WorkOK, OnFile
  <2>3. pending'[s] = pending[s] /\ run'.work[i].item = run.work[o[i]].item
    OBVIOUS
  <2> HIDE DEF Snapshots
  <2> QED
    BY <2>2, <2>3
<1> QED
  BY <1>3, <1>4, <1>5 DEF WorkOK

(* The first group is done with. *)
LEMMA Popped ==
  ASSUME TInv, run.work # <<>>, run'.work = Tail(run.work), run'.pc \notin {"ack", "acked"},
         \A s \in Source : s \notin Batch \/ Group.errors => pending'[s] = pending[s]
  PROVE  WorkOK'
<1> DEFINE o == [i \in DOMAIN run'.work |-> i + 1]
<1>1. run.work \in Seq(Groups) /\ WorkOK
  BY DEF TInv, RunOK, Runs
<1>2. /\ run'.work \in Seq(Groups) /\ Len(run'.work) = Len(run.work) - 1
      /\ \A i \in 1 .. Len(run.work) - 1 : run'.work[i] = run.work[i + 1]
      /\ Group = run.work[1] /\ 1 \in DOMAIN run.work
  BY <1>1, Rest DEF Group
<1>3. DOMAIN run'.work = 1 .. Len(run.work) - 1 /\ DOMAIN run.work = 1 .. Len(run.work)
      /\ Len(run.work) \in Nat
  BY <1>1, <1>2
<1>4. o \in [DOMAIN run'.work -> DOMAIN run.work]
  BY <1>3
<1>5. \A i \in DOMAIN run'.work : run'.work[i] = run.work[o[i]] /\ o[i] # 1
  BY <1>2, <1>3
<1>6. \A i, j \in DOMAIN run'.work : i # j => o[i] # o[j]
  BY <1>3
<1>7. \A i \in DOMAIN run'.work : ~run'.work[i].errors =>
        \A s \in run'.work[i].of : pending'[s] = pending[s]
  <2> SUFFICES ASSUME NEW i \in DOMAIN run'.work, ~run'.work[i].errors, NEW s \in run'.work[i].of
               PROVE  pending'[s] = pending[s]
    OBVIOUS
  <2>1. s \in run.work[o[i]].of /\ o[i] # 1 /\ o[i] \in DOMAIN run.work /\ ~run.work[o[i]].errors
    BY <1>4, <1>5
  <2>2. s \in Source
    <3>1. run.work[o[i]] \in Groups
      BY <1>1, <2>1
    <3> QED
      BY <2>1, <3>1 DEF Groups
  <2>3. CASE Group.errors
    BY <2>2, <2>3
  <2>4. CASE ~Group.errors
    BY <1>1, <1>2, <2>1, <2>2, <2>4 DEF WorkOK, Apart, Batch
  <2> QED
    BY <2>3, <2>4
<1> HIDE DEF o
<1> QED
  BY <1>2, <1>4, <1>5, <1>6, <1>7, Derived

(* The first group is narrowed. *)
LEMMA Narrowed ==
  ASSUME TInv, run.work # <<>>, run.pc = "post", NEW left \in SUBSET Batch,
         run'.work = <<[Group EXCEPT !.of = left]>> \o Tail(run.work),
         run'.pc = "post", pending' = pending
  PROVE  run'.work \in Seq(Groups) /\ WorkOK'
<1> DEFINE o == [i \in DOMAIN run'.work |-> i]
           g == [Group EXCEPT !.of = left]
<1>1. run.work \in Seq(Groups) /\ WorkOK
  BY DEF TInv, RunOK, Runs
<1>2. Group = run.work[1] /\ Group \in Groups /\ Len(run.work) \in Nat /\ Len(run.work) >= 1
  BY <1>1, Rest DEF Group
<1>3. g \in Groups /\ g.errors = Group.errors /\ g.item = Group.item /\ g.of = left
      /\ left \subseteq Group.of
  BY <1>2 DEF Groups, Batch
<1> HIDE DEF g
<1>4. /\ run'.work \in Seq(Groups) /\ Len(run'.work) = Len(run.work) /\ run'.work[1] = g
      /\ \A i \in 2 .. Len(run.work) : run'.work[i] = run.work[i]
  BY <1>1, <1>3, FrontOne DEF g
<1>5. DOMAIN run'.work = 1 .. Len(run.work) /\ DOMAIN run.work = 1 .. Len(run.work)
  BY <1>1, <1>4
<1>6. \A i \in DOMAIN run'.work : /\ run'.work[i].errors = run.work[i].errors
                                  /\ run'.work[i].item = run.work[i].item
                                  /\ run'.work[i].of \subseteq run.work[i].of
  <2> SUFFICES ASSUME NEW i \in DOMAIN run'.work
               PROVE  /\ run'.work[i].errors = run.work[i].errors
                      /\ run'.work[i].item = run.work[i].item
                      /\ run'.work[i].of \subseteq run.work[i].of
    OBVIOUS
  <2>1. CASE i = 1
    BY <1>2, <1>3, <1>4, <2>1
  <2>2. CASE i # 1
    BY <1>2, <1>4, <1>5, <2>2
  <2> QED
    BY <2>1, <2>2
<1>7. o \in [DOMAIN run'.work -> DOMAIN run.work] /\ \A i \in DOMAIN run'.work : o[i] = i
  BY <1>5
<1> HIDE DEF o
<1>8. \A i \in DOMAIN run'.work : /\ run'.work[i].errors = run.work[o[i]].errors
                                  /\ run'.work[i].item = run.work[o[i]].item
                                  /\ run'.work[i].of \subseteq run.work[o[i]].of
  BY <1>6, <1>7
<1>9. \A i, j \in DOMAIN run'.work : i # j => o[i] # o[j]
  BY <1>7
<1> QED
  BY <1>4, <1>7, <1>8, <1>9, Derived

(* The first group is cut in two. *)
LEMMA Halved ==
  ASSUME TInv, run.work # <<>>, run.pc = "post", NEW left \in SUBSET Batch,
         run'.work = << [Group EXCEPT !.of = left], [Group EXCEPT !.of = Batch \ left] >>
                     \o Tail(run.work),
         run'.pc = "post", pending' = pending
  PROVE  run'.work \in Seq(Groups) /\ WorkOK'
<1> DEFINE o == [i \in DOMAIN run'.work |-> IF i = 1 THEN 1 ELSE i - 1]
           a == [Group EXCEPT !.of = left]
           b == [Group EXCEPT !.of = Batch \ left]
<1>1. run.work \in Seq(Groups) /\ WorkOK
  BY DEF TInv, RunOK, Runs
<1>2. Group = run.work[1] /\ Group \in Groups /\ Len(run.work) \in Nat /\ Len(run.work) >= 1
  BY <1>1, Rest DEF Group
<1>3. /\ a \in Groups /\ a.errors = Group.errors /\ a.item = Group.item /\ a.of = left
      /\ b \in Groups /\ b.errors = Group.errors /\ b.item = Group.item /\ b.of = Group.of \ left
      /\ left \subseteq Group.of
  BY <1>2 DEF Groups, Batch
<1> HIDE DEF a, b
<1>4. /\ run'.work \in Seq(Groups) /\ Len(run'.work) = Len(run.work) + 1
      /\ run'.work[1] = a /\ run'.work[2] = b
      /\ \A i \in 3 .. Len(run.work) + 1 : run'.work[i] = run.work[i - 1]
  BY <1>1, <1>3, FrontTwo DEF a, b
<1>5. DOMAIN run'.work = 1 .. Len(run.work) + 1 /\ DOMAIN run.work = 1 .. Len(run.work)
  BY <1>1, <1>4
<1>6. o \in [DOMAIN run'.work -> DOMAIN run.work]
  BY <1>2, <1>5
<1>6a. o[1] = 1 /\ o[2] = 1 /\ \A i \in DOMAIN run'.work : i # 1 /\ i # 2 => o[i] = i - 1 /\ i - 1 >= 2
  BY <1>2, <1>5
<1>7. \A i \in DOMAIN run'.work : /\ run'.work[i].errors = run.work[o[i]].errors
                                  /\ run'.work[i].item = run.work[o[i]].item
                                  /\ run'.work[i].of \subseteq run.work[o[i]].of
  <2> SUFFICES ASSUME NEW i \in DOMAIN run'.work
               PROVE  /\ run'.work[i].errors = run.work[o[i]].errors
                      /\ run'.work[i].item = run.work[o[i]].item
                      /\ run'.work[i].of \subseteq run.work[o[i]].of
    OBVIOUS
  <2>1. CASE i = 1
    BY <1>2, <1>3, <1>4, <2>1
  <2>2. CASE i = 2
    BY <1>2, <1>3, <1>4, <1>6a, <2>2
  <2>3. CASE i # 1 /\ i # 2
    <3>1. i \in 3 .. Len(run.work) + 1 /\ o[i] = i - 1
      BY <1>2, <1>5, <2>3
    <3> QED
      BY <1>4, <3>1
  <2> QED
    BY <2>1, <2>2, <2>3
<1>8. \A i, j \in DOMAIN run'.work :
        i # j /\ o[i] = o[j] => run'.work[i].of \cap run'.work[j].of = {}
  <2> SUFFICES ASSUME NEW i \in DOMAIN run'.work, NEW j \in DOMAIN run'.work, i # j, o[i] = o[j]
               PROVE  run'.work[i].of \cap run'.work[j].of = {}
    OBVIOUS
  <2>1. (i = 1 /\ j = 2) \/ (i = 2 /\ j = 1)
    <3> HIDE DEF o
    <3>1. i \in Int /\ j \in Int
      BY <1>2, <1>5
    <3>2. \A k \in DOMAIN run'.work : k = 1 \/ k = 2 \/ (o[k] = k - 1 /\ o[k] >= 2)
      BY <1>6a
    <3>3. i = 1 \/ i = 2 \/ (o[i] = i - 1 /\ o[i] >= 2)
      BY <3>2
    <3>4. j = 1 \/ j = 2 \/ (o[j] = j - 1 /\ o[j] >= 2)
      BY <3>2
    <3>5. CASE o[i] = 1
      <4>1. ~(o[i] >= 2) /\ ~(o[j] >= 2)
        BY <3>5
      <4> QED
        BY <3>3, <3>4, <4>1
    <3>6. CASE o[i] # 1
      <4>1. o[i] = i - 1 /\ o[j] = j - 1
        BY <1>6a, <3>3, <3>4, <3>6
      <4>2. i - 1 = j - 1
        BY <4>1
      <4> QED
        BY <3>1, <4>2
    <3> QED
      BY <3>5, <3>6
  <2> QED
    BY <1>3, <1>4, <2>1
<1> HIDE DEF o
<1> QED
  BY <1>4, <1>6, <1>7, <1>8, Derived

(* The files as they are read for a delivery: one group of snapshots, if   *)
(* there are any, and one of errors after it.                              *)
FilesRead(errors, file) ==
  [errors |-> errors, of |-> {s \in run.scope : file[s] # None}, item |-> file]

(* The groups that a drain goes through are those two, if they are not     *)
(* empty.                                                                  *)
LEMMA DrainWork ==
  ASSUME TInv, Drain
  PROVE  LET p == FilesRead(FALSE, pending')
             e == FilesRead(TRUE, error')
         IN  /\ FilesOK' /\ p \in Groups /\ e \in Groups
             /\ p.errors = FALSE /\ p.item = pending' /\ p.of = {s \in run.scope : pending'[s] # None}
             /\ e.errors = TRUE /\ e.item = error' /\ e.of = {s \in run.scope : error'[s] # None}
             /\ run'.work \in Seq(Groups) /\ DOMAIN run'.work \subseteq {1, 2}
             /\ \A i \in DOMAIN run'.work : run'.work[i] \in {p, e}
             /\ 2 \in DOMAIN run'.work => run'.work[2] = e
             /\ p.of # {} => 1 \in DOMAIN run'.work /\ run'.work[1] = p
             /\ e.of # {} => \E i \in DOMAIN run'.work : run'.work[i] = e
             /\ run' = [run EXCEPT !.pc = "post", !.stale = {}, !.retired = {}, !.work = run'.work]
<1> USE ConstantsAssumption
<1> DEFINE p == FilesRead(FALSE, pending')
           e == FilesRead(TRUE, error')
<1>1. FilesOK /\ run \in Runs /\ run.scope \subseteq Source
  BY DEF TInv, RunOK, Runs
<1>2. FilesOK'
  BY <1>1 DEF Drain, FilesOK
<1>3. p \in Groups /\ e \in Groups
  BY <1>1, <1>2 DEF FilesRead, Groups, FilesOK
<1>4. /\ p.errors = FALSE /\ p.item = pending' /\ p.of = {s \in run.scope : pending'[s] # None}
      /\ e.errors = TRUE /\ e.item = error' /\ e.of = {s \in run.scope : error'[s] # None}
  BY DEF FilesRead
<1> DEFINE work == (IF p.of = {} THEN <<>> ELSE <<p>>) \o (IF e.of = {} THEN <<>> ELSE <<e>>)
<1>5. run' = [run EXCEPT !.pc = "post", !.stale = {}, !.retired = {}, !.work = work]
  BY <1>4 DEF Drain, FilesRead
<1> HIDE DEF p, e
<1>6. /\ work \in {<<>>, <<p>>, <<e>>, <<p>> \o <<e>>} /\ (p.of # {} => work \in {<<p>>, <<p>> \o <<e>>})
      /\ (e.of # {} => work \in {<<e>>, <<p>> \o <<e>>})
  <2>1. <<p>> \in Seq(Groups) /\ <<e>> \in Seq(Groups) /\ <<>> \in Seq(Groups)
    BY <1>3
  <2>2. <<>> \o <<>> = <<>> /\ <<>> \o <<e>> = <<e>> /\ <<p>> \o <<>> = <<p>>
    BY <2>1, ConcatEmptySeq
  <2> QED
    BY <2>2
<1>7. run'.work = work
  BY <1>1, <1>5 DEF Runs
<1> HIDE DEF work
<1>8. /\ work \in Seq(Groups) /\ DOMAIN work \subseteq {1, 2}
      /\ \A i \in DOMAIN work : work[i] \in {p, e}
      /\ 2 \in DOMAIN work => work[2] = e
      /\ p.of # {} => 1 \in DOMAIN work /\ work[1] = p
      /\ e.of # {} => \E i \in DOMAIN work : work[i] = e
  <2>1. CASE work = <<>>
    <3>1. Len(work) = 0 /\ Len(<<p>>) = 1 /\ Len(<<e>>) = 1 /\ Len(<<p>> \o <<e>>) = 2
      BY <1>3, <2>1
    <3> QED
      BY <1>6, <2>1, <3>1
  <2>2. CASE work = <<p>>
    <3>1. Len(work) = 1 /\ Len(<<p>> \o <<e>>) = 2 /\ <<e>>[1] = e /\ <<p>>[1] = p
          /\ 1 \in DOMAIN work /\ DOMAIN work = {1} /\ work \in Seq(Groups)
      BY <1>3, <2>2
    <3>2. e.of # {} => work = <<e>>
      BY <1>6, <3>1
    <3> QED
      BY <2>2, <3>1, <3>2
  <2>3. CASE work = <<e>> /\ work # <<p>>
    <3>1. CASE p.of = {}
      <4>1. work \in Seq(Groups) /\ DOMAIN work = {1} /\ work[1] = e
        BY <1>3, <2>3
      <4> QED
        BY <2>3, <3>1, <4>1
    <3>2. CASE p.of # {}
      <4>1. work = <<p>> \o <<e>>
        BY <1>6, <2>3, <3>2
      <4>2. Len(<<p>> \o <<e>>) = 2 /\ Len(<<e>>) = 1
        BY <1>3
      <4> QED
        BY <2>3, <4>1, <4>2
    <3> QED
      BY <3>1, <3>2
  <2>4. CASE work = <<p>> \o <<e>>
    <3>1. <<p>> \in Seq(Groups) /\ <<e>> \in Seq(Groups) /\ Len(<<p>>) = 1 /\ Len(<<e>>) = 1
          /\ <<p>>[1] = p /\ <<e>>[1] = e
      BY <1>3
    <3>2. /\ work \in Seq(Groups) /\ Len(work) = 1 + 1
          /\ \A i \in 1 .. 1 + 1 : work[i] = IF i <= 1 THEN <<p>>[i] ELSE <<e>>[i - 1]
      BY <2>4, <3>1, ConcatProperties
    <3>3. DOMAIN work = {1, 2} /\ work[1] = p /\ work[2] = e
      <4>1. DOMAIN work = 1 .. 2 /\ 1 .. 2 = {1, 2}
        BY <3>2
      <4>2. work[1] = <<p>>[1] /\ work[2] = <<e>>[2 - 1]
        BY <3>2
      <4> QED
        BY <3>1, <4>1, <4>2
    <3> QED
      BY <3>2, <3>3
  <2> QED
    BY <1>6, <2>1, <2>2, <2>3, <2>4
<1> QED
  BY <1>2, <1>3, <1>4, <1>5, <1>7, <1>8 DEF p, e

(* Reading the files keeps the types. *)
LEMMA DrainType ==
  ASSUME TInv, Drain
  PROVE  TInv'
<1> USE ConstantsAssumption
<1>1. /\ DiskOK /\ FilesOK /\ WorldOK /\ server \in Views /\ RunOK /\ run \in Runs
  BY DEF TInv, RunOK, Runs
<1> DEFINE p == FilesRead(FALSE, pending')
           e == FilesRead(TRUE, error')
<1> HIDE DEF p, e
<1>2. /\ FilesOK' /\ p.errors = FALSE /\ p.item = pending' /\ e.errors = TRUE /\ e.item = error'
      /\ p.of = {s \in run.scope : pending'[s] # None}
      /\ e.of = {s \in run.scope : error'[s] # None}
      /\ run'.work \in Seq(Groups) /\ DOMAIN run'.work \subseteq {1, 2}
      /\ \A i \in DOMAIN run'.work : run'.work[i] \in {p, e}
      /\ 2 \in DOMAIN run'.work => run'.work[2] = e
      /\ run' = [run EXCEPT !.pc = "post", !.stale = {}, !.retired = {}, !.work = run'.work]
  BY DrainWork DEF p, e
<1>3. run.scope \subseteq Source
  BY <1>1 DEF Runs
<1>4. (\A s \in p.of : pending'[s] \in Snapshots) /\ (\A s \in e.of : error'[s] \in Failures)
  BY <1>2, <1>3 DEF FilesOK
<1>5. run' \in Runs /\ run'.pc = "post"
  BY <1>1, <1>2 DEF Runs, PCs
<1>6. RunOK'
  BY <1>5 DEF RunOK, Delivering
<1>7. \A i, j \in DOMAIN run'.work : i # j => run'.work[i].errors \/ run'.work[j].errors
  BY <1>2
<1>8. Filled'
  BY <1>2, <1>4 DEF Filled
<1>9. Apart'
  BY <1>7 DEF Apart
<1>10. OnFile'
  BY <1>2, <1>4, <1>5 DEF OnFile, Due
<1>11. (DiskOK /\ WorldOK /\ server \in Views)'
  BY <1>1 DEF Drain, DiskOK, WorldOK, config, world
<1> QED
  BY <1>2, <1>6, <1>8, <1>9, <1>10, <1>11 DEF TInv, WorkOK

(* The facts about the group at hand. *)
LEMMA AtHand ==
  ASSUME TInv, run.work # <<>>
  PROVE  /\ Group = run.work[1] /\ Group \in Groups /\ 1 \in DOMAIN run.work
         /\ Batch = Group.of /\ Batch \subseteq Source
         /\ \A s \in Batch : Group.item[s] \in (IF Group.errors THEN Failures ELSE Snapshots)
         /\ \A s \in Batch : Group.item[s] \in Items
         /\ Tail(run.work) \in Seq(Groups)
<1>1. run.work \in Seq(Groups)
  BY DEF TInv, RunOK, Runs
<1>2. Group = run.work[1] /\ Group \in Groups /\ 1 \in DOMAIN run.work /\ Tail(run.work) \in Seq(Groups)
  BY <1>1, Rest DEF Group
<1>3. Batch = Group.of /\ Batch \subseteq Source
  BY <1>2 DEF Batch, Groups
<1>4. \A s \in Batch : Group.item[s] \in (IF Group.errors THEN Failures ELSE Snapshots)
  BY <1>2, <1>3 DEF TInv, WorkOK, Filled
<1> QED
  BY <1>2, <1>3, <1>4

(* A request, whatever becomes of it, keeps the types. *)
LEMMA PostType ==
  ASSUME TInv, PostAnswered \/ PostFails
  PROVE  TInv'
<1> USE ConstantsAssumption
<1>1. DiskOK /\ FilesOK /\ WorldOK /\ server \in Views /\ RunOK /\ WorkOK /\ run \in Runs
  BY DEF TInv, RunOK
<1>2. run.work # <<>> /\ run.pc = "post" /\ Fresh \subseteq Batch /\ Batch \subseteq Source
  BY AtHand DEF PostAnswered, PostFails, Posting, At, Fresh
<1>3. CASE PostAnswered
  <2>1. server' \in Views
    BY <1>3, TakeInType DEF PostAnswered
  <2>2. PICK again \in BOOLEAN :
          /\ again => losses < MaxLost
          /\ losses' = IF again THEN losses + 1 ELSE losses
          /\ run' = [run EXCEPT !.pc = "remember", !.taken = IF again THEN {} ELSE Fresh]
    BY <1>3 DEF PostAnswered
  <2>3. losses' \in 0 .. MaxLost
    BY <1>1, <2>2 DEF WorldOK
  <2>4. PICK taken \in SUBSET Source : run' = [run EXCEPT !.pc = "remember", !.taken = taken]
    BY <1>2, <2>2
  <2>5. run' \in Runs /\ run'.pc = "remember" /\ run'.work = run.work
    BY <1>1, <2>4 DEF Runs, PCs
  <2>6. RunOK'
    BY <1>2, <2>5 DEF RunOK, Delivering
  <2>7. UNCHANGED <<state, mem, files, config, compact, made, world>>
    BY <1>3 DEF PostAnswered
  <2>8. (DiskOK /\ FilesOK /\ WorldOK)'
    BY <1>1, <2>3, <2>7 DEF DiskOK, FilesOK, WorldOK, files, config, world
  <2>9. \A i : Due(i)' = Due(i)
    BY <1>2, <2>5 DEF Due
  <2>10. UNCHANGED pending
    BY <2>7 DEF files
  <2>11. Filled' /\ Apart'
    BY <1>1, <2>5 DEF WorkOK, Filled, Apart
  <2>12. OnFile'
    BY <1>1, <2>5, <2>9, <2>10 DEF WorkOK, OnFile
  <2> QED
    BY <2>1, <2>6, <2>8, <2>11, <2>12 DEF TInv, WorkOK
<1>4. CASE PostFails
  <2>1. server' \in Views
    BY <1>1, <1>4, TakeInType DEF PostFails
  <2>2. losses' \in 0 .. MaxLost
    BY <1>1, <1>4 DEF PostFails, WorldOK
  <2>3. Leaves /\ UNCHANGED <<state, files, config, compact, made, world>>
    BY <1>4 DEF PostFails
  <2> QED
    BY <1>1, <2>1, <2>2, <2>3, LeavesOK DEF TInv, DiskOK, FilesOK, WorldOK, files, config, world
<1> QED
  BY <1>3, <1>4

(* A refused batch is halved, quarantined or retired, and keeps the types. *)
LEMMA RefusedType ==
  ASSUME TInv, Bisect \/ RefuseOne \/ DropRetired
  PROVE  TInv'
<1> USE ConstantsAssumption
<1>1. /\ DiskOK /\ FilesOK /\ WorldOK /\ server \in Views /\ RunOK /\ WorkOK /\ run \in Runs
      /\ run.work \in Seq(Groups)
  BY DEF TInv, RunOK, Runs
<1>2. run.work # <<>> /\ run.pc = "post"
  BY DEF Bisect, RefuseOne, DropRetired, Posting, At
<1>3. Group \in Groups /\ Batch \subseteq Source /\ Tail(run.work) \in Seq(Groups)
      /\ \A s \in Batch : Group.item[s] \in Items
  BY <1>2, AtHand
<1>4. UNCHANGED <<state, mem, config, server, compact, made, losses, world>>
  BY DEF Bisect, RefuseOne, DropRetired
<1>5. (DiskOK /\ WorldOK /\ server \in Views)'
  BY <1>1, <1>4 DEF DiskOK, WorldOK, config, world
<1>6. ASSUME NEW w \in Seq(Groups), NEW b \in SUBSET Source, NEW r \in SUBSET Source,
             run' = [run EXCEPT !.work = w, !.blocked = b, !.retired = r]
      PROVE  RunOK' /\ run'.pc = "post" /\ run'.work = w
  <2>1. run' \in Runs /\ run'.pc = "post" /\ run'.work = w
    BY <1>1, <1>2, <1>6 DEF Runs
  <2> QED
    BY <2>1 DEF RunOK, Delivering
<1>7. CASE Bisect
  <2>1. PICK left \in SUBSET Batch :
          run' = [run EXCEPT !.work =
            << [Group EXCEPT !.of = left], [Group EXCEPT !.of = Batch \ left] >> \o Tail(@)]
    BY <1>7 DEF Bisect
  <2> DEFINE w == << [Group EXCEPT !.of = left], [Group EXCEPT !.of = Batch \ left] >>
                    \o Tail(run.work)
  <2>2. run'.work = w /\ run'.pc = "post" /\ pending' = pending
    BY <1>1, <1>2, <1>7, <2>1 DEF Runs, Bisect, files
  <2>3. run'.work \in Seq(Groups) /\ WorkOK'
    BY <1>2, <2>2, Halved
  <2>4. RunOK'
    <3>1. run' = [run EXCEPT !.work = w, !.blocked = run.blocked, !.retired = run.retired]
      BY <1>1, <2>1 DEF Runs
    <3>2. run.blocked \in SUBSET Source /\ run.retired \in SUBSET Source
      BY <1>1 DEF Runs
    <3> HIDE DEF w
    <3> QED
      BY <1>6, <2>2, <2>3, <3>1, <3>2
  <2> QED
    BY <1>1, <1>5, <1>7, <2>3, <2>4 DEF TInv, Bisect, FilesOK, files
<1>8. CASE RefuseOne
  <2>1. PICK s \in Batch :
          /\ Batch = {s} /\ RemoveFile(s)
          /\ IF Group.item[s].data \in Bad
             THEN /\ quarantine' = [quarantine EXCEPT ![s] = Group.item[s].data]
                  /\ run' = [run EXCEPT !.work = Tail(@), !.blocked = @ \cup {s}]
             ELSE /\ run' = [run EXCEPT !.work = Tail(@), !.retired = @ \cup {s}]
                  /\ UNCHANGED quarantine
    BY <1>8 DEF RefuseOne
  <2>2. FilesOK'
    BY <1>1, <1>3, <2>1 DEF FilesOK, RemoveFile
  <2>3. PICK b \in SUBSET Source, r \in SUBSET Source :
          run' = [run EXCEPT !.work = Tail(run.work), !.blocked = b, !.retired = r]
    <3>1. /\ run.blocked \subseteq Source /\ run.retired \subseteq Source
          /\ run.blocked \cup {s} \subseteq Source /\ run.retired \cup {s} \subseteq Source
      BY <1>1, <1>3 DEF Runs
    <3>2. CASE Group.item[s].data \in Bad
      <4>1. run' = [run EXCEPT !.work = Tail(run.work), !.blocked = run.blocked \cup {s},
                              !.retired = run.retired]
        BY <1>1, <2>1, <3>2 DEF Runs
      <4> QED
        BY <3>1, <4>1
    <3>3. CASE Group.item[s].data \notin Bad
      <4>1. run' = [run EXCEPT !.work = Tail(run.work), !.blocked = run.blocked,
                              !.retired = run.retired \cup {s}]
        BY <1>1, <2>1, <3>3 DEF Runs
      <4> QED
        BY <3>1, <4>1
    <3> QED
      BY <3>2, <3>3
  <2>4. RunOK' /\ run'.pc = "post" /\ run'.work = Tail(run.work)
    BY <1>3, <1>6, <2>3
  <2>5. \A t \in Source : t \notin Batch \/ Group.errors => pending'[t] = pending[t]
    BY <1>1, <2>1 DEF RemoveFile, FilesOK
  <2>6. WorkOK'
    BY <1>2, <2>4, <2>5, Popped
  <2> QED
    BY <1>5, <2>2, <2>4, <2>6 DEF TInv
<1>9. CASE DropRetired
  <2> DEFINE left == Batch \ run.retired
  <2>1. run' = [run EXCEPT !.work = (IF left = {} THEN <<>> ELSE <<[Group EXCEPT !.of = left]>>)
                                     \o Tail(@)]
        /\ UNCHANGED <<pending, quarantine>>
    BY <1>9 DEF DropRetired
  <2>2. FilesOK'
    BY <1>1, <1>9, <2>1 DEF FilesOK, DropRetired
  <2> DEFINE w == (IF left = {} THEN <<>> ELSE <<[Group EXCEPT !.of = left]>>) \o Tail(run.work)
  <2>3. run'.work = w /\ run'.pc = "post"
    BY <1>1, <1>2, <2>1 DEF Runs
  <2>4. ASSUME left = {} PROVE run'.work \in Seq(Groups) /\ WorkOK'
    <3>0. <<>> \o Tail(run.work) = Tail(run.work)
      BY <1>3
    <3>1. run'.work = Tail(run.work) /\ run'.pc \notin {"ack", "acked"}
      BY <2>3, <2>4, <3>0
    <3>2. \A t \in Source : pending'[t] = pending[t]
      BY <2>1
    <3>3. WorkOK'
      BY <1>2, <3>1, <3>2, Popped
    <3> QED
      BY <1>3, <3>1, <3>3
  <2>5. ASSUME left # {} PROVE run'.work \in Seq(Groups) /\ WorkOK'
    <3>1. run'.work = <<[Group EXCEPT !.of = left]>> \o Tail(run.work)
      BY <2>3, <2>5
    <3>2. left \in SUBSET Batch /\ run'.pc = "post" /\ pending' = pending
      BY <2>1, <2>3
    <3> HIDE DEF left
    <3> QED
      BY <1>2, <3>1, <3>2, Narrowed
  <2>6. run'.work \in Seq(Groups) /\ WorkOK'
    BY <2>4, <2>5
  <2>7. RunOK'
    <3>1. run' = [run EXCEPT !.work = w, !.blocked = run.blocked, !.retired = run.retired]
      BY <1>1, <2>1 DEF Runs
    <3>2. run.blocked \in SUBSET Source /\ run.retired \in SUBSET Source
      BY <1>1 DEF Runs
    <3> HIDE DEF w
    <3> QED
      BY <1>6, <2>3, <2>6, <3>1, <3>2
  <2> QED
    BY <1>5, <2>2, <2>6, <2>7 DEF TInv
<1> QED
  BY <1>7, <1>8, <1>9

(* Writing down the server's sequences keeps the types. *)
LEMMA RememberType ==
  ASSUME TInv, Remember
  PROVE  TInv'
<1> USE ConstantsAssumption
<1>1. /\ DiskOK /\ FilesOK /\ WorldOK /\ server \in Views /\ RunOK /\ WorkOK /\ run \in Runs
      /\ state \in StateType
  BY DEF TInv, RunOK, DiskOK
<1>2. run.pc = "remember" /\ run.work # <<>>
  BY <1>1 DEF Remember, At, RunOK
<1>3. Batch \subseteq Source /\ Group = run.work[1] /\ Batch = Group.of
  BY <1>2, AtHand
<1>4. run' = [run EXCEPT !.pc = "ack", !.todo = Batch]
  BY DEF Remember
<1>5. run' \in Runs /\ run'.work = run.work /\ run'.pc = "ack" /\ run'.todo = Batch
  BY <1>1, <1>3, <1>4 DEF Runs, PCs
<1>6. Group' = Group /\ Batch' = Batch
  BY <1>5 DEF Group, Batch
<1>7. state' \in StateType
  <2> DEFINE a == [s \in Source |-> IF s \in Batch THEN Later(state.seq[s], server.last[s])
                                   ELSE state.seq[s]]
  <2>1. state' = [state EXCEPT !.seq = a, !.missing = state.missing \ Batch]
    BY <1>1 DEF Remember
  <2>2. a \in [Source -> Nat]
    BY <1>1 DEF Later, Views
  <2> HIDE DEF a
  <2> QED
    BY <1>1, <2>1, <2>2
<1>8. known' \in [Source -> Nat]
  BY <1>1 DEF Remember, DiskOK, Views
<1>9. UNCHANGED <<mem, files, mapped, server, compact, made, losses, world>>
  BY DEF Remember
<1>10. (DiskOK /\ FilesOK /\ WorldOK /\ server \in Views)'
  BY <1>1, <1>7, <1>8, <1>9 DEF DiskOK, FilesOK, WorldOK, files, world
<1>11. Filled' /\ Apart'
  BY <1>1, <1>5 DEF WorkOK, Filled, Apart
<1>12. OnFile'
  <2>1. \A i \in DOMAIN run.work : Due(i)' = Due(i)
    BY <1>2, <1>3, <1>5 DEF Due
  <2> QED
    BY <1>1, <1>5, <1>9, <2>1 DEF WorkOK, OnFile, files
<1>13. RunOK'
  BY <1>2, <1>5, <1>6 DEF RunOK, Delivering
<1> QED
  BY <1>10, <1>11, <1>12, <1>13 DEF TInv, WorkOK

(* Renumbering a stale snapshot, or moving a cursor, keeps the types. *)
LEMMA AckType ==
  ASSUME TInv, NEW s \in Source, Ack(s)
  PROVE  TInv'
<1> USE ConstantsAssumption
<1>1. /\ DiskOK /\ FilesOK /\ WorldOK /\ server \in Views /\ RunOK /\ WorkOK /\ run \in Runs
      /\ state \in StateType
  BY DEF TInv, RunOK, DiskOK
<1>2. run.pc = "ack" /\ run.work # <<>> /\ run.todo \subseteq Batch /\ s \in run.todo
  BY <1>1 DEF Ack, At, RunOK
<1>3. /\ Batch \subseteq Source /\ Group = run.work[1] /\ Batch = Group.of /\ 1 \in DOMAIN run.work
      /\ Due(1) = run.todo
  BY <1>2, AtHand DEF Due
<1>4. run' = [run EXCEPT !.pc = "acked", !.cur = s]
  BY DEF Ack
<1>5. /\ run' \in Runs /\ run'.work = run.work /\ run'.pc = "acked" /\ run'.todo = run.todo
      /\ run'.cur = s
  BY <1>1, <1>4 DEF Runs, PCs
<1>6. Group' = Group /\ Batch' = Batch
  BY <1>5 DEF Group, Batch
<1>7. RunOK'
  BY <1>2, <1>5, <1>6 DEF RunOK, Delivering
<1>8. ~Group.errors => pending[s] \in Snapshots /\ pending[s].data = Group.item[s].data
  BY <1>1, <1>2, <1>3 DEF WorkOK, OnFile
<1>9. state' \in StateType
  <2>1. state.cursor \in [Source -> 0 .. Chunks]
    BY <1>1
  <2>2. CASE state' = state
    BY <1>1, <2>2
  <2>3. CASE /\ Group.item[s].data \in Chunk
             /\ state' = [state EXCEPT !.cursor[s] = Group.item[s].data + 1]
    <3>1. Group.item[s].data + 1 \in 0 .. Chunks
      BY <2>3
    <3> QED
      BY <1>1, <2>1, <2>3, <3>1
  <2> QED
    BY <2>2, <2>3 DEF Ack
<1>10. FilesOK' /\ \A t \in Source : pending[t] \in Snapshots =>
         /\ pending'[t] \in Snapshots /\ pending'[t].data = pending[t].data
         /\ pending'[t].at = pending[t].at
  <2>1. CASE Stale(s)
    <3>1. pending' = [pending EXCEPT ![s].seq = known[s] + 1] /\ error' = [error EXCEPT ![s] = None]
          /\ quarantine' = quarantine
      BY <2>1 DEF Ack
    <3>2. pending[s] \in Snapshots /\ known[s] + 1 \in Nat
      BY <1>1, <1>8, <2>1 DEF Stale, DiskOK
    <3>3. [pending[s] EXCEPT !.seq = known[s] + 1] \in Snapshots
          /\ [pending[s] EXCEPT !.seq = known[s] + 1].data = pending[s].data
          /\ [pending[s] EXCEPT !.seq = known[s] + 1].at = pending[s].at
      BY <3>2
    <3>4. pending' = [pending EXCEPT ![s] = [pending[s] EXCEPT !.seq = known[s] + 1]]
      BY <3>1
    <3> HIDE DEF Snapshots
    <3> QED
      BY <1>1, <3>1, <3>3, <3>4 DEF FilesOK
  <2>2. CASE ~Stale(s)
    BY <1>1, <2>2 DEF Ack, FilesOK
  <2> QED
    BY <2>1, <2>2
<1>11. UNCHANGED <<mem, quarantine, config, server, compact, made, losses, world>>
  BY DEF Ack
<1>12. (DiskOK /\ WorldOK /\ server \in Views)'
  BY <1>1, <1>9, <1>11 DEF DiskOK, WorldOK, config, world
<1>13. Filled' /\ Apart'
  BY <1>1, <1>5 DEF WorkOK, Filled, Apart
<1>14. OnFile'
  <2>1. \A i \in DOMAIN run.work : Due(i)' = Due(i)
    BY <1>2, <1>3, <1>5 DEF Due
  <2> SUFFICES ASSUME NEW i \in DOMAIN run.work, ~run.work[i].errors, NEW t \in Due(i)
               PROVE  /\ pending'[t] \in Snapshots
                      /\ pending'[t].data = run.work[i].item[t].data
                      /\ pending'[t].at = run.work[i].item[t].at
    BY <1>5, <2>1 DEF OnFile
  <2>2. /\ pending[t] \in Snapshots /\ pending[t].data = run.work[i].item[t].data
        /\ pending[t].at = run.work[i].item[t].at
    BY <1>1 DEF WorkOK, OnFile
  <2>3. t \in Source
    <3>1. run.work[i] \in Groups
      BY <1>1 DEF Runs
    <3> QED
      BY <1>2, <1>3, <3>1 DEF Due, Groups
  <2> QED
    BY <1>10, <2>2, <2>3
<1> QED
  BY <1>7, <1>10, <1>12, <1>13, <1>14 DEF TInv, WorkOK

(* Where the run goes from an answer that was acted on. *)
LEMMA AckedRun ==
  ASSUME run \in Runs, Acked
  PROVE  LET left == run.todo \ {run.cur}
             late == IF Stale(run.cur) THEN run.stale \cup {run.cur} ELSE run.stale
         IN  run' = [run EXCEPT !.pc = IF left = {} THEN "post" ELSE "ack", !.todo = left,
                               !.work = IF left = {} THEN Tail(@) ELSE @, !.stale = late]
<1> DEFINE left == run.todo \ {run.cur}
           next == [run EXCEPT !.pc = IF left = {} THEN "post" ELSE "ack", !.todo = left,
                              !.work = IF left = {} THEN Tail(@) ELSE @]
<1>1. CASE Stale(run.cur)
  <2>1. run' = [next EXCEPT !.stale = @ \cup {run.cur}]
    BY <1>1 DEF Acked
  <2>2. run' = [next EXCEPT !.stale = run.stale \cup {run.cur}]
    BY <2>1 DEF Runs
  <2> QED
    BY <1>1, <2>2
<1>2. CASE ~Stale(run.cur)
  <2>1. run' = next
    BY <1>2 DEF Acked
  <2>2. run' = [next EXCEPT !.stale = run.stale]
    BY <2>1 DEF Runs
  <2> QED
    BY <1>2, <2>2
<1> QED
  BY <1>1, <1>2

(* Removing a delivered file, or keeping a stale one, keeps the types. *)
LEMMA AckedType ==
  ASSUME TInv, Acked
  PROVE  TInv'
<1> USE ConstantsAssumption
<1>1. /\ DiskOK /\ FilesOK /\ WorldOK /\ server \in Views /\ RunOK /\ WorkOK /\ run \in Runs
      /\ state \in StateType /\ run.work \in Seq(Groups)
  BY DEF TInv, RunOK, DiskOK, Runs
<1>2. run.pc = "acked" /\ run.work # <<>> /\ run.todo \subseteq Batch /\ run.cur \in run.todo
  BY <1>1 DEF Acked, At, RunOK
<1>3. /\ Batch \subseteq Source /\ Group = run.work[1] /\ Batch = Group.of /\ 1 \in DOMAIN run.work
      /\ Due(1) = run.todo /\ Tail(run.work) \in Seq(Groups) /\ run.todo \subseteq Source
      /\ run.cur \in Source
  BY <1>2, AtHand DEF Due
<1> DEFINE s == run.cur
           left == run.todo \ {s}
<1>4. ~Group.errors => pending[s] \in Snapshots
  BY <1>1, <1>2, <1>3 DEF WorkOK, OnFile
<1>5. /\ \A t \in Source \ {s} : pending'[t] = pending[t]
      /\ Group.errors => pending' = pending
      /\ Stale(s) => pending' = pending
  <2>1. CASE Stale(s)
    BY <2>1 DEF Acked, files, Stale
  <2>2. CASE ~Stale(s)
    BY <1>1, <1>3, <2>2 DEF Acked, RemoveFile, FilesOK
  <2> QED
    BY <2>1, <2>2
<1>6. FilesOK'
  <2>1. CASE Stale(s)
    BY <1>1, <2>1 DEF Acked, files, FilesOK
  <2>2. CASE ~Stale(s)
    BY <1>1, <1>3, <2>2 DEF Acked, RemoveFile, FilesOK
  <2> QED
    BY <2>1, <2>2
<1>7. state' \in StateType
  <2>1. CASE Stale(s)
    <3>1. pending[s].seq \in Nat /\ state' = [state EXCEPT !.seq[s] = pending[s].seq]
      BY <1>4, <2>1 DEF Stale, Acked
    <3>2. state.seq \in [Source -> Nat]
      BY <1>1
    <3>3. [state.seq EXCEPT ![s] = pending[s].seq] \in [Source -> Nat]
      BY <3>1, <3>2
    <3>4. state' = [state EXCEPT !.seq = [state.seq EXCEPT ![s] = pending[s].seq]]
      BY <3>1
    <3> QED
      BY <1>1, <3>3, <3>4
  <2>2. CASE ~Stale(s)
    BY <1>1, <2>2 DEF Acked
  <2> QED
    BY <2>1, <2>2
<1>8. UNCHANGED <<mem, config, server, compact, made, losses, world>>
  BY DEF Acked
<1>9. (DiskOK /\ WorldOK /\ server \in Views)'
  BY <1>1, <1>7, <1>8 DEF DiskOK, WorldOK, config, world
<1>10. PICK late \in SUBSET Source :
         run' = [run EXCEPT !.pc = IF left = {} THEN "post" ELSE "ack", !.todo = left,
                           !.work = IF left = {} THEN Tail(@) ELSE @, !.stale = late]
  <2>1. run.stale \subseteq Source /\ run.stale \cup {s} \subseteq Source
    BY <1>1, <1>3 DEF Runs
  <2>2. PICK late \in {run.stale, run.stale \cup {s}} :
          run' = [run EXCEPT !.pc = IF left = {} THEN "post" ELSE "ack", !.todo = left,
                            !.work = IF left = {} THEN Tail(@) ELSE @, !.stale = late]
    BY <1>1, AckedRun
  <2> QED
    BY <2>1, <2>2
<1>11. ASSUME left = {} PROVE RunOK' /\ WorkOK'
  <2>1. run' = [run EXCEPT !.pc = "post", !.todo = left, !.work = Tail(run.work), !.stale = late]
    BY <1>10, <1>11
  <2>2. run' \in Runs /\ run'.pc = "post" /\ run'.work = Tail(run.work)
    BY <1>1, <1>3, <2>1 DEF Runs, PCs
  <2>3. RunOK'
    BY <2>2 DEF RunOK, Delivering
  <2>4. \A t \in Source : t \notin Batch \/ Group.errors => pending'[t] = pending[t]
    BY <1>2, <1>5
  <2>5. WorkOK'
    BY <1>2, <2>2, <2>4, Popped
  <2> QED
    BY <2>3, <2>5
<1>12. ASSUME left # {} PROVE RunOK' /\ WorkOK'
  <2>1. run' = [run EXCEPT !.pc = "ack", !.todo = left, !.work = run.work, !.stale = late]
    BY <1>10, <1>12
  <2>2. run' \in Runs /\ run'.pc = "ack" /\ run'.work = run.work /\ run'.todo = left
    BY <1>1, <1>3, <2>1 DEF Runs, PCs
  <2>3. Group' = Group /\ Batch' = Batch
    BY <2>2 DEF Group, Batch
  <2>4. RunOK'
    BY <1>2, <2>2, <2>3 DEF RunOK, Delivering
  <2>5. Filled' /\ Apart'
    BY <1>1, <2>2 DEF WorkOK, Filled, Apart
  <2>6. OnFile'
    <3>1. \A i \in DOMAIN run.work : Due(i)' = IF i = 1 THEN left ELSE Due(i)
      BY <1>2, <2>2 DEF Due
    <3> SUFFICES ASSUME NEW i \in DOMAIN run.work, ~run.work[i].errors, NEW t \in Due(i)'
                 PROVE  /\ pending'[t] \in Snapshots
                        /\ pending'[t].data = run.work[i].item[t].data
                        /\ pending'[t].at = run.work[i].item[t].at
      BY <2>2 DEF OnFile
    <3>2. t \in Due(i)
      BY <1>3, <3>1
    <3>3. /\ pending[t] \in Snapshots /\ pending[t].data = run.work[i].item[t].data
          /\ pending[t].at = run.work[i].item[t].at
      BY <1>1, <3>2 DEF WorkOK, OnFile
    <3>4. t \in Source
      <4>1. run.work[i] \in Groups
        BY <1>1
      <4> QED
        BY <1>3, <3>2, <4>1 DEF Due, Groups
    <3>5. pending'[t] = pending[t]
      <4>1. CASE i = 1
        BY <1>5, <3>1, <3>4, <4>1
      <4>2. CASE i # 1
        <5>1. CASE Group.errors
          BY <1>5, <5>1
        <5>2. CASE ~Group.errors
          <6>1. t \in run.work[i].of
            BY <3>2, <4>2 DEF Due
          <6>2. t \notin Batch
            BY <1>1, <1>3, <4>2, <5>2, <6>1 DEF WorkOK, Apart
          <6> QED
            BY <1>2, <1>5, <3>4, <6>2
        <5> QED
          BY <5>1, <5>2
      <4> QED
        BY <4>1, <4>2
    <3> QED
      BY <3>3, <3>5
  <2> QED
    BY <2>4, <2>5, <2>6 DEF WorkOK
<1> QED
  BY <1>6, <1>9, <1>11, <1>12 DEF TInv

(* Where the run goes from a drain: once more for stale payloads, on, or   *)
(* away when nothing but failures was collected.                           *)
LEMMA SettleRun ==
  ASSUME Settle
  PROVE  LET again == run.stale # {} /\ run.pass = 1
             Goes(pass, pc) ==
               /\ mem' = mem
               /\ run' = [run EXCEPT !.pass = pass, !.blocked = run.blocked \cup run.retired, !.pc = pc]
         IN  \/ ~again /\ run.stage = "after" /\ run.barren /\ Leaves
             \/ again /\ Goes(2, "drain")
             \/ ~again /\ run.stage = "before" /\ Goes(1, "inspect")
             \/ ~again /\ run.stage # "before" /\ Goes(1, "done")
<1> DEFINE again == run.stale # {} /\ run.pass = 1
           next == [run EXCEPT !.pass = IF again THEN 2 ELSE 1, !.blocked = @ \cup run.retired]
<1>1. \/ ~again /\ run.stage = "after" /\ run.barren /\ Leaves
      \/ /\ mem' = mem
         /\ run' = [next EXCEPT !.pc = IF again THEN "drain"
                                       ELSE IF run.stage = "before" THEN "inspect" ELSE "done"]
  BY DEF Settle
<1>2. CASE again
  <2>1. next = [run EXCEPT !.pass = 2, !.blocked = @ \cup run.retired]
    BY <1>2
  <2>2. mem' = mem /\ run' = [next EXCEPT !.pc = "drain"]
    BY <1>1, <1>2
  <2> HIDE DEF next
  <2>3. run' = [run EXCEPT !.pass = 2, !.blocked = run.blocked \cup run.retired, !.pc = "drain"]
    BY <2>1, <2>2
  <2> QED
    BY <1>2, <2>2, <2>3
<1>3. CASE ~again
  <2>1. next = [run EXCEPT !.pass = 1, !.blocked = @ \cup run.retired]
    BY <1>3
  <2>2. CASE run.stage = "before"
    <3>1. mem' = mem /\ run' = [next EXCEPT !.pc = "inspect"]
      BY <1>1, <1>3, <2>2
    <3> HIDE DEF next
    <3>2. run' = [run EXCEPT !.pass = 1, !.blocked = run.blocked \cup run.retired, !.pc = "inspect"]
      BY <2>1, <3>1
    <3> QED
      BY <1>3, <2>2, <3>1, <3>2
  <2>3. CASE run.stage # "before" /\ ~(run.stage = "after" /\ run.barren /\ Leaves)
    <3>1. mem' = mem /\ run' = [next EXCEPT !.pc = "done"]
      BY <1>1, <1>3, <2>3
    <3> HIDE DEF next
    <3>2. run' = [run EXCEPT !.pass = 1, !.blocked = run.blocked \cup run.retired, !.pc = "done"]
      BY <2>1, <3>1
    <3> QED
      BY <1>3, <2>3, <3>1, <3>2
  <2> QED
    BY <1>3, <2>2, <2>3
<1> QED
  BY <1>2, <1>3

(* The end of a drain keeps the types. *)
LEMMA SettleType ==
  ASSUME TInv, Settle
  PROVE  TInv'
<1> USE ConstantsAssumption
<1>1. /\ DiskOK /\ FilesOK /\ WorldOK /\ server \in Views /\ RunOK /\ WorkOK /\ run \in Runs
      /\ state \in StateType /\ mem \in StateType /\ mapped \subseteq Source
  BY DEF TInv, RunOK, DiskOK
<1>2. FilesOK' /\ mapped' \subseteq Source
  BY <1>1, RetireType DEF Settle
<1>3. state' \in StateType
  BY <1>1, ForgottenType DEF Settle
<1>4. UNCHANGED <<known, server, compact, made, losses, world>>
  BY DEF Settle
<1>5. \/ Leaves
      \/ /\ mem' = mem
         /\ \E pc \in {"drain", "inspect", "done"}, pass \in 1 .. 2 :
              run' = [run EXCEPT !.pass = pass, !.blocked = run.blocked \cup run.retired, !.pc = pc]
  <2>1. 1 \in 1 .. 2 /\ 2 \in 1 .. 2
    OBVIOUS
  <2> QED
    BY <2>1, SettleRun
<1>6. CASE Leaves
  BY <1>1, <1>2, <1>3, <1>4, <1>6, LeavesOK DEF TInv, DiskOK, WorldOK, world
<1>7. ASSUME mem' = mem, NEW pc \in {"drain", "inspect", "done"}, NEW pass \in 1 .. 2,
             run' = [run EXCEPT !.pass = pass, !.blocked = run.blocked \cup run.retired, !.pc = pc]
      PROVE  TInv'
  <2>1. run.work = <<>>
    BY DEF Settle
  <2>2. run' \in Runs /\ run'.work = <<>> /\ run'.pc = pc
    BY <1>1, <1>7, <2>1 DEF Runs, PCs
  <2>3. RunOK' /\ WorkOK'
    BY <2>2, NoWork DEF RunOK
  <2>4. (DiskOK /\ WorldOK /\ server \in Views)'
    BY <1>1, <1>2, <1>3, <1>4, <1>7 DEF DiskOK, WorldOK, world
  <2> QED
    BY <1>2, <2>3, <2>4 DEF TInv
<1> QED
  BY <1>5, <1>6, <1>7

(* Every step keeps the types, whatever goes wrong. *)
LEMMA TypeStep ==
  ASSUME TInv, [Next]_vars
  PROVE  TInv'
<1>1. CASE UNCHANGED vars
  <2>1. UNCHANGED <<state, mem, pending, error, quarantine, known, mapped, server, run, compact,
                    made, losses, usage, changes>>
    BY <1>1 DEF vars, files, config, world
  <2>2. RunOK' /\ WorkOK'
    BY <2>1, SameRun DEF TInv
  <2> QED
    BY <2>1, <2>2 DEF TInv, DiskOK, FilesOK, WorldOK
<1>2. CASE Deliver
  BY <1>2, DrainType, PostType, RefusedType, RememberType, AckType, AckedType, SettleType DEF Deliver
<1> QED
  BY <1>1, <1>2, RangeType DEF Next

(* Every variable has its type, and a stale payload is sent once more at   *)
(* most: drainPending has two passes.                                      *)
THEOREM TypeCorrect == Spec => []TypeOK
<1>1. Init => TInv
  BY TypeInit
<1>2. TInv /\ [Next]_vars => TInv'
  BY TypeStep
<1>3. TInv => TypeOK
  <2> SUFFICES ASSUME TInv PROVE TypeOK
    OBVIOUS
  <2>1. run \in Runs /\ server \in Views /\ compact \in Compacts
    BY DEF TInv, RunOK, DiskOK
  <2>2. /\ run.pc \in PCs /\ run.range \in Chunk \cup {Rolling} /\ run.pass \in 1 .. 2
        /\ UNION {run.scope, run.saving, run.todo, run.taken, run.stale, run.retired, run.blocked}
             \subseteq Source
    BY <2>1 DEF Runs
  <2>3. /\ server.last \in [Source -> Nat] /\ server.chunks \in [Source -> SUBSET Chunk]
        /\ \A s \in Source : server.shown[s].data \in (Content \ Bad) \cup {None}
        /\ server.failing \in [Source -> Nat] /\ server.active \subseteq Source
    BY <2>1 DEF Views
  <2>4. /\ compact.pc \in {"off", "begin", "write", "rewrite", "over"}
        /\ compact.copy \in StateType
    BY <2>1 DEF Compacts
  <2>5. /\ pending \in [Source -> Items \cup {None}] /\ error \in [Source -> Items \cup {None}]
        /\ quarantine \in [Source -> Bad \cup {None}]
    BY DEF TInv, FilesOK
  <2> QED
    BY <2>2, <2>3, <2>4, <2>5 DEF TInv, DiskOK, WorldOK, TypeOK, PCs
<1> QED
  BY <1>1, <1>2, <1>3, PTL DEF Spec

-----------------------------------------------------------------------------
(* Chunks *)

(* A chunk that is kept for later: the chunks before it were taken in. *)
Behind(chunks, s, item) ==
  item \in Items /\ item.data \in Chunk => \A n \in Chunk : n < item.data => n \in chunks[s]

Behinds(chunks, st) ==
  \A s \in Source : /\ Behind(chunks, s, st.intent[s])
                    /\ \A n \in Chunk : n < st.cursor[s] => n \in chunks[s]

Closed(chunks) ==
  \A s \in Source : \A m, n \in Chunk : m < n /\ n \in chunks[s] => m \in chunks[s]

(* Whatever the answer said was accepted is there. *)
TakenIn ==
  run.pc \in {"remember", "ack", "acked"} /\ ~Group.errors =>
    \A s \in run.taken : /\ s \in Batch
                         /\ Group.item[s].data \in Chunk => Group.item[s].data \in server.chunks[s]

ChunkInv ==
  /\ Behinds(server.chunks, state) /\ Behinds(server.chunks, mem)
  /\ Behinds(server.chunks, compact.copy)
  /\ \A s \in Source : Behind(server.chunks, s, pending[s])
  /\ Closed(server.chunks)
  /\ TakenIn

(* What was behind stays behind as the server takes in more. *)
LEMMA BehindsGrow ==
  ASSUME NEW st, NEW c, NEW d, \A s \in Source : c[s] \subseteq d[s], Behinds(c, st)
  PROVE  Behinds(d, st)
BY DEF Behinds, Behind

(* Cursors that fall back and intents that are dropped do no harm. *)
LEMMA BehindsKept ==
  ASSUME NEW st, NEW new, NEW c, Behinds(c, st),
         st.cursor \in [Source -> 0 .. Chunks], new.cursor \in [Source -> 0 .. Chunks],
         \A s \in Source : new.cursor[s] <= st.cursor[s],
         new.intent = st.intent \/ new.intent = Nowhere
  PROVE  Behinds(c, new)
<1> USE ConstantsAssumption
<1> SUFFICES ASSUME NEW s \in Source
             PROVE  /\ Behind(c, s, new.intent[s])
                    /\ \A n \in Chunk : n < new.cursor[s] => n \in c[s]
  BY DEF Behinds
<1>1. Behind(c, s, new.intent[s])
  <2>1. None \notin Items
    OBVIOUS
  <2> HIDE DEF Items
  <2> QED
    BY <2>1 DEF Behinds, Behind, Nowhere
<1>2. ASSUME NEW n \in Chunk, n < new.cursor[s] PROVE n \in c[s]
  <2>1. new.cursor[s] \in Int /\ st.cursor[s] \in Int /\ new.cursor[s] <= st.cursor[s]
    OBVIOUS
  <2>2. n < st.cursor[s]
    BY <1>2, <2>1
  <2> QED
    BY <2>2 DEF Behinds
<1> QED
  BY <1>1, <1>2

(* An empty state file has no chunk behind its cursor. *)
LEMMA BehindsNew ==
  ASSUME NEW c
  PROVE  Behinds(c, NewState) /\ Behinds(c, [NewState EXCEPT !.missing = Source])
<1>1. None \notin Items
  BY ConstantsAssumption
<1> HIDE DEF Items
<1> QED
  BY <1>1, ConstantsAssumption DEF Behinds, Behind, NewState, Nowhere

(* A batch that is taken in adds chunks, and only chunks whose predecessors *)
(* are there.                                                              *)
LEMMA TakeInChunks ==
  ASSUME TInv, ChunkInv, Posting, ~Refused, TakeIn
  PROVE  /\ \A s \in Source : server.chunks[s] \subseteq server'.chunks[s]
         /\ Closed(server'.chunks)
         /\ \A s \in Fresh : /\ s \in Batch /\ ~Group.errors
                             /\ Group.item[s].data \in Chunk => Group.item[s].data \in server'.chunks[s]
<1> USE ConstantsAssumption
<1>1. server \in Views /\ run.work # <<>> /\ run.pc = "post" /\ WorkOK
  BY DEF TInv, Posting, At
<1>2. /\ Group = run.work[1] /\ 1 \in DOMAIN run.work /\ Batch = Group.of /\ Batch \subseteq Source
      /\ Due(1) = Batch
  BY <1>1, AtHand DEF Due
<1>3. server'.chunks = [s \in Source |-> IF s \in Fresh \ FreshRolling
                            THEN server.chunks[s] \cup {Group.item[s].data} ELSE server.chunks[s]]
  BY <1>1 DEF TakeIn, Views
<1>4. \A s \in Fresh : /\ s \in Batch /\ s \in Source /\ ~Group.errors
                       /\ Group.item[s].data \in Chunk => s \notin FreshRolling
  BY <1>2 DEF Fresh, FreshRolling
<1>5. \A s \in Fresh : /\ pending[s] \in Items /\ pending[s].data = Group.item[s].data
  <2>1. \A x \in Snapshots : x \in Items
    OBVIOUS
  <2> HIDE DEF Snapshots, Items
  <2>2. \A s \in Fresh : pending[s] \in Snapshots /\ pending[s].data = Group.item[s].data
    BY <1>1, <1>2, <1>4 DEF WorkOK, OnFile
  <2> QED
    BY <2>1, <2>2
<1>6. Closed(server'.chunks)
  <2> SUFFICES ASSUME NEW s \in Source, NEW m \in Chunk, NEW n \in Chunk, m < n,
                      n \in server'.chunks[s]
               PROVE  m \in server'.chunks[s]
    BY DEF Closed
  <2>1. CASE n \in server.chunks[s]
    BY <1>3, <2>1 DEF ChunkInv, Closed
  <2>2. CASE n \notin server.chunks[s]
    <3>1. s \in Fresh /\ n = Group.item[s].data
      BY <1>3, <2>2
    <3>2. pending[s] \in Items /\ pending[s].data = n
      BY <1>5, <3>1
    <3>3. m \in server.chunks[s]
      BY <3>2 DEF ChunkInv, Behind
    <3> QED
      BY <1>3, <3>3
  <2> QED
    BY <2>1, <2>2
<1>7. \A s \in Source : server.chunks[s] \subseteq server'.chunks[s]
  BY <1>3
<1>8. \A s \in Fresh : Group.item[s].data \in Chunk => Group.item[s].data \in server'.chunks[s]
  <2> SUFFICES ASSUME NEW s \in Fresh, Group.item[s].data \in Chunk
               PROVE  Group.item[s].data \in server'.chunks[s]
    OBVIOUS
  <2>1. s \in Source /\ s \notin FreshRolling
    BY <1>4
  <2>2. server'.chunks[s] = server.chunks[s] \cup {Group.item[s].data}
    BY <1>3, <2>1
  <2> QED
    BY <2>2
<1> QED
  BY <1>4, <1>6, <1>7, <1>8

(* No chunk is behind a cursor when nothing has run. *)
LEMMA ChunkInit ==
  ASSUME Init
  PROVE  ChunkInv
<1>1. None \notin Items
  BY ConstantsAssumption
<1> HIDE DEF Items
<1>2. \A s \in Source : Behind(server.chunks, s, pending[s])
  BY <1>1 DEF Init, Behind, Nowhere
<1>3. Closed(server.chunks) /\ TakenIn
  BY DEF Init, Closed, TakenIn, Idle
<1>4. /\ Behinds(server.chunks, state) /\ Behinds(server.chunks, mem)
      /\ Behinds(server.chunks, compact.copy)
  BY BehindsNew DEF Init
<1> QED
  BY <1>2, <1>3, <1>4 DEF ChunkInv

(* What a collection leaves for the history is the chunk at the cursor. *)
LEMMA CollectChunks ==
  ASSUME TInv, ChunkInv, Collect
  PROVE  Behinds(server.chunks, state') /\ Behinds(server.chunks, mem')
<1> USE ConstantsAssumption
<1>1. state \in StateType /\ mem \in StateType /\ Behinds(server.chunks, mem)
      /\ Behinds(server.chunks, state) /\ None \notin Items
  BY DEF TInv, DiskOK, ChunkInv
<1>2. PICK outcome \in [mapped \cap run.scope -> Outcomes] :
        LET Ended(how) == {s \in DOMAIN outcome : outcome[s] = how}
            items == [s \in Source |-> IF s \in DOMAIN outcome THEN Contribution(s, outcome[s])
                                      ELSE None]
            new == Written(items)
            rolling == IF run.range = Rolling THEN new ELSE {}
            next == [mem EXCEPT
                       !.seq = [s \in Source |-> IF s \in new /\ items[s].data # Error
                                                 THEN @[s] + 1 ELSE @[s]],
                       !.fp = [s \in Source |-> IF s \in rolling THEN items[s].data ELSE @[s]]]
        IN  /\ run.range # Rolling => \A s \in Ended("usage") : mem.cursor[s] = run.range
            /\ IF new = {}
               THEN state' = next /\ mem' = NewState
               ELSE mem' = [next EXCEPT !.intent = items] /\ UNCHANGED state
  BY DEF Collect
<1> DEFINE items == [s \in Source |-> IF s \in DOMAIN outcome THEN Contribution(s, outcome[s])
                                     ELSE None]
<1>3. PICK seqs, fps :
        \/ state' = [mem EXCEPT !.seq = seqs, !.fp = fps] /\ mem' = NewState
        \/ mem' = [mem EXCEPT !.seq = seqs, !.fp = fps, !.intent = items] /\ UNCHANGED state
  BY <1>2
<1>4. \A s \in DOMAIN outcome : run.range # Rolling /\ outcome[s] = "usage" => mem.cursor[s] = run.range
  BY <1>2
<1>5. \A s \in Source : Behind(server.chunks, s, items[s])
  <2> SUFFICES ASSUME NEW s \in Source, items[s] \in Items, items[s].data \in Chunk,
                      NEW n \in Chunk, n < items[s].data
               PROVE  n \in server.chunks[s]
    BY DEF Behind
  <2>1. s \in DOMAIN outcome /\ items[s] = Contribution(s, outcome[s])
    BY <1>1
  <2>2. run.range # Rolling
    BY <1>1, <2>1, ContributionIs
  <2>3. items[s].data = run.range /\ outcome[s] = "usage"
    BY <1>1, <2>1, <2>2, ContributionIs
  <2>4. items[s].data = mem.cursor[s]
    BY <1>4, <2>1, <2>2, <2>3
  <2> QED
    BY <1>1, <2>4 DEF Behinds
<1> HIDE DEF items
<1>6. CASE state' = [mem EXCEPT !.seq = seqs, !.fp = fps] /\ mem' = NewState
  <2>1. state'.cursor = mem.cursor /\ state'.intent = mem.intent
    BY <1>6
  <2> QED
    BY <1>1, <1>6, <2>1, BehindsNew DEF Behinds
<1>7. CASE mem' = [mem EXCEPT !.seq = seqs, !.fp = fps, !.intent = items] /\ UNCHANGED state
  <2>1. mem'.cursor = mem.cursor /\ mem'.intent = items
    BY <1>1, <1>7
  <2> QED
    BY <1>1, <1>5, <1>7, <2>1 DEF Behinds
<1> QED
  BY <1>3, <1>6, <1>7

(* A finished year is learnt from the server. *)
LEMMA InspectChunks ==
  ASSUME TInv, TInv', ChunkInv, Inspect
  PROVE  Behinds(server.chunks, state')
<1> USE ConstantsAssumption
<1>1. /\ state \in StateType /\ state' \in StateType /\ server \in Views
      /\ Behinds(server.chunks, state) /\ Closed(server.chunks)
  BY DEF TInv, DiskOK, ChunkInv
<1> DEFINE old == Forgotten(state, mapped \ server.active)
<1>2. old \in StateType /\ old.intent = state.intent /\ \A s \in Source : old.cursor[s] <= state.cursor[s]
  <2>1. old \in StateType /\ old.intent = state.intent
    BY <1>1, ForgottenType
  <2>2. ASSUME NEW s \in Source PROVE old.cursor[s] <= state.cursor[s]
    <3>1. old.cursor[s] = 0 \/ old.cursor[s] = state.cursor[s]
      BY DEF Forgotten
    <3>2. state.cursor[s] \in 0 .. Chunks
      BY <1>1
    <3> QED
      BY <3>1, <3>2
  <2> QED
    BY <2>1, <2>2
<1>3. state' = [old EXCEPT
              !.seq = [s \in Source |-> IF s \in mapped \cap server.active THEN Later(@[s], server.last[s]) ELSE @[s]],
              !.cursor = [s \in Source |-> IF s \in mapped \cap server.active /\ (Chunks - 1) \in server.chunks[s]
                                           THEN Chunks ELSE @[s]],
              !.missing = {}]
  BY DEF Inspect
<1> HIDE DEF old
<1>4. Behinds(server.chunks, old)
  BY <1>1, <1>2, BehindsKept
<1>5. /\ state'.intent = old.intent
      /\ \A s \in Source : \/ state'.cursor[s] = old.cursor[s]
                           \/ state'.cursor[s] = Chunks /\ (Chunks - 1) \in server.chunks[s]
  <2>1. state'.intent = old.intent
    BY <1>2, <1>3
  <2>2. state'.cursor = [s \in Source |-> IF s \in mapped \cap server.active
                                                /\ (Chunks - 1) \in server.chunks[s]
                                         THEN Chunks ELSE old.cursor[s]]
    BY <1>2, <1>3
  <2> QED
    BY <2>1, <2>2
<1>6. ASSUME NEW s \in Source, NEW n \in Chunk, n < state'.cursor[s]
      PROVE  n \in server.chunks[s]
  <2>1. CASE state'.cursor[s] = old.cursor[s]
    BY <1>4, <1>6, <2>1 DEF Behinds
  <2>2. CASE (Chunks - 1) \in server.chunks[s]
    <3>1. n = Chunks - 1 \/ n < Chunks - 1
      OBVIOUS
    <3>2. Chunks - 1 \in Chunk
      OBVIOUS
    <3> QED
      BY <1>1, <2>2, <3>1, <3>2 DEF Closed
  <2> QED
    BY <1>5, <2>1, <2>2
<1> QED
  BY <1>4, <1>5, <1>6 DEF Behinds

(* Steps that take nothing in. *)
LEMMA ChunkRange ==
  ASSUME TInv, TInv', ChunkInv, Begin \/ RangeStep \/ Crash \/ LoseState \/ Compaction
                            \/ (\E s \in Source : Change(s) \/ Disconnect(s))
  PROVE  ChunkInv'
<1> USE ConstantsAssumption
<1>1. server'.chunks = server.chunks
  BY DEF TInv, Views, Begin, RangeStep, Crash, LoseState, Compaction, Change, Disconnect, Recover, Persist,
         Save, ClearIntent, Inspect, InspectSkipped, InspectFails, CollectThrows, Collect, NextRange,
         End, CompactRead, CompactWrite, CompactEnds
<1>2. /\ state \in StateType /\ mem \in StateType /\ compact.copy \in StateType
      /\ state' \in StateType /\ mem' \in StateType /\ compact'.copy \in StateType
      /\ RunOK /\ RunOK'
  BY DEF TInv, DiskOK, Compacts
<1>3. /\ Behinds(server.chunks, state) /\ Behinds(server.chunks, mem)
      /\ Behinds(server.chunks, compact.copy) /\ TakenIn
      /\ \A s \in Source : Behind(server.chunks, s, pending[s])
  BY DEF ChunkInv
<1>4. Behinds(server.chunks, state')
  <2>1. CASE Persist
    BY <1>3, <2>1 DEF Persist
  <2>2. CASE ClearIntent
    <3>1. state'.cursor = mem.cursor /\ state'.intent = Nowhere
      BY <1>2, <2>2 DEF ClearIntent
    <3>2. \A s \in Source : state'.cursor[s] <= mem.cursor[s]
      <4>1. \A s \in Source : mem.cursor[s] \in Int
        BY <1>2
      <4> QED
        BY <3>1, <4>1
    <3> HIDE DEF StateType
    <3>3. mem.cursor \in [Source -> 0 .. Chunks] /\ state'.cursor \in [Source -> 0 .. Chunks]
      BY <1>2, <3>1 DEF StateType
    <3> QED
      BY <1>3, <3>1, <3>2, <3>3, BehindsKept
  <2>3. CASE Inspect
    BY <2>3, InspectChunks
  <2>4. CASE Collect
    BY <2>4, CollectChunks
  <2>5. CASE LoseState
    BY <2>5, BehindsNew DEF LoseState
  <2>6. CASE CompactWrite
    BY <1>3, <2>6 DEF CompactWrite
  <2>7. CASE UNCHANGED state
    BY <1>3, <2>7
  <2> QED
    BY <2>1, <2>2, <2>3, <2>4, <2>5, <2>6, <2>7
    DEF Begin, RangeStep, Crash, Compaction, Change, Disconnect, Recover, Save, InspectSkipped,
        InspectFails, CollectThrows, NextRange, End, CompactRead, CompactEnds
<1>5. Behinds(server.chunks, mem')
  <2>1. CASE Collect
    BY <2>1, CollectChunks
  <2>2. CASE mem' = NewState
    BY <2>2, BehindsNew
  <2>3. CASE mem' = mem \/ mem' = state \/ mem' = state'
    BY <1>3, <1>4, <2>3
  <2>4. Collect \/ mem' = NewState \/ mem' = mem \/ mem' = state \/ mem' = state'
    BY DEF Begin, RangeStep, Crash, LoseState, Compaction, Change, Disconnect, Recover, Persist, Save,
         ClearIntent, Inspect, InspectSkipped, InspectFails, CollectThrows, NextRange, End,
         CompactRead, CompactWrite, CompactEnds, Leaves
  <2> QED
    BY <2>1, <2>2, <2>3, <2>4
<1>6. Behinds(server.chunks, compact'.copy)
  <2>1. compact'.copy \in {compact.copy, state, NewState}
    <3>1. compact \in Compacts
      BY DEF TInv, DiskOK
    <3>2. CASE Compaction
      BY <3>1, <3>2 DEF Compaction, CompactRead, CompactWrite, CompactEnds, Compacts
    <3>3. CASE End
      BY <3>1, <3>3 DEF End, Compacts
    <3>4. CASE UNCHANGED compact
      BY <3>4
    <3> QED
      BY <3>2, <3>3, <3>4
      DEF Begin, RangeStep, Crash, LoseState, Change, Disconnect, Recover, Persist, Save,
          ClearIntent, Inspect, InspectSkipped, InspectFails, CollectThrows, Collect, NextRange
  <2> QED
    BY <1>3, <2>1, BehindsNew
<1>7. \A s \in Source : Behind(server.chunks, s, pending'[s])
  <2> SUFFICES ASSUME NEW s \in Source PROVE Behind(server.chunks, s, pending'[s])
    OBVIOUS
  <2>1. pending'[s] = pending[s] \/ pending'[s] = None \/ pending'[s] = mem.intent[s]
    <3>1. CASE \E q \in Source : Save(q)
      <4>1. pending \in [Source -> Snapshots \cup {None}]
        BY DEF TInv, FilesOK
      <4> QED
        BY <3>1, <4>1 DEF Save
    <3>2. CASE Inspect
      BY <3>2 DEF Inspect, Retire
    <3>3. CASE UNCHANGED files
      BY <3>3 DEF files
    <3> QED
      BY <3>1, <3>2, <3>3
      DEF Begin, RangeStep, Crash, LoseState, Compaction, Change, Disconnect, Recover, Persist,
         ClearIntent, InspectSkipped, InspectFails, CollectThrows, Collect, NextRange, End,
         CompactRead, CompactWrite, CompactEnds
  <2>2. None \notin Items
    OBVIOUS
  <2> HIDE DEF Items
  <2> QED
    BY <1>3, <2>1, <2>2 DEF Behinds, Behind
<1>8. TakenIn'
  <2>1. CASE UNCHANGED run
    <3>1. UNCHANGED <<Group, Batch>>
      BY <2>1 DEF Group, Batch
    <3> QED
      BY <1>1, <1>3, <2>1, <3>1 DEF TakenIn
  <2>2. CASE run'.pc \notin {"remember", "ack", "acked"}
    BY <2>2 DEF TakenIn
  <2>3. UNCHANGED run \/ run'.pc \notin {"remember", "ack", "acked"}
    <3>1. run \in Runs /\ Idle \in Runs /\ Idle.pc = "idle"
      BY <1>2, IdleType DEF RunOK, Idle
    <3>2. CASE Collect
      <4>1. \E pc \in {"done", "persist"}, b \in BOOLEAN : \E x : run' = [run EXCEPT !.pc = pc, !.barren = b, !.blocked = x]
        BY <3>2 DEF Collect
      <4> QED
        BY <3>1, <4>1 DEF Runs
    <3>3. CASE NextRange
      <4>1. \E a, b, c, d, e : run' = [Idle EXCEPT !.pc = "recover", !.auto = a, !.range = b,
                                        !.scope = c, !.blocked = d, !.tried = e]
        BY <3>3 DEF NextRange
      <4> QED
        BY <3>1, <4>1 DEF Runs
    <3>4. CASE Begin
      BY <3>1, <3>4 DEF Begin, Runs
    <3>5. CASE Recover
      BY <3>1, <3>5 DEF Recover, Runs
    <3>6. CASE Persist \/ ClearIntent \/ Inspect \/ InspectSkipped
      BY <3>1, <3>6 DEF Persist, ClearIntent, Inspect, InspectSkipped, Runs
    <3>7. CASE InspectFails \/ CollectThrows \/ End \/ Crash
      BY <3>1, <3>7 DEF InspectFails, CollectThrows, End, Crash, Leaves
    <3>8. CASE \E s \in Source : Save(s)
      BY <3>1, <3>8 DEF Save, At, Runs
    <3> QED
      BY <3>2, <3>3, <3>4, <3>5, <3>6, <3>7, <3>8
      DEF RangeStep, LoseState, Compaction, Change, Disconnect, CompactRead, CompactWrite, CompactEnds
  <2> QED
    BY <2>1, <2>2, <2>3
<1>9. Closed(server'.chunks)
  BY <1>1 DEF ChunkInv
<1> QED
  BY <1>1, <1>4, <1>5, <1>6, <1>7, <1>8, <1>9 DEF ChunkInv

(* Steps of a delivery. *)
LEMMA ChunkDeliver ==
  ASSUME TInv, TInv', ChunkInv, Deliver
  PROVE  ChunkInv'
<1> USE ConstantsAssumption
<1>1. /\ state \in StateType /\ mem \in StateType /\ state' \in StateType
      /\ RunOK /\ run \in Runs /\ WorkOK /\ FilesOK /\ None \notin Items /\ server \in Views
  BY DEF TInv, DiskOK, RunOK
<1>2. /\ Behinds(server.chunks, state) /\ Behinds(server.chunks, mem)
      /\ Behinds(server.chunks, compact.copy) /\ TakenIn /\ Closed(server.chunks)
      /\ \A s \in Source : Behind(server.chunks, s, pending[s])
  BY DEF ChunkInv
<1>3. CASE PostAnswered \/ PostFails
  <2>1. /\ \A s \in Source : server.chunks[s] \subseteq server'.chunks[s]
        /\ Closed(server'.chunks)
    BY <1>2, <1>3, TakeInChunks DEF PostAnswered, PostFails
  <2>2. /\ Behinds(server'.chunks, state) /\ Behinds(server'.chunks, mem)
        /\ Behinds(server'.chunks, compact.copy)
    BY <1>2, <2>1, BehindsGrow
  <2>3. state' = state /\ pending' = pending /\ compact' = compact
        /\ (mem' = mem \/ mem' = NewState)
    BY <1>3 DEF PostAnswered, PostFails, Leaves, files
  <2>4. Behinds(server'.chunks, mem')
    BY <2>2, <2>3, BehindsNew
  <2>5. \A s \in Source : Behind(server'.chunks, s, pending'[s])
    BY <1>2, <2>1, <2>3 DEF Behind
  <2>6. TakenIn'
    <3>1. CASE PostAnswered
      <4>1. PICK taken \in {{}, Fresh} : run' = [run EXCEPT !.pc = "remember", !.taken = taken]
        BY <3>1 DEF PostAnswered
      <4>2. run'.work = run.work /\ run'.taken \subseteq Fresh
        BY <1>1, <4>1 DEF Runs
      <4>3. Group' = Group /\ Batch' = Batch
        BY <4>2 DEF Group, Batch
      <4>4. \A s \in Fresh : /\ s \in Batch
                             /\ Group.item[s].data \in Chunk => Group.item[s].data \in server'.chunks[s]
        BY <3>1, TakeInChunks DEF PostAnswered
      <4> HIDE DEF Fresh
      <4> QED
        BY <4>2, <4>3, <4>4 DEF TakenIn
    <3>2. CASE PostFails
      BY <3>2 DEF PostFails, Leaves, Idle, TakenIn
    <3> QED
      BY <1>3, <3>1, <3>2
  <2> QED
    BY <2>1, <2>2, <2>3, <2>4, <2>5, <2>6 DEF ChunkInv
<1>4. CASE ~(PostAnswered \/ PostFails)
  <2>1. server' = server /\ compact' = compact /\ (mem' = mem \/ mem' = NewState)
    BY <1>4 DEF Deliver, Drain, Bisect, RefuseOne, DropRetired, Remember, Ack, Acked, Settle, Leaves
  <2>2. Behinds(server.chunks, mem')
    BY <1>2, <2>1, BehindsNew
  <2>3. \A s \in Source : \/ pending'[s] = pending[s] \/ pending'[s] = None
                          \/ pending[s] \in Items /\ pending'[s].data = pending[s].data
    <3>1. CASE \E s \in Source : Ack(s)
      <4>1. PICK q \in Source : Ack(q)
        BY <3>1
      <4>2. run.pc = "ack" /\ q \in run.todo /\ run.work # <<>>
        BY <1>1, <4>1 DEF Ack, At, RunOK
      <4>3. Group = run.work[1] /\ 1 \in DOMAIN run.work /\ q \in Due(1)
        BY <4>2, AtHand DEF Due
      <4>4. ~Group.errors => pending[q] \in Items
        <5>1. \A x \in Snapshots : x \in Items
          OBVIOUS
        <5> HIDE DEF Snapshots, Items
        <5> QED
          BY <1>1, <4>3, <5>1 DEF WorkOK, OnFile
      <4>5. CASE Stale(q)
        <5>1. pending' = [pending EXCEPT ![q].seq = known[q] + 1]
          BY <4>1, <4>5 DEF Ack
        <5>2. pending'[q].data = pending[q].data /\ pending[q] \in Items
          BY <1>1, <4>4, <4>5, <5>1 DEF Stale, FilesOK
        <5> QED
          BY <1>1, <5>1, <5>2 DEF FilesOK
      <4>6. CASE ~Stale(q)
        BY <4>1, <4>6 DEF Ack
      <4> QED
        BY <4>5, <4>6
    <3>2. CASE Drain
      BY <3>2 DEF Drain
    <3>3. CASE RefuseOne
      BY <1>1, <3>3 DEF RefuseOne, RemoveFile, FilesOK
    <3>4. CASE Acked
      BY <1>1, <3>4 DEF Acked, RemoveFile, FilesOK, files
    <3>5. CASE Settle
      BY <3>5 DEF Settle, Retire
    <3>6. CASE Bisect \/ DropRetired \/ Remember
      BY <3>6 DEF Bisect, DropRetired, Remember, files
    <3> QED
      BY <1>4, <3>1, <3>2, <3>3, <3>4, <3>5, <3>6 DEF Deliver
  <2>4. \A s \in Source : Behind(server.chunks, s, pending'[s])
    <3> HIDE DEF Items
    <3> QED
      BY <1>1, <1>2, <2>3 DEF Behind
  <2>5. Behinds(server.chunks, state')
    <3>1. CASE \E s \in Source : Ack(s)
      <4>1. PICK q \in Source : Ack(q)
        BY <3>1
      <4>2. run.pc = "ack" /\ q \in run.todo /\ run.work # <<>>
        BY <1>1, <4>1 DEF Ack, At, RunOK
      <4>3. Group = run.work[1] /\ 1 \in DOMAIN run.work /\ q \in Due(1)
        BY <4>2, AtHand DEF Due
      <4>4. CASE state' = state
        BY <1>2, <4>4
      <4>5. CASE /\ ~Stale(q) /\ ~Group.errors /\ Group.item[q].data \in Chunk
                 /\ state' = [state EXCEPT !.cursor[q] = Group.item[q].data + 1]
        <5> DEFINE n == Group.item[q].data
        <5>1. n \in Chunk /\ n \in server.chunks[q]
          BY <1>2, <4>2, <4>5 DEF TakenIn, Stale
        <5>2. pending[q].data = n
          BY <1>1, <4>3, <4>5 DEF WorkOK, OnFile
        <5>3. pending[q] \in Items
          <6>1. \A x \in Snapshots : x \in Items
            OBVIOUS
          <6> HIDE DEF Snapshots, Items
          <6> QED
            BY <1>1, <4>3, <4>5, <6>1 DEF WorkOK, OnFile
        <5>4. \A m \in Chunk : m < n => m \in server.chunks[q]
          BY <1>2, <5>1, <5>2, <5>3 DEF Behind
        <5>5. state' = [state EXCEPT !.cursor[q] = n + 1]
          BY <4>5
        <5> HIDE DEF n
        <5>6. \A m \in Chunk : m < n + 1 => m \in server.chunks[q]
          <6> TAKE m \in Chunk
          <6>1. m < n + 1 => m < n \/ m = n
            BY <5>1
          <6> QED
            BY <5>1, <5>4, <6>1
        <5>7. state'.intent = state.intent /\ state'.cursor = [state.cursor EXCEPT ![q] = n + 1]
          BY <1>1, <5>5
        <5>8. \A s \in Source : state'.cursor[s] = IF s = q THEN n + 1 ELSE state.cursor[s]
          BY <1>1, <5>7
        <5> HIDE DEF StateType, Items
        <5> QED
          BY <1>2, <5>6, <5>7, <5>8 DEF Behinds
      <4> QED
        BY <4>1, <4>4, <4>5 DEF Ack
    <3>2. CASE Remember
      <4>1. state'.cursor = state.cursor /\ state'.intent = state.intent
        BY <1>1, <3>2 DEF Remember
      <4> QED
        BY <1>2, <4>1 DEF Behinds
    <3>3. CASE Acked
      <4>1. state'.cursor = state.cursor /\ state'.intent = state.intent
        BY <1>1, <3>3 DEF Acked
      <4> QED
        BY <1>2, <4>1 DEF Behinds
    <3>4. CASE Settle
      <4>1. state'.intent = state.intent /\ state' = Forgotten(state, run.retired)
        BY <1>1, <3>4, ForgottenType DEF Settle
      <4>2. state'.cursor = [s \in Source |-> IF s \in run.retired THEN 0 ELSE state.cursor[s]]
        BY <1>1, <4>1 DEF Forgotten
      <4>3. state.cursor \in [Source -> 0 .. Chunks] /\ state'.cursor \in [Source -> 0 .. Chunks]
        BY <1>1
      <4>4. \A s \in Source : state'.cursor[s] <= state.cursor[s]
        BY <4>2, <4>3
      <4> QED
        BY <1>2, <4>1, <4>3, <4>4, BehindsKept
    <3>5. CASE UNCHANGED state
      BY <1>2, <3>5
    <3> QED
      BY <1>4, <3>1, <3>2, <3>3, <3>4, <3>5 DEF Deliver, Drain, Bisect, RefuseOne, DropRetired
  <2>6. TakenIn'
    <3>1. CASE run'.pc \notin {"remember", "ack", "acked"}
      BY <3>1 DEF TakenIn
    <3>2. CASE run.pc \in {"remember", "ack", "acked"} /\ run'.work = run.work /\ run'.taken = run.taken
      <4>1. Group' = Group /\ Batch' = Batch
        BY <3>2 DEF Group, Batch
      <4> QED
        BY <1>2, <2>1, <3>2, <4>1 DEF TakenIn
    <3>3. CASE Drain
      BY <1>1, <3>1, <3>3 DEF Drain, Runs
    <3>4. CASE Bisect \/ DropRetired
      BY <1>1, <3>1, <3>4 DEF Bisect, DropRetired, Posting, At, Runs
    <3>5. CASE RefuseOne
      <4>1. run.pc = "post" /\ \E a, b, c : run' = [run EXCEPT !.work = a, !.blocked = b]
                                            \/ run' = [run EXCEPT !.work = a, !.retired = c]
        BY <3>5 DEF RefuseOne, Posting, At
      <4> QED
        BY <1>1, <3>1, <4>1 DEF Runs
    <3>6. CASE Remember
      BY <1>1, <3>2, <3>6 DEF Remember, At, Runs
    <3>7. CASE \E s \in Source : Ack(s)
      BY <1>1, <3>2, <3>7 DEF Ack, At, Runs
    <3>8. CASE Acked
      <4> DEFINE left == run.todo \ {run.cur}
      <4>1. PICK late :
              run' = [run EXCEPT !.pc = IF left = {} THEN "post" ELSE "ack", !.todo = left,
                                !.work = IF left = {} THEN Tail(@) ELSE @, !.stale = late]
        BY <1>1, <3>8, AckedRun
      <4> HIDE DEF left
      <4>2. run'.pc = "post" \/ (run'.work = run.work /\ run'.taken = run.taken)
        BY <1>1, <4>1 DEF Runs
      <4>3. run.pc = "acked"
        BY <3>8 DEF Acked, At
      <4> QED
        BY <3>1, <3>2, <4>2, <4>3
    <3>9. CASE Settle
      <4>1. \/ Leaves
            \/ \E a, b : \E pc \in {"drain", "inspect", "done"} :
                 run' = [run EXCEPT !.pass = a, !.blocked = b, !.pc = pc]
        BY <3>9, SettleRun
      <4>2. CASE Leaves
        BY <3>1, <4>2 DEF Leaves, Idle
      <4>3. CASE \E a, b : \E pc \in {"drain", "inspect", "done"} :
                   run' = [run EXCEPT !.pass = a, !.blocked = b, !.pc = pc]
        BY <1>1, <3>1, <4>3 DEF Runs
      <4> QED
        BY <4>1, <4>2, <4>3
    <3> QED
      BY <1>4, <3>3, <3>4, <3>5, <3>6, <3>7, <3>8, <3>9 DEF Deliver
  <2> QED
    BY <1>2, <2>1, <2>2, <2>4, <2>5, <2>6 DEF ChunkInv
<1> QED
  BY <1>3, <1>4

(* Every step keeps the chunks behind the cursors with the server. *)
LEMMA ChunkStep ==
  ASSUME TInv, ChunkInv, [Next]_vars
  PROVE  ChunkInv'
<1>1. TInv'
  BY TypeStep
<1>2. CASE UNCHANGED vars
  <2>1. UNCHANGED <<state, mem, pending, server, run, compact>> /\ UNCHANGED <<Group, Batch>>
    BY <1>2 DEF vars, files, Group, Batch
  <2>2. TakenIn'
    BY <2>1 DEF ChunkInv, TakenIn
  <2> QED
    BY <2>1, <2>2 DEF ChunkInv
<1>3. CASE Deliver
  BY <1>1, <1>3, ChunkDeliver
<1>4. CASE ~Deliver /\ ~UNCHANGED vars
  BY <1>1, <1>4, ChunkRange DEF Next
<1> QED
  BY <1>2, <1>3, <1>4

(* The cursor of the history never runs ahead of the server, although it   *)
(* moves in a write of its own between the answer and the removal of the   *)
(* pending file, and although a late compaction restores an old state.     *)
THEOREM CursorBehind == Spec => []ChunkAcknowledged
<1>1. Init => TInv /\ ChunkInv
  BY TypeInit, ChunkInit
<1>2. TInv /\ ChunkInv /\ [Next]_vars => (TInv /\ ChunkInv)'
  BY TypeStep, ChunkStep
<1>3. ChunkInv => ChunkAcknowledged
  BY DEF ChunkInv, Behinds, ChunkAcknowledged
<1> QED
  BY <1>1, <1>2, <1>3, PTL DEF Spec

-----------------------------------------------------------------------------
(* The order in which the server sees collections *)

(* A payload that is kept, given the last sequence the server took in, the *)
(* collection it shows and the number of collections: usage is not older   *)
(* than what is shown, and an error that could still count is newer.       *)
Current(item, last, at, n) ==
  item \in Items =>
    /\ item.data \in Content => at <= item.at /\ item.at <= n
    /\ item.data = Error => /\ item.at <= n /\ item.seq <= last
                            /\ item.seq = last => at < item.at

CurrentFor(s, item) == Current(item, server.last[s], server.shown[s].at, made[s])

(* No intent is left while the files are delivered and usage is collected. *)
IntentGone ==
  /\ run.pc \in Delivering \cup {"drain", "inspect", "collect", "persist"} => state.intent = Nowhere
  /\ run.pc = "collect" => mem.intent = Nowhere

OrderInv ==
  /\ compact.pc = "off"
  /\ IntentGone
  /\ \A s \in Source :
       /\ known[s] <= server.last[s] /\ server.shown[s].at <= made[s]
       /\ CurrentFor(s, pending[s]) /\ CurrentFor(s, error[s]) /\ CurrentFor(s, state.intent[s])
       /\ run.pc \in {"save", "persist"} => CurrentFor(s, mem.intent[s])
  /\ \A i \in DOMAIN run.work : \A s \in run.work[i].of : CurrentFor(s, run.work[i].item[s])

(* What is not there is current. *)
LEMMA CurrentNone ==
  ASSUME NEW last, NEW at, NEW n
  PROVE  Current(None, last, at, n) /\ \A s \in Source : Current(Nowhere[s], last, at, n)
<1>1. None \notin Items
  BY ConstantsAssumption
<1> HIDE DEF Items
<1> QED
  BY <1>1 DEF Current, Nowhere

(* The order holds when nothing has run. *)
LEMMA OrderInit ==
  ASSUME Init
  PROVE  OrderInv
<1>1. \A s \in Source : CurrentFor(s, Nowhere[s])
  BY CurrentNone DEF CurrentFor
<1>2. \A s \in Source : known[s] <= server.last[s] /\ server.shown[s].at <= made[s]
  BY DEF Init, Item
<1> QED
  BY <1>1, <1>2 DEF OrderInv, Init, IntentGone, Idle, NewState, Delivering

(* What a batch that is taken in changes. *)
LEMMA TakeInIs ==
  ASSUME TInv, OrderInv, Posting, ~Refused, TakeIn
  PROVE  \A s \in Source :
           \/ /\ server'.last[s] = server.last[s] /\ server'.shown[s] = server.shown[s]
              /\ \/ server'.failing[s] = server.failing[s]
                 \/ server'.failing[s] \in (server.shown[s].at + 1) .. made[s]
           \/ /\ s \in Batch /\ ~Group.errors /\ server.last[s] < server'.last[s]
              /\ pending[s] \in Items /\ server'.last[s] = Group.item[s].seq
              /\ \/ /\ server'.shown[s] = server.shown[s] /\ pending[s].data \notin Content
                    /\ server'.failing[s] = server.failing[s]
                 \/ /\ server'.shown[s].at = pending[s].at /\ pending[s].data \in Content
                    /\ server'.shown[s].data = pending[s].data /\ server'.failing[s] = 0
<1> USE ConstantsAssumption
<1>1. server \in Views /\ run.work # <<>> /\ run.pc = "post" /\ WorkOK
      /\ made \in [Source -> 0 .. MaxMade]
  BY DEF TInv, Posting, At, WorldOK
<1>2. /\ Group = run.work[1] /\ 1 \in DOMAIN run.work /\ Batch = Group.of /\ Batch \subseteq Source
      /\ Due(1) = Batch
      /\ \A s \in Batch : Group.item[s] \in (IF Group.errors THEN Failures ELSE Snapshots)
  BY <1>1, AtHand DEF Due
<1> SUFFICES ASSUME NEW s \in Source
             PROVE  \/ /\ server'.last[s] = server.last[s] /\ server'.shown[s] = server.shown[s]
                       /\ \/ server'.failing[s] = server.failing[s]
                          \/ server'.failing[s] \in (server.shown[s].at + 1) .. made[s]
                    \/ /\ s \in Batch /\ ~Group.errors /\ server.last[s] < server'.last[s]
                       /\ pending[s] \in Items /\ server'.last[s] = Group.item[s].seq
                       /\ \/ /\ server'.shown[s] = server.shown[s] /\ pending[s].data \notin Content
                             /\ server'.failing[s] = server.failing[s]
                          \/ /\ server'.shown[s].at = pending[s].at /\ pending[s].data \in Content
                             /\ server'.shown[s].data = pending[s].data /\ server'.failing[s] = 0
  OBVIOUS
<1>3. /\ server'.last[s] = IF s \in Fresh THEN Group.item[s].seq ELSE server.last[s]
      /\ server'.shown[s] = IF s \in FreshRolling THEN Group.item[s] ELSE server.shown[s]
      /\ server'.failing[s] = IF s \in FreshRolling THEN 0
                              ELSE IF Group.errors /\ s \in Batch /\ server.last[s] = Group.item[s].seq
                              THEN Group.item[s].at ELSE server.failing[s]
  BY <1>1 DEF TakeIn, Views
<1>4. CASE s \in Fresh
  <2>1. s \in Batch /\ ~Group.errors /\ server.last[s] < Group.item[s].seq
        /\ (s \in FreshRolling <=> Group.item[s].data \in Content)
    BY <1>4 DEF Fresh, FreshRolling
  <2>2. pending[s] \in Snapshots /\ pending[s].data = Group.item[s].data
        /\ pending[s].at = Group.item[s].at
    BY <1>1, <1>2, <2>1 DEF WorkOK, OnFile
  <2>3. pending[s] \in Items
    BY <2>2
  <2> HIDE DEF Snapshots, Items
  <2> QED
    BY <1>3, <1>4, <2>1, <2>2, <2>3
<1>5. CASE s \notin Fresh
  <2>1. s \notin FreshRolling
    BY <1>5 DEF FreshRolling
  <2>2. CASE Group.errors /\ s \in Batch /\ server.last[s] = Group.item[s].seq
    <3>1. Group.item[s] \in Items /\ Group.item[s].data = Error
      BY <1>2, <2>2
    <3>2. CurrentFor(s, Group.item[s])
      BY <1>2, <2>2 DEF OrderInv
    <3>3. server.shown[s].at < Group.item[s].at /\ Group.item[s].at <= made[s]
      BY <2>2, <3>1, <3>2 DEF CurrentFor, Current
    <3>4. server.shown[s].at \in Nat /\ Group.item[s].at \in Nat /\ made[s] \in Nat
      BY <1>1, <3>1 DEF Views
    <3>5. Group.item[s].at \in (server.shown[s].at + 1) .. made[s]
      BY <3>3, <3>4
    <3> QED
      BY <1>3, <1>5, <2>1, <2>2, <3>5
  <2>3. CASE ~(Group.errors /\ s \in Batch /\ server.last[s] = Group.item[s].seq)
    BY <1>3, <1>5, <2>1, <2>3
  <2> QED
    BY <2>2, <2>3
<1> QED
  BY <1>4, <1>5

(* Outside a delivery only the collections move on. *)
LEMMA RangeKeeps ==
  ASSUME TInv, TInv', UNCHANGED <<server.last, server.shown>>,
         \A s \in Source : made[s] <= made'[s]
  PROVE  \A s \in Source : \A item : CurrentFor(s, item) =>
           Current(item, server'.last[s], server'.shown[s].at, made'[s])
<1> TAKE s \in Source
<1> TAKE item
<1>1. /\ server.last[s] \in Nat /\ server.shown[s].at \in Nat
      /\ made[s] \in Nat /\ made'[s] \in Nat
  BY ConstantsAssumption DEF TInv, Views, WorldOK
<1>2. server'.last[s] = server.last[s] /\ server'.shown[s].at = server.shown[s].at
  OBVIOUS
<1>3. ASSUME Current(item, server.last[s], server.shown[s].at, made[s])
      PROVE  Current(item, server.last[s], server.shown[s].at, made'[s])
  <2>1. made[s] <= made'[s]
    OBVIOUS
  <2>2. item \in Items => item.at \in Nat
    OBVIOUS
  <2> HIDE DEF Items
  <2> QED
    BY <1>1, <1>3, <2>1, <2>2 DEF Current
<1> QED
  BY <1>2, <1>3 DEF CurrentFor

(* What a collection ends with is current, once it counts. *)
LEMMA ContributionCurrent ==
  ASSUME TInv, OrderInv, NEW s \in Source, NEW how
  PROVE  /\ Contribution(s, how) = None \/ run.range = Rolling =>
              Current(Contribution(s, how), server.last[s], server.shown[s].at, made[s] + 1)
         /\ run.range # Rolling =>
              Current(Contribution(s, how), server.last[s], server.shown[s].at, made[s])
<1> USE ConstantsAssumption
<1>1. /\ server.last[s] \in Nat /\ server.shown[s].at \in Nat /\ made[s] \in Nat
      /\ known[s] \in Nat /\ known[s] <= server.last[s] /\ server.shown[s].at <= made[s]
      /\ usage[s] \in Content /\ run.range \in Chunk \cup {Rolling} /\ mem.seq[s] \in Nat
  BY DEF TInv, Views, WorldOK, DiskOK, RunOK, Runs, OrderInv
<1> DEFINE item == Contribution(s, how)
<1>2. \/ item = None
      \/ run.range # Rolling /\ item = Item(mem.seq[s] + 1, run.range, made[s])
      \/ run.range = Rolling /\ item = Item(mem.seq[s] + 1, usage[s], made[s] + 1)
      \/ run.range = Rolling /\ item = Item(known[s], Error, made[s] + 1)
  BY DEF Contribution
<1> HIDE DEF item
<1>3. CASE item = None
  <2>1. None \notin Items
    OBVIOUS
  <2> HIDE DEF Items
  <2> QED
    BY <1>3, <2>1 DEF Current, item
<1>4. CASE run.range # Rolling /\ item = Item(mem.seq[s] + 1, run.range, made[s])
  <2>1. item.data \notin Content /\ item.data # Error
    BY <1>1, <1>4 DEF Item
  <2> HIDE DEF Items
  <2> QED
    BY <1>3, <1>4, <2>1 DEF Current, item
<1>5. CASE run.range = Rolling /\ item = Item(mem.seq[s] + 1, usage[s], made[s] + 1)
  <2>1. item.data # Error /\ item.at = made[s] + 1
    BY <1>1, <1>5 DEF Item
  <2> HIDE DEF Items
  <2> QED
    BY <1>1, <1>5, <2>1 DEF Current, item
<1>6. CASE run.range = Rolling /\ item = Item(known[s], Error, made[s] + 1)
  <2>1. item.data \notin Content /\ item.at = made[s] + 1 /\ item.seq = known[s]
    BY <1>1, <1>6 DEF Item
  <2> HIDE DEF Items
  <2> QED
    BY <1>1, <1>6, <2>1 DEF Current, item
<1> QED
  BY <1>2, <1>3, <1>4, <1>5, <1>6

(* What a collection writes down, and that the collections are counted. *)
LEMMA CollectOrder ==
  ASSUME TInv, OrderInv, Collect
  PROVE  /\ \A s \in Source : made'[s] \in {made[s], made[s] + 1}
         /\ state'.intent = Nowhere
         /\ run'.pc = "persist" => \A s \in Source :
              Current(mem'.intent[s], server.last[s], server.shown[s].at, made'[s])
         /\ run'.pc \in {"done", "persist"} /\ run'.work = <<>>
<1> USE ConstantsAssumption
<1>1. /\ run \in Runs /\ state \in StateType /\ mem \in StateType
      /\ run.pc = "collect" /\ run.work = <<>>
      /\ state.intent = Nowhere /\ mem.intent = Nowhere
      /\ made \in [Source -> 0 .. MaxMade]
  BY DEF TInv, DiskOK, WorldOK, RunOK, Collect, At, Delivering, OrderInv, IntentGone
<1>2. PICK outcome \in [mapped \cap run.scope -> Outcomes] :
        LET Ended(how) == {s \in DOMAIN outcome : outcome[s] = how}
            items == [s \in Source |-> IF s \in DOMAIN outcome THEN Contribution(s, outcome[s])
                                      ELSE None]
            new == Written(items)
            rolling == IF run.range = Rolling THEN new ELSE {}
            next == [mem EXCEPT
                       !.seq = [s \in Source |-> IF s \in new /\ items[s].data # Error
                                                 THEN @[s] + 1 ELSE @[s]],
                       !.fp = [s \in Source |-> IF s \in rolling THEN items[s].data ELSE @[s]]]
        IN  /\ made' = [s \in Source |-> IF s \in rolling THEN made[s] + 1 ELSE made[s]]
            /\ IF new = {}
               THEN state' = next /\ mem' = NewState
               ELSE mem' = [next EXCEPT !.intent = items] /\ UNCHANGED state
            /\ run' = [run EXCEPT
                 !.pc = IF new = {} THEN "done" ELSE "persist",
                 !.barren = new # {} /\ Ended("usage") = {},
                 !.blocked = @ \cup Ended("inactive")
                               \cup (IF run.range = Rolling THEN {} ELSE Ended("failure"))]
  BY DEF Collect
<1> DEFINE items == [s \in Source |-> IF s \in DOMAIN outcome THEN Contribution(s, outcome[s])
                                     ELSE None]
           new == Written(items)
           rolling == IF run.range = Rolling THEN new ELSE {}
<1>3. PICK seqs, fps, b, x :
        /\ made' = [s \in Source |-> IF s \in rolling THEN made[s] + 1 ELSE made[s]]
        /\ IF new = {}
           THEN state' = [mem EXCEPT !.seq = seqs, !.fp = fps] /\ mem' = NewState
           ELSE /\ mem' = [[mem EXCEPT !.seq = seqs, !.fp = fps] EXCEPT !.intent = items]
                /\ UNCHANGED state
        /\ run' = [run EXCEPT !.pc = IF new = {} THEN "done" ELSE "persist", !.barren = b, !.blocked = x]
  BY <1>2
<1>4. \A s \in Source : items[s] = None \/ \E how : items[s] = Contribution(s, how)
  OBVIOUS
<1>5. \A s \in Source : s \in new <=> items[s] # None
  BY DEF Written
<1>6. rolling = IF run.range = Rolling THEN new ELSE {}
  OBVIOUS
<1> HIDE DEF items, new, rolling
<1>7. \A s \in Source : made'[s] = IF s \in rolling THEN made[s] + 1 ELSE made[s]
  BY <1>1, <1>3
<1>8. mem'.intent = items \/ new = {}
  BY <1>1, <1>3
<1>9. state'.intent = Nowhere
  BY <1>1, <1>3
<1>10. run'.work = <<>> /\ run'.pc = IF new = {} THEN "done" ELSE "persist"
  BY <1>1, <1>3 DEF Runs
<1>11. ASSUME NEW s \in Source
       PROVE  Current(items[s], server.last[s], server.shown[s].at, made'[s])
  <2>1. CASE items[s] = None
    BY <2>1, CurrentNone
  <2>2. CASE items[s] # None
    <3>1. PICK how : items[s] = Contribution(s, how)
      BY <1>4, <2>2
    <3>2. made'[s] = IF run.range = Rolling THEN made[s] + 1 ELSE made[s]
      BY <1>5, <1>6, <1>7, <2>2
    <3> QED
      BY <3>1, <3>2, ContributionCurrent
  <2> QED
    BY <2>1, <2>2
<1> HIDE DEF StateType
<1> QED
  BY <1>7, <1>8, <1>9, <1>10, <1>11

(* Neither an inspection nor forgetting touches the intent. *)
LEMMA InspectIntent ==
  ASSUME state \in StateType, Inspect
  PROVE  state'.intent = state.intent /\ mem' = state'
<1> DEFINE old == Forgotten(state, mapped \ server.active)
<1>1. old \in StateType /\ old.intent = state.intent
  BY ForgottenType
<1>2. PICK a, b : state' = [old EXCEPT !.seq = a, !.cursor = b, !.missing = {}]
  BY DEF Inspect
<1> HIDE DEF old
<1>3. state'.intent = old.intent
  BY <1>1, <1>2
<1> QED
  BY <1>1, <1>3 DEF Inspect

(* Steps outside a delivery. *)
LEMMA OrderRange ==
  ASSUME "compaction" \notin Faults, TInv, TInv', OrderInv,
         Begin \/ RangeStep \/ Crash \/ LoseState \/ Compaction
         \/ (\E s \in Source : Change(s) \/ Disconnect(s))
  PROVE  OrderInv'
<1> USE ConstantsAssumption
<1>1. /\ state \in StateType /\ mem \in StateType /\ state' \in StateType /\ mem' \in StateType
      /\ run \in Runs /\ run' \in Runs /\ RunOK /\ FilesOK /\ server \in Views /\ compact \in Compacts
      /\ made \in [Source -> 0 .. MaxMade] /\ NewState.intent = Nowhere /\ Idle.pc = "idle"
      /\ Idle.work = <<>>
  BY DEF TInv, DiskOK, WorldOK, RunOK, NewState, Idle
<1>2. /\ compact.pc = "off" /\ IntentGone
      /\ \A s \in Source : known[s] <= server.last[s] /\ server.shown[s].at <= made[s]
      /\ \A s \in Source : CurrentFor(s, pending[s]) /\ CurrentFor(s, error[s])
                           /\ CurrentFor(s, state.intent[s])
      /\ run.pc \in {"save", "persist"} => \A s \in Source : CurrentFor(s, mem.intent[s])
      /\ \A i \in DOMAIN run.work : \A s \in run.work[i].of : CurrentFor(s, run.work[i].item[s])
  BY DEF OrderInv
<1>3. ~Compaction /\ compact'.pc = "off"
  <2>1. ~Compaction
    BY <1>2 DEF Compaction, CompactRead, CompactWrite, CompactEnds
  <2>2. CASE UNCHANGED compact
    BY <1>2, <2>1, <2>2
  <2>3. CASE End
    BY <1>2, <2>1, <2>3 DEF End
  <2> QED
    BY <2>1, <2>2, <2>3
    DEF Begin, RangeStep, Crash, LoseState, Change, Disconnect, Recover, Persist, Save,
        ClearIntent, Inspect, InspectSkipped, InspectFails, CollectThrows, Collect, NextRange
<1>4. server'.last = server.last /\ server'.shown = server.shown
  BY <1>1, <1>3
  DEF Views, Begin, RangeStep, Crash, LoseState, Change, Disconnect, Recover, Persist, Save,
      ClearIntent, Inspect, InspectSkipped, InspectFails, CollectThrows, Collect, NextRange, End
<1>5. \A s \in Source : made[s] <= made'[s]
  <2> SUFFICES ASSUME NEW s \in Source PROVE made[s] <= made'[s]
    OBVIOUS
  <2> DEFINE n == made[s]
  <2>0. n \in Nat
    BY <1>1
  <2>1. CASE Collect
    <3>1. made'[s] \in {n, n + 1}
      BY <2>1, CollectOrder
    <3> HIDE DEF n
    <3>2. n <= made'[s]
      BY <2>0, <3>1
    <3> QED
      BY <3>2 DEF n
  <2>2. CASE UNCHANGED made
    BY <2>0, <2>2
  <2> HIDE DEF n
  <2> QED
    BY <1>3, <2>1, <2>2
    DEF Begin, RangeStep, Crash, LoseState, Change, Disconnect, Recover, Persist, Save,
        ClearIntent, Inspect, InspectSkipped, InspectFails, CollectThrows, NextRange, End
<1> DEFINE Ok(s, item) == Current(item, server'.last[s], server'.shown[s].at, made'[s])
<1>6. \A s \in Source : \A item : CurrentFor(s, item) => Ok(s, item)
  BY <1>4, <1>5, RangeKeeps
<1>7. \A s \in Source : Ok(s, None) /\ Ok(s, Nowhere[s])
  BY CurrentNone
<1>8. ASSUME NEW s \in Source PROVE known'[s] <= server'.last[s] /\ server'.shown[s].at <= made'[s]
  <2>1. /\ known[s] \in Nat /\ server.last[s] \in Nat /\ server.shown[s].at \in Nat
        /\ made[s] \in Nat /\ made'[s] \in Nat
    BY <1>1 DEF TInv, DiskOK, WorldOK, Views
  <2>2. known'[s] = known[s] \/ known'[s] = server.last[s]
    BY <1>3
    DEF Begin, RangeStep, Crash, LoseState, Change, Disconnect, Recover, Persist, Save, config,
        ClearIntent, Inspect, InspectSkipped, InspectFails, CollectThrows, Collect, NextRange, End
  <2> QED
    BY <1>2, <1>4, <1>5, <2>1, <2>2
<1> HIDE DEF Ok
<1>9. ASSUME NEW s \in Source PROVE Ok(s, pending'[s]) /\ Ok(s, error'[s])
  <2>1. CASE \E q \in Source : Save(q)
    <3>1. PICK q \in Source : Save(q)
      BY <2>1
    <3>2. /\ pending'[s] = pending[s] \/ pending'[s] = mem.intent[s]
          /\ error'[s] \in {error[s], mem.intent[s], None}
      BY <1>1, <3>1 DEF Save, FilesOK
    <3>3. CurrentFor(s, mem.intent[s])
      BY <1>2, <3>1 DEF Save, At
    <3> QED
      BY <1>2, <1>6, <1>7, <3>2, <3>3
  <2>2. CASE Inspect
    <3>1. pending'[s] \in {pending[s], None} /\ error'[s] \in {error[s], None}
      BY <2>2 DEF Inspect, Retire
    <3> QED
      BY <1>2, <1>6, <1>7, <3>1
  <2>3. CASE UNCHANGED files
    BY <1>2, <1>6, <2>3 DEF files
  <2> QED
    BY <1>3, <2>1, <2>2, <2>3
    DEF Begin, RangeStep, Crash, LoseState, Change, Disconnect, Recover, Persist,
        ClearIntent, InspectSkipped, InspectFails, CollectThrows, Collect, NextRange, End
<1>10. ASSUME NEW s \in Source PROVE Ok(s, state'.intent[s])
  <2>1. CASE Persist
    BY <1>2, <1>6, <2>1 DEF Persist, At
  <2>2. CASE ClearIntent \/ LoseState
    <3>1. state'.intent = Nowhere
      BY <1>1, <2>2 DEF ClearIntent, LoseState
    <3> QED
      BY <1>7, <3>1
  <2>3. CASE Inspect
    <3>1. state'.intent = state.intent
      BY <1>1, <2>3, InspectIntent
    <3> QED
      BY <1>2, <1>6, <3>1
  <2>4. CASE Collect
    BY <1>7, <2>4, CollectOrder
  <2>5. CASE UNCHANGED state
    BY <1>2, <1>6, <2>5
  <2> QED
    BY <1>3, <2>1, <2>2, <2>3, <2>4, <2>5
    DEF Begin, RangeStep, Crash, Change, Disconnect, Recover, Save, InspectSkipped,
        InspectFails, CollectThrows, NextRange, End
<1>11. \/ UNCHANGED <<run, mem>> /\ (UNCHANGED state \/ state'.intent = Nowhere)
       \/ /\ run'.work = <<>>
          /\ \/ run'.pc \in {"idle", "recover", "done"}
             \/ run'.pc = "drain" /\ state'.intent = Nowhere
             \/ run'.pc = "collect" /\ state'.intent = Nowhere /\ mem'.intent = Nowhere
             \/ run'.pc = "persist" /\ state'.intent = Nowhere /\ Collect
             \/ run'.pc = "save" /\ \A s \in Source : CurrentFor(s, mem'.intent[s])
  <2>1. run.pc \notin Delivering => run.work = <<>>
    BY <1>1 DEF RunOK
  <2>2. CASE Begin
    BY <1>1, <2>2 DEF Begin, Idle
  <2>3. CASE NextRange
    <3>1. PICK a, b, c, d, e : run' = [Idle EXCEPT !.pc = "recover", !.auto = a, !.range = b,
                                        !.scope = c, !.blocked = d, !.tried = e]
      BY <2>3 DEF NextRange
    <3> QED
      BY <3>1 DEF Idle
  <2>4. CASE InspectFails \/ CollectThrows \/ End \/ Crash
    BY <1>1, <2>4 DEF InspectFails, CollectThrows, End, Crash, Leaves
  <2>5. CASE Recover
    BY <1>1, <1>2, <2>1, <2>5 DEF Recover, At, Runs, Delivering
  <2>6. CASE Persist
    BY <1>1, <1>2, <2>1, <2>6 DEF Persist, At, Runs, Delivering
  <2>7. CASE \E s \in Source : Save(s)
    BY <1>1, <1>2, <2>1, <2>7 DEF Save, At, Runs, Delivering
  <2>8. CASE ClearIntent
    BY <1>1, <2>1, <2>8 DEF ClearIntent, At, Runs, Delivering
  <2>9. CASE Inspect \/ InspectSkipped
    <3>1. state'.intent = state.intent /\ mem' = state'
      BY <1>1, <2>9, InspectIntent DEF InspectSkipped
    <3>2. run.pc = "inspect" /\ run' = [run EXCEPT !.pc = "collect"]
      BY <2>9 DEF Inspect, InspectSkipped, At
    <3>3. run'.pc = "collect" /\ run'.work = <<>>
      BY <1>1, <2>1, <3>2 DEF Runs, Delivering
    <3> QED
      BY <1>2, <3>1, <3>2, <3>3 DEF IntentGone
  <2>10. CASE Collect
    BY <2>10, CollectOrder
  <2>11. CASE LoseState \/ \E s \in Source : Change(s) \/ Disconnect(s)
    BY <2>11 DEF LoseState, Change, Disconnect, NewState
  <2> QED
    BY <1>3, <2>2, <2>3, <2>4, <2>5, <2>6, <2>7, <2>8, <2>9, <2>10, <2>11 DEF RangeStep
<1>12. IntentGone'
  BY <1>2, <1>11 DEF IntentGone, Delivering
<1>13. run'.pc \in {"save", "persist"} => \A s \in Source : Ok(s, mem'.intent[s])
  <2>1. CASE UNCHANGED <<run, mem>>
    BY <1>2, <1>6, <2>1
  <2>2. CASE run'.pc = "persist" /\ Collect
    BY <1>4, <2>2, CollectOrder DEF Ok
  <2>3. CASE run'.pc = "save" /\ \A s \in Source : CurrentFor(s, mem'.intent[s])
    BY <1>6, <2>3
  <2> QED
    BY <1>11, <2>1, <2>2, <2>3
<1>14. \A i \in DOMAIN run'.work : \A s \in run'.work[i].of : Ok(s, run'.work[i].item[s])
  <2>1. CASE run'.work = <<>>
    BY <2>1
  <2>2. CASE UNCHANGED run
    <3>1. run.work \in Seq(Groups)
      BY <1>1 DEF Runs
    <3>2. \A i \in DOMAIN run.work : run.work[i] \in Groups
      BY <3>1
    <3>3. \A i \in DOMAIN run.work : run.work[i].of \subseteq Source
      BY <3>2 DEF Groups
    <3> QED
      BY <1>2, <1>6, <2>2, <3>3
  <2> QED
    BY <1>11, <2>1, <2>2
<1> QED
  BY <1>3, <1>8, <1>9, <1>10, <1>12, <1>13, <1>14 DEF OrderInv, CurrentFor, Ok

(* What is left to be delivered was to be delivered before. *)
LEMMA WorkFrom ==
  ASSUME TInv, Bisect \/ RefuseOne \/ DropRetired \/ Acked, NEW i \in DOMAIN run'.work
  PROVE  \E j \in DOMAIN run.work : /\ run'.work[i].item = run.work[j].item
                                    /\ run'.work[i].errors = run.work[j].errors
                                    /\ run'.work[i].of \subseteq run.work[j].of
<1>1. /\ run \in Runs /\ run.work \in Seq(Groups) /\ run.work # <<>> /\ Len(run.work) \in Nat
      /\ 1 \in DOMAIN run.work /\ DOMAIN run.work = 1 .. Len(run.work)
  <2>1. run \in Runs /\ run.work \in Seq(Groups) /\ run.work # <<>>
    BY DEF TInv, RunOK, Runs, Bisect, RefuseOne, DropRetired, Acked, Posting, At
  <2> HIDE DEF Groups
  <2> QED
    BY <2>1
<1>2. /\ Group = run.work[1] /\ Group \in Groups /\ Batch = Group.of
      /\ \A left \in SUBSET Batch : LET g == [Group EXCEPT !.of = left]
                                    IN  /\ g \in Groups /\ g.item = Group.item
                                        /\ g.errors = Group.errors /\ g.of = left
  <2>1. Group = run.work[1] /\ Group \in Groups /\ Batch = Group.of
    BY <1>1, AtHand
  <2> QED
    BY <2>1 DEF Groups
<1>3. CASE run'.work = run.work
  BY <1>3
<1>4. CASE run'.work = Tail(run.work)
  <2>1. i \in 1 .. Len(run.work) - 1 /\ Tail(run.work)[i] = run.work[i + 1]
    BY <1>1, <1>4, Rest
  <2>2. i + 1 \in DOMAIN run.work
    BY <1>1, <2>1
  <2> QED
    BY <1>4, <2>1, <2>2
<1>5. CASE \E left \in SUBSET Batch : run'.work = <<[Group EXCEPT !.of = left]>> \o Tail(run.work)
  <2>1. PICK left \in SUBSET Batch : run'.work = <<[Group EXCEPT !.of = left]>> \o Tail(run.work)
    BY <1>5
  <2> DEFINE g == [Group EXCEPT !.of = left]
  <2>2. g \in Groups /\ g.item = Group.item /\ g.errors = Group.errors /\ g.of \subseteq Group.of
    BY <1>2
  <2>3. run'.work = <<g>> \o Tail(run.work)
    BY <2>1
  <2> HIDE DEF g
  <2>4. /\ Len(run'.work) = Len(run.work) /\ run'.work[1] = g /\ run'.work \in Seq(Groups)
        /\ \A k \in 2 .. Len(run.work) : run'.work[k] = run.work[k]
    BY <1>1, <2>2, <2>3, FrontOne
  <2>5. i \in 1 .. Len(run.work)
    BY <2>4
  <2>6. CASE i = 1
    BY <1>1, <1>2, <2>2, <2>4, <2>6
  <2>7. CASE i # 1
    <3>1. i \in 2 .. Len(run.work)
      BY <1>1, <2>5, <2>7
    <3> QED
      BY <1>1, <2>4, <2>5, <3>1
  <2> QED
    BY <2>6, <2>7
<1>6. CASE \E left \in SUBSET Batch :
             run'.work = << [Group EXCEPT !.of = left], [Group EXCEPT !.of = Batch \ left] >>
                         \o Tail(run.work)
  <2>1. PICK left \in SUBSET Batch :
             run'.work = << [Group EXCEPT !.of = left], [Group EXCEPT !.of = Batch \ left] >>
                         \o Tail(run.work)
    BY <1>6
  <2> DEFINE g == [Group EXCEPT !.of = left]
             h == [Group EXCEPT !.of = Batch \ left]
  <2>2. g \in Groups /\ g.item = Group.item /\ g.errors = Group.errors /\ g.of \subseteq Group.of
    BY <1>2
  <2>3. h \in Groups /\ h.item = Group.item /\ h.errors = Group.errors /\ h.of \subseteq Group.of
    <3>1. (Batch \ left) \in SUBSET Batch
      OBVIOUS
    <3> QED
      BY <1>2, <3>1
  <2>4. run'.work = <<g, h>> \o Tail(run.work)
    BY <2>1
  <2> HIDE DEF g, h
  <2>5. /\ Len(run'.work) = Len(run.work) + 1 /\ run'.work[1] = g /\ run'.work[2] = h
        /\ run'.work \in Seq(Groups)
        /\ \A k \in 3 .. Len(run.work) + 1 : run'.work[k] = run.work[k - 1]
    BY <1>1, <2>2, <2>3, <2>4, FrontTwo
  <2>6. i \in 1 .. Len(run.work) + 1
    BY <2>5
  <2>7. CASE i = 1 \/ i = 2
    BY <1>1, <1>2, <2>2, <2>3, <2>5, <2>7
  <2>8. CASE i # 1 /\ i # 2
    <3>1. i \in 3 .. Len(run.work) + 1
      BY <1>1, <2>6, <2>8
    <3>2. i - 1 \in DOMAIN run.work /\ run'.work[i] = run.work[i - 1]
      BY <1>1, <2>5, <3>1
    <3> QED
      BY <3>2
  <2> QED
    BY <2>7, <2>8
<1>7. CASE Bisect
  <2>1. run'.work \in {<< [Group EXCEPT !.of = left], [Group EXCEPT !.of = Batch \ left] >>
                       \o Tail(run.work) : left \in SUBSET Batch}
    BY <1>1, <1>7 DEF Bisect, Runs
  <2> QED
    BY <1>6, <2>1
<1>8. CASE RefuseOne
  <2>1. run'.work = Tail(run.work)
    BY <1>1, <1>8 DEF RefuseOne, Runs
  <2> QED
    BY <1>4, <2>1
<1>9. CASE DropRetired
  <2> DEFINE left == Batch \ run.retired
  <2>1. run'.work = (IF left = {} THEN <<>> ELSE <<[Group EXCEPT !.of = left]>>) \o Tail(run.work)
    BY <1>1, <1>9 DEF DropRetired, Runs
  <2>2. Tail(run.work) \in Seq(Groups)
    BY <1>1, Rest
  <2>3. <<>> \o Tail(run.work) = Tail(run.work)
    BY <2>2
  <2>4. left \in SUBSET Batch
    OBVIOUS
  <2> HIDE DEF left
  <2> QED
    BY <1>4, <1>5, <2>1, <2>3, <2>4
<1>10. CASE Acked
  <2>1. run'.work = run.work \/ run'.work = Tail(run.work)
    BY <1>1, <1>10, AckedRun DEF Runs
  <2> QED
    BY <1>3, <1>4, <2>1
<1> QED
  BY <1>7, <1>8, <1>9, <1>10

(* A batch that is taken in leaves what is kept current. *)
LEMMA TakeInOrder ==
  ASSUME TInv, TInv', OrderInv, Posting, ~Refused, TakeIn, UNCHANGED <<pending, error, made>>
  PROVE  /\ \A s \in Source : server.last[s] <= server'.last[s] /\ server'.shown[s].at <= made[s]
         /\ \A s \in Source : /\ Current(pending[s], server'.last[s], server'.shown[s].at, made[s])
                              /\ Current(error[s], server'.last[s], server'.shown[s].at, made[s])
         /\ \A i \in DOMAIN run.work : \A s \in run.work[i].of :
              Current(run.work[i].item[s], server'.last[s], server'.shown[s].at, made[s])
<1> USE ConstantsAssumption
<1>1. /\ run \in Runs /\ run.work \in Seq(Groups) /\ run.work # <<>> /\ run.pc = "post" /\ WorkOK
      /\ FilesOK /\ server \in Views /\ server' \in Views /\ made \in [Source -> 0 .. MaxMade]
  BY DEF TInv, RunOK, Runs, Posting, At, WorldOK
<1>2. /\ \A s \in Source : server.shown[s].at <= made[s]
      /\ \A s \in Source : CurrentFor(s, pending[s]) /\ CurrentFor(s, error[s])
      /\ \A i \in DOMAIN run.work : \A s \in run.work[i].of : CurrentFor(s, run.work[i].item[s])
  BY DEF OrderInv
<1>3. Group = run.work[1] /\ 1 \in DOMAIN run.work /\ Batch = Group.of
  BY <1>1, AtHand
<1>4. \A i \in DOMAIN run.work : run.work[i].of \subseteq Source /\ Due(i) = run.work[i].of
  <2>1. \A i \in DOMAIN run.work : run.work[i] \in Groups
    BY <1>1
  <2> QED
    BY <1>1, <2>1 DEF Groups, Due
<1>5. ASSUME NEW s \in Source
      PROVE  /\ server.last[s] \in Nat /\ server'.last[s] \in Nat /\ server.shown[s].at \in Nat
             /\ server'.shown[s].at \in Nat /\ made[s] \in Nat
  BY <1>1 DEF Views
<1> DEFINE Moves(s) == /\ s \in Batch /\ ~Group.errors /\ server.last[s] < server'.last[s]
                       /\ pending[s] \in Items
                       /\ \/ server'.shown[s] = server.shown[s] /\ pending[s].data \notin Content
                          \/ server'.shown[s].at = pending[s].at /\ pending[s].data \in Content
<1>6. \A s \in Source : \/ server'.last[s] = server.last[s] /\ server'.shown[s] = server.shown[s]
                        \/ Moves(s)
  BY TakeInIs
<1>7. ASSUME NEW s \in Source, Moves(s)
      PROVE  /\ server.shown[s].at <= server'.shown[s].at /\ server'.shown[s].at <= made[s]
             /\ server'.shown[s].at = server.shown[s].at \/ server'.shown[s].at = pending[s].at
  <2>1. CASE server'.shown[s] = server.shown[s]
    BY <1>2, <1>5, <2>1
  <2>2. CASE server'.shown[s].at = pending[s].at /\ pending[s].data \in Content
    BY <1>2, <1>7, <2>2 DEF CurrentFor, Current
  <2> QED
    BY <1>7, <2>1, <2>2
<1>8. \A s \in Source : server.last[s] <= server'.last[s] /\ server'.shown[s].at <= made[s]
  <2> SUFFICES ASSUME NEW s \in Source
               PROVE  server.last[s] <= server'.last[s] /\ server'.shown[s].at <= made[s]
    OBVIOUS
  <2>1. CASE Moves(s)
    BY <1>5, <1>7, <2>1
  <2>2. CASE ~Moves(s)
    BY <1>2, <1>5, <1>6, <2>2
  <2> QED
    BY <2>1, <2>2
<1>9. ASSUME NEW s \in Source, NEW item, CurrentFor(s, item), Moves(s),
             item \in Items => \/ item.data = Error
                               \/ item.data = pending[s].data /\ item.at = pending[s].at
      PROVE  Current(item, server'.last[s], server'.shown[s].at, made[s])
  <2> SUFFICES ASSUME item \in Items
               PROVE  Current(item, server'.last[s], server'.shown[s].at, made[s])
    BY DEF Current
  <2>1. item.at \in Nat /\ item.seq \in Nat
    OBVIOUS
  <2> HIDE DEF Items
  <2>2. CASE item.data = Error
    <3>1. item.at <= made[s] /\ item.seq <= server.last[s] /\ item.data \notin Content
      BY <1>9, <2>2 DEF CurrentFor, Current
    <3>2. item.seq < server'.last[s]
      BY <1>5, <1>9, <2>1, <3>1
    <3> QED
      BY <1>5, <2>1, <3>1, <3>2 DEF Current
  <2>3. CASE item.data # Error /\ item.data \notin Content
    BY <2>3 DEF Current
  <2>4. CASE item.data \in Content /\ item.data # Error
    <3>1. item.at = pending[s].at /\ pending[s].data \in Content
      BY <1>9, <2>4
    <3>2. server'.shown[s].at = pending[s].at /\ item.at <= made[s]
      BY <1>9, <2>4, <3>1 DEF CurrentFor, Current
    <3> QED
      BY <1>5, <2>1, <2>4, <3>1, <3>2 DEF Current
  <2> QED
    BY <2>2, <2>3, <2>4
<1>10. ASSUME NEW s \in Source, NEW item, CurrentFor(s, item), ~Moves(s)
       PROVE  Current(item, server'.last[s], server'.shown[s].at, made[s])
  BY <1>6, <1>10 DEF CurrentFor
<1> HIDE DEF Moves
<1>11. ASSUME NEW s \in Source
       PROVE  /\ Current(pending[s], server'.last[s], server'.shown[s].at, made[s])
              /\ Current(error[s], server'.last[s], server'.shown[s].at, made[s])
  <2>1. error[s] \in Items => error[s].data = Error
    BY <1>1 DEF FilesOK
  <2> HIDE DEF Items
  <2> QED
    BY <1>2, <1>9, <1>10, <2>1
<1>12. ASSUME NEW i \in DOMAIN run.work, NEW s \in run.work[i].of
       PROVE  Current(run.work[i].item[s], server'.last[s], server'.shown[s].at, made[s])
  <2> DEFINE item == run.work[i].item[s]
  <2>1. s \in Source /\ CurrentFor(s, item)
    BY <1>2, <1>4
  <2>2. CASE ~Moves(s)
    BY <1>10, <2>1, <2>2
  <2>3. CASE Moves(s) /\ run.work[i].errors
    <3>1. item.data = Error
      BY <1>1, <2>3 DEF WorkOK, Filled
    <3> QED
      BY <1>9, <2>1, <2>3, <3>1
  <2>4. CASE Moves(s) /\ ~run.work[i].errors
    <3>1. item.data = pending[s].data /\ item.at = pending[s].at
      BY <1>1, <1>4, <2>4 DEF WorkOK, OnFile
    <3> QED
      BY <1>9, <2>1, <2>4, <3>1
  <2> QED
    BY <2>2, <2>3, <2>4
<1> QED
  BY <1>8, <1>11, <1>12

(* What a step of a delivery that takes nothing in does to the files: one *)
(* is gone, or a snapshot is renumbered.                                   *)
LEMMA FileLeft ==
  ASSUME TInv, Deliver
  PROVE  \A s \in Source :
           /\ \/ pending'[s] \in {pending[s], None}
              \/ /\ run.pc = "ack" /\ pending[s] \in Snapshots /\ pending'[s] \in Snapshots
                 /\ pending'[s].data = pending[s].data /\ pending'[s].at = pending[s].at
                 /\ pending'[s].seq = known[s] + 1
           /\ error'[s] \in {error[s], None}
<1>1. FilesOK /\ WorkOK /\ RunOK /\ run \in Runs /\ known \in [Source -> Nat]
  BY DEF TInv, RunOK, DiskOK
<1>2. CASE \E s \in Source : Ack(s)
  <2>1. PICK q \in Source : Ack(q)
    BY <1>2
  <2>2. run.pc = "ack" /\ q \in run.todo /\ run.work # <<>>
    BY <1>1, <2>1 DEF Ack, At, RunOK
  <2>3. Group = run.work[1] /\ 1 \in DOMAIN run.work /\ q \in Due(1)
    BY <2>2, AtHand DEF Due
  <2>4. CASE Stale(q)
    <3>1. pending' = [pending EXCEPT ![q].seq = known[q] + 1] /\ error' = [error EXCEPT ![q] = None]
      BY <2>1, <2>4 DEF Ack
    <3>2. pending[q] \in Snapshots /\ known[q] + 1 \in Nat
      BY <1>1, <2>3, <2>4 DEF WorkOK, OnFile, Stale
    <3>3. \A s \in Source : s # q => pending'[s] = pending[s]
      BY <1>1, <3>1 DEF FilesOK
    <3>4. pending'[q] = [pending[q] EXCEPT !.seq = known[q] + 1]
      BY <1>1, <3>1 DEF FilesOK
    <3>5. \A s \in Source : error'[s] \in {error[s], None}
      BY <1>1, <3>1 DEF FilesOK
    <3>6. /\ pending'[q] \in Snapshots /\ pending'[q].data = pending[q].data
          /\ pending'[q].at = pending[q].at /\ pending'[q].seq = known[q] + 1
      BY <3>2, <3>4
    <3> HIDE DEF Snapshots
    <3> QED
      BY <2>2, <3>2, <3>3, <3>5, <3>6
  <2>5. CASE ~Stale(q)
    BY <2>1, <2>5 DEF Ack
  <2> QED
    BY <2>4, <2>5
<1>3. CASE Drain
  BY <1>3 DEF Drain
<1>4. CASE RefuseOne
  BY <1>1, <1>4 DEF RefuseOne, RemoveFile, FilesOK
<1>5. CASE Acked
  BY <1>1, <1>5 DEF Acked, RemoveFile, FilesOK, files
<1>6. CASE Settle
  BY <1>6 DEF Settle, Retire
<1>7. CASE DropRetired
  BY <1>7 DEF DropRetired
<1>8. CASE PostAnswered \/ PostFails \/ Bisect \/ Remember
  BY <1>8 DEF PostAnswered, PostFails, Bisect, Remember, files
<1> QED
  BY <1>2, <1>3, <1>4, <1>5, <1>6, <1>7, <1>8 DEF Deliver

(* Where a step of a delivery leaves the run, and that it neither begins   *)
(* nor keeps an intent.                                                    *)
LEMMA DeliverGoes ==
  ASSUME TInv, Deliver
  PROVE  /\ run.pc \in Delivering \cup {"drain"}
         /\ run'.pc \in Delivering \cup {"drain", "inspect", "done", "idle"}
         /\ state'.intent = state.intent
<1>1. run \in Runs /\ state \in StateType
  BY DEF TInv, RunOK, DiskOK
<1>2. CASE Drain
  <2>1. PICK w : run' = [run EXCEPT !.pc = "post", !.stale = {}, !.retired = {}, !.work = w]
    BY <1>2, DrainWork
  <2> QED
    BY <1>1, <1>2, <2>1 DEF Drain, At, Runs, Delivering
<1>3. CASE PostAnswered
  BY <1>1, <1>3 DEF PostAnswered, Posting, At, Runs, Delivering
<1>4. CASE PostFails
  BY <1>1, <1>4 DEF PostFails, Posting, At, Leaves, Idle, Delivering
<1>5. CASE Bisect \/ DropRetired
  BY <1>1, <1>5 DEF Bisect, DropRetired, Posting, At, Runs, Delivering
<1>6. CASE RefuseOne
  <2>1. /\ run.pc = "post" /\ UNCHANGED state
        /\ \E a, b, c : \/ run' = [run EXCEPT !.work = a, !.blocked = b]
                        \/ run' = [run EXCEPT !.work = a, !.retired = c]
    BY <1>6 DEF RefuseOne, Posting, At
  <2> QED
    BY <1>1, <2>1 DEF Runs, Delivering
<1>7. CASE Remember
  BY <1>1, <1>7 DEF Remember, At, Runs, Delivering
<1>8. CASE \E s \in Source : Ack(s)
  BY <1>1, <1>8 DEF Ack, At, Runs, Delivering
<1>9. CASE Acked
  <2> DEFINE left == run.todo \ {run.cur}
  <2>1. PICK late : run' = [run EXCEPT !.pc = IF left = {} THEN "post" ELSE "ack", !.todo = left,
                                      !.work = IF left = {} THEN Tail(@) ELSE @, !.stale = late]
    BY <1>1, <1>9, AckedRun
  <2> HIDE DEF left
  <2>2. run'.pc \in {"post", "ack"}
    BY <1>1, <2>1 DEF Runs
  <2> QED
    BY <1>1, <1>9, <2>2 DEF Acked, At, Delivering
<1>10. CASE Settle
  <2>1. state'.intent = state.intent /\ run.pc = "post"
    BY <1>1, <1>10, ForgottenType DEF Settle, At
  <2>2. \/ Leaves
        \/ \E a, b : \E pc \in {"drain", "inspect", "done"} :
             run' = [run EXCEPT !.pass = a, !.blocked = b, !.pc = pc]
    BY <1>10, SettleRun
  <2>3. CASE Leaves
    BY <2>1, <2>3 DEF Leaves, Idle, Delivering
  <2>4. CASE \E a, b : \E pc \in {"drain", "inspect", "done"} :
               run' = [run EXCEPT !.pass = a, !.blocked = b, !.pc = pc]
    BY <1>1, <2>1, <2>4 DEF Runs, Delivering
  <2> QED
    BY <2>2, <2>3, <2>4
<1> QED
  BY <1>2, <1>3, <1>4, <1>5, <1>6, <1>7, <1>8, <1>9, <1>10 DEF Deliver

(* The answer to a request keeps the groups, its loss ends the range. *)
LEMMA PostRun ==
  ASSUME run \in Runs, PostAnswered \/ PostFails
  PROVE  /\ \/ \E taken \in {{}, Fresh} :
                 run' = [run EXCEPT !.pc = "remember", !.taken = taken]
            \/ Leaves
         /\ run'.work = run.work \/ run'.work = <<>>
<1>1. CASE PostAnswered
  <2>1. PICK taken \in {{}, Fresh} : run' = [run EXCEPT !.pc = "remember", !.taken = taken]
    BY <1>1 DEF PostAnswered
  <2> HIDE DEF Fresh
  <2>2. run'.work = run.work
    BY <2>1 DEF Runs
  <2> QED
    BY <2>1, <2>2
<1>2. CASE PostFails
  BY <1>2 DEF PostFails, Leaves, Idle
<1> QED
  BY <1>1, <1>2

(* Steps of a delivery. *)
LEMMA OrderDeliver ==
  ASSUME TInv, TInv', OrderInv, Deliver
  PROVE  OrderInv'
<1> USE ConstantsAssumption
<1>1. /\ run \in Runs /\ run' \in Runs /\ RunOK /\ FilesOK /\ server \in Views /\ WorkOK'
      /\ server' \in Views /\ made \in [Source -> 0 .. MaxMade] /\ known \in [Source -> Nat]
  BY DEF TInv, DiskOK, WorldOK, RunOK
<1>2. /\ compact.pc = "off" /\ IntentGone
      /\ \A s \in Source : known[s] <= server.last[s] /\ server.shown[s].at <= made[s]
      /\ \A s \in Source : CurrentFor(s, pending[s]) /\ CurrentFor(s, error[s])
      /\ \A i \in DOMAIN run.work : \A s \in run.work[i].of : CurrentFor(s, run.work[i].item[s])
  BY DEF OrderInv
<1>3. compact' = compact /\ made' = made
  BY DEF Deliver, Drain, PostAnswered, PostFails, Bisect, RefuseOne, DropRetired, Remember, Ack,
         Acked, Settle
<1>4. /\ run.pc \in Delivering \cup {"drain"} /\ state'.intent = Nowhere
      /\ run'.pc \in Delivering \cup {"drain", "inspect", "done", "idle"}
  BY <1>2, DeliverGoes DEF IntentGone
<1>5. IntentGone' /\ run'.pc \notin {"save", "persist"}
  BY <1>4 DEF IntentGone, Delivering
<1>6. \A s \in Source : /\ known[s] \in Nat /\ server.last[s] \in Nat /\ server.shown[s].at \in Nat
                        /\ server'.last[s] \in Nat
  BY <1>1 DEF Views
<1>7. CASE Posting /\ ~Refused /\ TakeIn /\ (PostAnswered \/ PostFails)
  <2>1. UNCHANGED <<pending, error, known>>
    BY <1>7 DEF PostAnswered, PostFails, files, config
  <2>2. /\ \A s \in Source : server.last[s] <= server'.last[s] /\ server'.shown[s].at <= made[s]
        /\ \A s \in Source : /\ Current(pending[s], server'.last[s], server'.shown[s].at, made[s])
                             /\ Current(error[s], server'.last[s], server'.shown[s].at, made[s])
        /\ \A i \in DOMAIN run.work : \A s \in run.work[i].of :
             Current(run.work[i].item[s], server'.last[s], server'.shown[s].at, made[s])
    BY <1>3, <1>7, <2>1, TakeInOrder
  <2>3. run'.work = run.work \/ run'.work = <<>>
    BY <1>1, <1>7, PostRun
  <2>4. \A s \in Source : known'[s] <= server'.last[s]
    <3> TAKE s \in Source
    <3> DEFINE a == known[s]
               b == server.last[s]
               c == server'.last[s]
    <3>1. a \in Nat /\ b \in Nat /\ c \in Nat /\ a <= b /\ b <= c /\ known'[s] = a
      BY <1>2, <1>6, <2>1, <2>2
    <3> HIDE DEF a, b, c
    <3>2. known'[s] <= c
      BY <3>1
    <3> QED
      BY <3>2 DEF c
  <2>5. \A s \in Source : /\ CurrentFor(s, pending[s])' /\ CurrentFor(s, error[s])'
                          /\ CurrentFor(s, state.intent[s])'
    BY <1>3, <1>4, <2>1, <2>2, CurrentNone DEF CurrentFor
  <2>6. \A i \in DOMAIN run'.work : \A s \in run'.work[i].of : CurrentFor(s, run.work[i].item[s])'
    BY <1>3, <2>2, <2>3 DEF CurrentFor
  <2> QED
    BY <1>2, <1>3, <1>5, <2>2, <2>4, <2>5, <2>6 DEF OrderInv
<1>8. CASE server' = server
  <2> DEFINE Ok(s, item) == Current(item, server'.last[s], server'.shown[s].at, made'[s])
  <2>1. \A s \in Source : \A item : CurrentFor(s, item) => Ok(s, item)
    BY <1>3, <1>8 DEF CurrentFor
  <2>2. \A s \in Source : Ok(s, None) /\ Ok(s, Nowhere[s])
    BY CurrentNone
  <2>3. \A s \in Source : Ok(s, state'.intent[s])
    BY <1>4, <2>2
  <2>4. ASSUME NEW s \in Source PROVE Ok(s, pending'[s]) /\ Ok(s, error'[s])
    <3>1. error'[s] \in {error[s], None}
      BY FileLeft
    <3>2. CASE pending'[s] \in {pending[s], None}
      BY <1>2, <2>1, <2>2, <3>1, <3>2
    <3>3. CASE /\ pending[s] \in Snapshots /\ pending'[s] \in Snapshots
               /\ pending'[s].data = pending[s].data /\ pending'[s].at = pending[s].at
      <4>1. pending[s] \in Items /\ pending[s].data # Error
        BY <3>3
      <4>2. Ok(s, pending[s])
        BY <1>2, <2>1
      <4> HIDE DEF Items, Snapshots
      <4>3. Ok(s, pending'[s])
        BY <3>3, <4>1, <4>2 DEF Current
      <4> HIDE DEF Ok
      <4> QED
        BY <1>2, <2>1, <2>2, <3>1, <4>3
    <3> QED
      BY <3>2, <3>3, FileLeft
  <2>5. \A s \in Source : known'[s] <= server'.last[s] /\ server'.shown[s].at <= made'[s]
    <3>1. \A s \in Source : known'[s] \in {known[s], server.last[s]}
      BY DEF Deliver, Drain, PostAnswered, PostFails, Bisect, RefuseOne, DropRetired, Remember,
             Ack, Acked, Settle, config
    <3> QED
      BY <1>2, <1>3, <1>6, <1>8, <3>1
  <2> HIDE DEF Ok
  <2>6. \A i \in DOMAIN run'.work : \A s \in run'.work[i].of : Ok(s, run'.work[i].item[s])
    <3>0. \A i \in DOMAIN run.work : run.work[i].of \subseteq Source
      <4>1. \A i \in DOMAIN run.work : run.work[i] \in Groups
        BY <1>1 DEF Runs
      <4> QED
        BY <4>1 DEF Groups
    <3>1. CASE run'.work = run.work
      BY <1>2, <2>1, <3>0, <3>1
    <3>2. CASE run'.work = <<>>
      BY <3>2
    <3>3. CASE Drain
      <4> DEFINE p == FilesRead(FALSE, pending')
                 e == FilesRead(TRUE, error')
      <4> HIDE DEF p, e
      <4>1. /\ p.item = pending' /\ e.item = error' /\ p \in Groups /\ e \in Groups
            /\ \A i \in DOMAIN run'.work : run'.work[i] \in {p, e}
        BY <3>3, DrainWork DEF p, e
      <4>2. p.of \subseteq Source /\ e.of \subseteq Source
        BY <4>1 DEF Groups
      <4> QED
        BY <2>4, <4>1, <4>2
    <3>4. CASE Bisect \/ RefuseOne \/ DropRetired \/ Acked
      <4> SUFFICES ASSUME NEW i \in DOMAIN run'.work, NEW s \in run'.work[i].of
                   PROVE  Ok(s, run'.work[i].item[s])
        OBVIOUS
      <4>1. PICK j \in DOMAIN run.work : run'.work[i].item = run.work[j].item
                                         /\ run'.work[i].of \subseteq run.work[j].of
        BY <3>4, WorkFrom
      <4> QED
        BY <1>2, <2>1, <3>0, <4>1
    <3>5. CASE Settle
      <4>1. run.work = <<>>
        BY <3>5 DEF Settle
      <4>2. \/ Leaves
            \/ \E a, b, pc : run' = [run EXCEPT !.pass = a, !.blocked = b, !.pc = pc]
        BY <3>5, SettleRun
      <4>3. run'.work = <<>>
        <5>1. CASE Leaves
          BY <5>1 DEF Leaves, Idle
        <5>2. CASE \E a, b, pc : run' = [run EXCEPT !.pass = a, !.blocked = b, !.pc = pc]
          BY <1>1, <4>1, <5>2 DEF Runs
        <5> QED
          BY <4>2, <5>1, <5>2
      <4> QED
        BY <3>2, <4>3
    <3>6. CASE PostAnswered \/ PostFails
      BY <1>1, <3>1, <3>2, <3>6, PostRun
    <3>7. CASE Remember \/ \E s \in Source : Ack(s)
      BY <1>1, <3>1, <3>7 DEF Remember, Ack, Runs
    <3> QED
      BY <3>3, <3>4, <3>5, <3>6, <3>7 DEF Deliver
  <2> QED
    BY <1>2, <1>3, <1>5, <2>3, <2>4, <2>5, <2>6 DEF OrderInv, CurrentFor, Ok
<1>9. server' = server \/ (Posting /\ ~Refused /\ TakeIn /\ (PostAnswered \/ PostFails))
  BY DEF Deliver, Drain, PostAnswered, PostFails, Bisect, RefuseOne, DropRetired, Remember, Ack,
         Acked, Settle
<1> QED
  BY <1>7, <1>8, <1>9

(* Every step keeps the order. *)
LEMMA OrderStep ==
  ASSUME "compaction" \notin Faults, TInv, OrderInv, [Next]_vars
  PROVE  OrderInv'
<1>1. TInv'
  BY TypeStep
<1>2. CASE UNCHANGED vars
  <2>1. UNCHANGED <<state, mem, pending, error, known, server, run, compact, made>>
    BY <1>2 DEF vars, files, config
  <2> QED
    BY <2>1 DEF OrderInv, IntentGone, CurrentFor
<1>3. CASE Deliver
  BY <1>1, <1>3, OrderDeliver
<1>4. CASE ~Deliver /\ ~UNCHANGED vars
  BY <1>1, <1>4, OrderRange DEF Next
<1> QED
  BY <1>2, <1>3, <1>4

(* Every step is a step of Outbox or leaves its variables as they are. *)
LEMMA StepRefines ==
  ASSUME "compaction" \notin Faults, TInv, OrderInv, [Next]_vars
  PROVE  [O!Next]_(O!vars)
<1> USE ConstantsAssumption
<1>1. /\ server \in Views /\ server' \in Views /\ made \in [Source -> 0 .. MaxMade]
      /\ made' \in [Source -> 0 .. MaxMade]
  BY TypeStep DEF TInv, WorldOK
<1>2. CASE Collect
  <2>1. UNCHANGED server
    BY <1>2 DEF Collect
  <2>2. \A s \in Source : made'[s] \in {made[s], made[s] + 1}
    BY <1>2, CollectOrder
  <2>3. made' \in [Source -> Nat]
    BY <1>1
  <2> QED
    BY <2>1, <2>2, <2>3 DEF O!Next, O!Collect
<1>3. CASE Posting /\ ~Refused /\ TakeIn /\ made' = made
  <2>1. /\ [s \in Source |-> server'.shown[s].at] \in [Source -> Nat]
        /\ server'.failing \in [Source -> Nat]
    BY <1>1 DEF Views
  <2>2. ASSUME NEW s \in Source
        PROVE  /\ server'.shown[s].at \in server.shown[s].at .. made[s]
               /\ \/ server'.failing[s] = 0
                  \/ /\ server'.failing[s] = server.failing[s]
                     /\ server'.shown[s].at = server.shown[s].at
                  \/ /\ server'.failing[s] \in (server.shown[s].at + 1) .. made[s]
                     /\ server'.shown[s].at = server.shown[s].at
    <3>1. /\ server.shown[s].at \in Nat /\ server'.shown[s].at \in Nat /\ made[s] \in Nat
          /\ server.shown[s].at <= made[s] /\ CurrentFor(s, pending[s])
      BY <1>1 DEF Views, OrderInv
    <3>2. CASE server'.shown[s] = server.shown[s]
      BY <1>3, <3>1, <3>2, TakeInIs
    <3>3. CASE /\ pending[s] \in Items /\ server'.shown[s].at = pending[s].at
               /\ pending[s].data \in Content /\ server'.failing[s] = 0
      BY <3>1, <3>3 DEF CurrentFor, Current
    <3> QED
      BY <1>3, <3>2, <3>3, TakeInIs
  <2> QED
    BY <1>3, <2>1, <2>2 DEF O!Next, O!Deliver, O!Shows
<1>4. CASE UNCHANGED <<made, server>> \/ (UNCHANGED made /\ \E s \in Source : Disconnect(s))
  BY <1>1, <1>4 DEF O!vars, Disconnect, Views
<1>5. \/ Collect
      \/ Posting /\ ~Refused /\ TakeIn /\ made' = made
      \/ UNCHANGED <<made, server>>
      \/ UNCHANGED made /\ \E s \in Source : Disconnect(s)
  BY DEF vars, Next, Deliver, Drain, PostAnswered, PostFails, Bisect, RefuseOne, DropRetired,
         Remember, Ack, Acked, Settle, Begin, RangeStep, Crash, LoseState, Compaction, Change,
         Disconnect, Recover, Persist, Save, ClearIntent, Inspect, InspectSkipped, InspectFails,
         CollectThrows, NextRange, End, CompactRead, CompactWrite, CompactEnds
<1> QED
  BY <1>2, <1>3, <1>4, <1>5

(* The server's view of a source only moves forward: sequences the server  *)
(* calls stale, replayed intents and repeated requests never bring older   *)
(* usage back, and an error never outlives the usage that follows it.  A   *)
(* final compaction that writes an old state back is left out: it replays  *)
(* intents that were delivered long ago.                                   *)
THEOREM Refinement ==
  ASSUME "compaction" \notin Faults
  PROVE  Spec => ImplementsOutbox
<1>1. Init => TInv /\ OrderInv /\ O!Init
  <2>1. Init => O!Init
    BY DEF Init, O!Init, Item
  <2> QED
    BY <2>1, TypeInit, OrderInit
<1>2. TInv /\ OrderInv /\ [Next]_vars => (TInv /\ OrderInv)' /\ [O!Next]_(O!vars)
  BY TypeStep, OrderStep, StepRefines
<1> QED
  BY <1>1, <1>2, PTL DEF Spec, ImplementsOutbox, O!Spec

-----------------------------------------------------------------------------
(* What a fingerprint stands for *)

(* Sources that are neither retired here nor disconnected on the server. *)
Live == mapped \cap server.active

Usage(item) == item \in Items /\ item.data \in Content
Part(item) == item \in Items /\ item.data \in Chunk

(* A fingerprint of usage, next to the intent, the pending file and what   *)
(* the server shows.  An intent for a chunk is about to replace the file.  *)
Backed(fp, intent, file, shown) ==
  fp \in Content =>
    /\ Usage(intent) => intent.data = fp
    /\ ~Usage(intent) /\ Usage(file) => file.data = fp
    /\ \/ fp \in Bad \/ shown = fp \/ Usage(intent)
       \/ Usage(file) /\ ~Part(intent)

BackedFor(s, fp, intent) == Backed(fp, intent, pending[s], server.shown[s].data)

AllBacked(st) == \A s \in Live : BackedFor(s, st.fp[s], st.intent[s])

(* The server shows what the fingerprint stands for, or refuses it. *)
Shown(s) == state.fp[s] \in Content \ Bad => server.shown[s].data = state.fp[s]

(* The sources with a snapshot, or an error, that is still to be delivered. *)
Waiting(errors) ==
  {s \in Source : \E i \in DOMAIN run.work : (run.work[i].errors <=> errors) /\ s \in Due(i)}

(* The snapshots that are still to be delivered. *)
Awaited == Waiting(FALSE)

(* An intent is replayed into the files one by one. *)
Replayed ==
  run.pc = "save" =>
    /\ mem = state
    /\ \A s \in Source \ run.saving :
         mem.intent[s] \in Items /\ mem.intent[s].data # Error => pending[s] = mem.intent[s]

(* What was collected before is delivered before the next collection. *)
Settled ==
  /\ run.pc \in {"inspect", "collect"} => \A s \in run.scope \cap Live : Shown(s)
  /\ run.pc = "collect" => \A s \in run.scope \cap Live : mem.fp[s] = state.fp[s]

(* A second pass is for what the server called stale, and sends it with a  *)
(* sequence that is later than any the server has seen.                    *)
Renumbered ==
  /\ run.pass = 2 => run.pc \in Delivering \cup {"drain"}
  /\ run.pc = "drain" /\ run.pass = 2 =>
       \A s \in run.scope \cap Live :
         Shown(s) \/ (pending[s] \in Items /\ server.last[s] < pending[s].seq)
  /\ run.pc \in Delivering =>
       \A s \in run.stale : pending[s] \in Items /\ server.last[s] < pending[s].seq

(* In a delivery: what is not shown yet is still to be sent, or was called *)
(* stale in the first pass; nothing that is still to be sent in the second *)
(* pass can be called stale.                                               *)
Underway ==
  run.pc \in Delivering =>
    /\ run.retired \cap server.active = {}
    /\ run.stale \cap Awaited = {}
    /\ \A s \in run.scope \cap Live :
         Shown(s) \/ s \in Awaited \/ (run.pass = 1 /\ s \in run.stale)
    /\ run.pass = 2 =>
         \A s \in run.scope \cap Live : \A i \in DOMAIN run.work :
           ~run.work[i].errors /\ s \in Due(i) =>
             Shown(s) \/ server.last[s] < run.work[i].item[s].seq

(* After an answer the connector knows where the server is. *)
Answered ==
  /\ run.pc \in {"remember", "ack", "acked"} /\ ~Group.errors =>
       \A s \in Batch : /\ Group.item[s].seq <= server.last[s]
                        /\ s \in run.taken /\ Group.item[s].data \in Content =>
                             server.shown[s].data = Group.item[s].data
  /\ run.pc \in {"ack", "acked"} => \A s \in Batch : known[s] = server.last[s]
  /\ run.pc = "acked" /\ Stale(run.cur) => server.last[run.cur] < pending[run.cur].seq

FpInv ==
  /\ AllBacked(state)
  /\ run.pc \in {"save", "collect", "persist"} => AllBacked(mem)
  /\ Replayed /\ Settled /\ Renumbered /\ Underway /\ Answered

(* What is not there is neither usage nor a part of the history. *)
LEMMA NothingThere ==
  /\ ~Usage(None) /\ ~Part(None) /\ None \notin Content /\ Error \notin Content
  /\ \A s \in Source : ~Usage(Nowhere[s]) /\ ~Part(Nowhere[s]) /\ Nowhere[s] = None
  /\ \A item : Part(item) => ~Usage(item)
<1> USE ConstantsAssumption
<1>1. None \notin Items /\ Content \cap Chunk = {}
  OBVIOUS
<1> HIDE DEF Items, Chunk
<1> QED
  BY <1>1 DEF Usage, Part, Nowhere

(* No fingerprint stands for anything when nothing has run. *)
LEMMA FpInit ==
  ASSUME Init
  PROVE  FpInv
<1>1. AllBacked(state)
  BY NothingThere DEF AllBacked, BackedFor, Backed, Init, NewState, Live, Nowhere
<1>2. run = Idle
  BY DEF Init
<1> QED
  BY <1>1, <1>2 DEF FpInv, Replayed, Settled, Renumbered, Underway, Answered, Idle, Delivering

(* Between two ranges nothing but the state matters. *)
LEMMA AtRest ==
  ASSUME AllBacked(state)', run'.pc \in {"idle", "recover", "done"}, run'.pass # 2
  PROVE  FpInv'
BY DEF FpInv, Replayed, Settled, Renumbered, Underway, Answered, Delivering

(* Usage changes, or a source is disconnected in the dashboard. *)
LEMMA FpWorld ==
  ASSUME TInv, FpInv, UNCHANGED vars \/ \E s \in Source : Change(s) \/ Disconnect(s)
  PROVE  FpInv'
<1>1. /\ UNCHANGED <<state, mem, pending, known, mapped, run>>
      /\ server'.last = server.last /\ server'.shown = server.shown
      /\ server'.active \subseteq server.active
  BY DEF vars, files, config, Change, Disconnect, TInv, Views
<1>2. Live' \subseteq Live
  BY <1>1 DEF Live
<1>3. UNCHANGED <<Group, Batch, Awaited>> /\ \A i \in DOMAIN run.work : Due(i)' = Due(i)
  BY <1>1 DEF Group, Batch, Awaited, Waiting, Due
<1>4. (AllBacked(state) => AllBacked(state)') /\ (AllBacked(mem) => AllBacked(mem)')
  BY <1>1, <1>2 DEF AllBacked, BackedFor
<1>5. \A s \in Source : Shown(s)' = Shown(s) /\ Stale(s)' = Stale(s)
  BY <1>1, <1>3 DEF Shown, Stale
<1>6. Replayed' /\ Renumbered' /\ Settled'
  BY <1>1, <1>2, <1>5 DEF FpInv, Replayed, Settled, Renumbered, Shown
<1>7. Underway'
  BY <1>1, <1>2, <1>3, <1>5 DEF FpInv, Underway, Shown
<1>8. Answered'
  BY <1>1, <1>3 DEF FpInv, Answered, Stale
<1> QED
  BY <1>1, <1>4, <1>6, <1>7, <1>8 DEF FpInv

(* A range begins, ends, or is cut short. *)
LEMMA FpRest ==
  ASSUME "compaction" \notin Faults, TInv, FpInv,
         Begin \/ NextRange \/ End \/ InspectFails \/ CollectThrows \/ Crash \/ LoseState
  PROVE  FpInv'
<1>1. UNCHANGED <<pending, mapped, server>>
  BY DEF Begin, NextRange, End, InspectFails, CollectThrows, Crash, LoseState, files, config
<1>2. AllBacked(state)'
  <2>1. CASE LoseState
    <3>1. state'.fp = Nowhere
      BY <2>1 DEF LoseState, NewState
    <3>2. \A s \in Live' : state'.fp[s] \notin Content
      BY <1>1, <3>1, NothingThere DEF Live, TInv, DiskOK, Nowhere
    <3> QED
      BY <3>2 DEF AllBacked, BackedFor, Backed
  <2>2. CASE UNCHANGED state
    BY <1>1, <2>2 DEF FpInv, AllBacked, BackedFor, Live
  <2> QED
    BY <2>1, <2>2 DEF Begin, NextRange, End, InspectFails, CollectThrows, Crash
<1>3. run'.pc \in {"idle", "recover"} /\ run'.pass # 2
  <2>1. CASE LoseState
    BY <2>1 DEF LoseState, At, FpInv, Renumbered, Delivering
  <2>2. CASE Begin
    <3>1. PICK a : run' = [Idle EXCEPT !.pc = "recover", !.auto = a, !.scope = Source]
      BY <2>2 DEF Begin
    <3> QED
      BY <3>1 DEF Idle
  <2>3. CASE NextRange
    <3>1. PICK a, b, c, d, e : run' = [Idle EXCEPT !.pc = "recover", !.auto = a, !.range = b,
                                        !.scope = c, !.blocked = d, !.tried = e]
      BY <2>3 DEF NextRange
    <3> QED
      BY <3>1 DEF Idle
  <2> QED
    BY <2>1, <2>2, <2>3 DEF End, InspectFails, CollectThrows, Crash, Leaves, Idle
<1> QED
  BY <1>2, <1>3, AtRest

(* An interrupted write is replayed, or a new one is put on disk. *)
LEMMA FpWrite ==
  ASSUME TInv, OrderInv, FpInv, Recover \/ Persist
  PROVE  FpInv'
<1>1. /\ UNCHANGED <<pending, mapped, server>> /\ AllBacked(state) /\ run \in Runs
      /\ run.pass # 2 /\ run.pc \in {"recover", "persist"} /\ (run.pc = "persist" => AllBacked(mem))
  BY DEF Recover, Persist, files, config, FpInv, TInv, RunOK, Renumbered, At, Delivering
<1>2. ASSUME NEW st, AllBacked(st)
      PROVE  \A s \in Live' : Backed(st.fp[s], st.intent[s], pending'[s], server'.shown[s].data)
  BY <1>1, <1>2 DEF AllBacked, BackedFor, Live
<1>3. AllBacked(state)'
  <2>1. state' = state \/ (state' = mem /\ run.pc = "persist")
    BY DEF Recover, Persist, At
  <2> QED
    BY <1>1, <1>2, <2>1 DEF AllBacked, BackedFor
<1>4. run'.pc \in {"drain", "save"} /\ run'.pass # 2
  BY <1>1 DEF Recover, Persist, Runs
<1>5. CASE run'.pc = "drain"
  BY <1>3, <1>4, <1>5 DEF FpInv, Replayed, Settled, Renumbered, Underway, Answered, Delivering
<1>6. CASE run'.pc = "save"
  <2>1. mem' = state' /\ run'.saving = Written(mem'.intent)
    <3>1. CASE Persist
      <4>1. state' = mem /\ mem' = mem /\ run'.saving = Written(mem.intent)
        BY <1>1, <3>1 DEF Persist, Runs
      <4> QED
        BY <4>1
    <3>2. CASE Recover
      <4>1. /\ state' = state /\ run.pc = "recover"
            /\ \/ run' = [run EXCEPT !.pc = "drain"]
               \/ run' = [run EXCEPT !.pc = "save", !.saving = Written(state.intent)] /\ mem' = state
        BY <3>2 DEF Recover, At
      <4>2. mem' = state /\ run'.saving = Written(state.intent)
        BY <1>1, <1>6, <4>1 DEF Runs
      <4> QED
        BY <4>1, <4>2
    <3> QED
      BY <3>1, <3>2
  <2>2. AllBacked(mem)'
    BY <1>3, <2>1 DEF AllBacked, BackedFor
  <2>3. \A s \in Source \ run'.saving : mem'.intent[s] \notin Items
    <3>1. \A s \in Source \ run'.saving : mem'.intent[s] = None
      BY <2>1 DEF Written
    <3>2. None \notin Items
      BY ConstantsAssumption
    <3> HIDE DEF Items
    <3> QED
      BY <3>1, <3>2
  <2> HIDE DEF Items
  <2> QED
    BY <1>3, <1>4, <1>6, <2>1, <2>2, <2>3
    DEF FpInv, Replayed, Settled, Renumbered, Underway, Answered, Delivering
<1> QED
  BY <1>4, <1>5, <1>6

(* One payload of the intent becomes a pending file. *)
LEMMA FpSave ==
  ASSUME TInv, OrderInv, FpInv, NEW q \in Source, Save(q)
  PROVE  FpInv'
<1> USE ConstantsAssumption
<1>1. /\ UNCHANGED <<state, mem, mapped, server>> /\ AllBacked(state) /\ run \in Runs /\ FilesOK
      /\ run.pc = "save" /\ run.pass # 2 /\ mem = state /\ q \in run.saving
      /\ \A s \in Source \ run.saving :
           mem.intent[s] \in Items /\ mem.intent[s].data # Error => pending[s] = mem.intent[s]
      /\ mem.intent[q] \in Items
      /\ run' = [run EXCEPT !.saving = @ \ {q}]
      /\ pending' = IF mem.intent[q].data = Error THEN pending ELSE [pending EXCEPT ![q] = mem.intent[q]]
  BY DEF Save, config, FpInv, TInv, RunOK, Renumbered, At, Delivering, Replayed
<1>2. run'.pc = "save" /\ run'.pass # 2 /\ run'.saving = run.saving \ {q}
  BY <1>1 DEF Runs
<1>3. /\ \A s \in Source : s # q => pending'[s] = pending[s]
      /\ mem.intent[q].data # Error => pending'[q] = mem.intent[q]
      /\ mem.intent[q].data = Error => pending'[q] = pending[q]
  BY <1>1 DEF FilesOK
<1>4. mem.intent[q].data = Error \/ Usage(mem.intent[q]) \/ Part(mem.intent[q])
  BY <1>1 DEF Usage, Part
<1> HIDE DEF Items, Chunk, StateType
<1>5. ASSUME NEW s \in Live
      PROVE  Backed(state.fp[s], state.intent[s], pending'[s], server.shown[s].data)
  <2>1. s \in Source /\ Backed(state.fp[s], state.intent[s], pending[s], server.shown[s].data)
    BY <1>1 DEF AllBacked, BackedFor, Live, TInv, DiskOK
  <2>2. CASE pending'[s] = pending[s]
    BY <2>1, <2>2
  <2>3. CASE s = q /\ pending'[q] = state.intent[q] /\ (Usage(state.intent[q]) \/ Part(state.intent[q]))
    BY <2>1, <2>3, NothingThere DEF Backed
  <2> QED
    BY <1>1, <1>3, <1>4, <2>1, <2>2, <2>3
<1>6. AllBacked(state)' /\ AllBacked(mem)'
  BY <1>1, <1>5 DEF AllBacked, BackedFor, Live
<1>7. Replayed'
  BY <1>1, <1>2, <1>3 DEF Replayed
<1> QED
  BY <1>2, <1>6, <1>7 DEF FpInv, Settled, Renumbered, Underway, Answered, Delivering

(* The intent is through. *)
LEMMA FpClear ==
  ASSUME TInv, OrderInv, FpInv, ClearIntent
  PROVE  FpInv'
<1>1. /\ UNCHANGED <<pending, mapped, server>> /\ AllBacked(state) /\ run \in Runs
      /\ run.pc = "save" /\ run.pass # 2 /\ mem = state /\ run.saving = {} /\ mem \in StateType
      /\ \A s \in Source :
           mem.intent[s] \in Items /\ mem.intent[s].data # Error => pending[s] = mem.intent[s]
      /\ run' = [run EXCEPT !.pc = "drain"]
      /\ state' = [mem EXCEPT !.intent = Nowhere]
  BY DEF ClearIntent, config, files, FpInv, TInv, DiskOK, RunOK, Renumbered, At, Delivering, Replayed
<1>2. run'.pc = "drain" /\ run'.pass # 2
  BY <1>1 DEF Runs
<1>3. state'.fp = state.fp /\ state'.intent = Nowhere
  BY <1>1
<1>4. \A s \in Source : Usage(state.intent[s]) \/ Part(state.intent[s]) => pending[s] = state.intent[s]
  BY <1>1, ConstantsAssumption DEF Usage, Part
<1> HIDE DEF Items, Chunk, StateType
<1>5. ASSUME NEW s \in Live
      PROVE  Backed(state.fp[s], Nowhere[s], pending[s], server.shown[s].data)
  <2>1. s \in Source /\ Backed(state.fp[s], state.intent[s], pending[s], server.shown[s].data)
    BY <1>1 DEF AllBacked, BackedFor, Live, TInv, DiskOK
  <2> QED
    BY <1>4, <2>1, NothingThere DEF Backed
<1>6. AllBacked(state)'
  BY <1>1, <1>3, <1>5 DEF AllBacked, BackedFor, Live
<1> QED
  BY <1>2, <1>6 DEF FpInv, Replayed, Settled, Renumbered, Underway, Answered, Delivering

(* The state before a collection, as the server corrected it or as it is. *)
LEMMA FpInspect ==
  ASSUME TInv, OrderInv, FpInv, Inspect \/ InspectSkipped
  PROVE  FpInv'
<1>1. /\ AllBacked(state) /\ run \in Runs /\ state \in StateType /\ mapped \subseteq Source
      /\ run.pc = "inspect" /\ run.pass # 2 /\ server' = server /\ mem' = state'
      /\ run' = [run EXCEPT !.pc = "collect"] /\ mapped' \subseteq mapped
      /\ \A s \in run.scope \cap Live : Shown(s)
  BY InspectIntent
  DEF Inspect, InspectSkipped, Retire, config, FpInv, TInv, DiskOK, RunOK, Renumbered, At,
      Delivering, Settled
<1>2. run'.pc = "collect" /\ run'.pass # 2 /\ run'.scope = run.scope
  BY <1>1 DEF Runs
<1>3. Live' \subseteq Live
  BY <1>1 DEF Live
<1>4. ASSUME NEW s \in Live'
      PROVE  state'.fp[s] = state.fp[s] /\ state'.intent[s] = state.intent[s] /\ pending'[s] = pending[s]
  <2>1. CASE InspectSkipped
    BY <2>1 DEF InspectSkipped, files
  <2>2. CASE Inspect
    <3> DEFINE gone == mapped \ server.active
               old == Forgotten(state, gone)
    <3>1. s \in Source /\ s \notin gone
      BY <1>1, <1>3 DEF Live
    <3>2. pending'[s] = pending[s] /\ state'.intent[s] = state.intent[s]
      BY <1>1, <2>2, <3>1, InspectIntent DEF Inspect, Retire
    <3>3. old \in StateType
      BY <1>1, ForgottenType
    <3>4. PICK a, b : state' = [old EXCEPT !.seq = a, !.cursor = b, !.missing = {}]
      BY <2>2 DEF Inspect
    <3>5. old.fp[s] = state.fp[s]
      BY <1>1, <3>1 DEF Forgotten
    <3> HIDE DEF old
    <3>6. state'.fp = old.fp
      BY <3>3, <3>4
    <3> QED
      BY <3>2, <3>5, <3>6
  <2> QED
    BY <2>1, <2>2
<1>5. AllBacked(state)' /\ AllBacked(mem)'
  BY <1>1, <1>3, <1>4 DEF AllBacked, BackedFor
<1>6. Settled'
  BY <1>1, <1>2, <1>3, <1>4 DEF Settled, Shown
<1> QED
  BY <1>2, <1>5, <1>6 DEF FpInv, Replayed, Renumbered, Underway, Answered, Delivering

(* A collection writes a fingerprint together with its payload; a chunk of *)
(* the history is collected when what the fingerprint stands for is shown. *)
LEMMA FpCollect ==
  ASSUME TInv, OrderInv, FpInv, Collect
  PROVE  FpInv'
<1> USE ConstantsAssumption
<1>1. /\ run \in Runs /\ state \in StateType /\ mem \in StateType /\ mapped \subseteq Source
      /\ run.pc = "collect" /\ run.pass # 2 /\ mem.intent = Nowhere
      /\ AllBacked(state) /\ AllBacked(mem)
      /\ \A s \in run.scope \cap Live : Shown(s) /\ mem.fp[s] = state.fp[s]
  BY DEF TInv, DiskOK, RunOK, Collect, At, Delivering, OrderInv, IntentGone, FpInv, Settled, Renumbered
<1>2. PICK outcome \in [mapped \cap run.scope -> Outcomes] :
        LET Ended(how) == {s \in DOMAIN outcome : outcome[s] = how}
            items == [s \in Source |-> IF s \in DOMAIN outcome THEN Contribution(s, outcome[s])
                                      ELSE None]
            new == Written(items)
            rolling == IF run.range = Rolling THEN new ELSE {}
            next == [mem EXCEPT
                       !.seq = [s \in Source |-> IF s \in new /\ items[s].data # Error
                                                 THEN @[s] + 1 ELSE @[s]],
                       !.fp = [s \in Source |-> IF s \in rolling THEN items[s].data ELSE @[s]]]
        IN  /\ IF new = {}
               THEN state' = next /\ mem' = NewState
               ELSE mem' = [next EXCEPT !.intent = items] /\ UNCHANGED state
            /\ run' = [run EXCEPT
                 !.pc = IF new = {} THEN "done" ELSE "persist",
                 !.barren = new # {} /\ Ended("usage") = {},
                 !.blocked = @ \cup Ended("inactive")
                               \cup (IF run.range = Rolling THEN {} ELSE Ended("failure"))]
  BY DEF Collect
<1> DEFINE items == [s \in Source |-> IF s \in DOMAIN outcome THEN Contribution(s, outcome[s])
                                     ELSE None]
           new == Written(items)
           rolling == IF run.range = Rolling THEN new ELSE {}
           fps == [s \in Source |-> IF s \in rolling THEN items[s].data ELSE mem.fp[s]]
<1>3. PICK seqs, b, x :
        /\ IF new = {}
           THEN state' = [mem EXCEPT !.seq = seqs, !.fp = fps] /\ mem' = NewState
           ELSE /\ mem' = [[mem EXCEPT !.seq = seqs, !.fp = fps] EXCEPT !.intent = items]
                /\ UNCHANGED state
        /\ run' = [run EXCEPT !.pc = IF new = {} THEN "done" ELSE "persist", !.barren = b, !.blocked = x]
  BY <1>2
<1>4. ASSUME NEW s \in Source
      PROVE  /\ items[s] = None \/ (items[s] \in Items /\ s \in run.scope)
             /\ items[s] # None =>
                  /\ run.range = Rolling => Usage(items[s]) \/ items[s].data = Error
                  /\ run.range # Rolling => Part(items[s])
  <2>1. CASE s \in DOMAIN outcome
    <3>1. items[s] = Contribution(s, outcome[s]) /\ s \in run.scope
      BY <2>1
    <3>2. run.range \in Chunk \cup {Rolling}
      BY <1>1 DEF Runs
    <3> HIDE DEF items, Items, Chunk
    <3> QED
      BY <3>1, <3>2, ContributionIs DEF Usage, Part
  <2>2. CASE s \notin DOMAIN outcome
    BY <2>2
  <2> QED
    BY <2>1, <2>2
<1>5. \A s \in Source : (s \in new <=> items[s] # None) /\ fps[s] = IF s \in rolling THEN items[s].data ELSE mem.fp[s]
  BY DEF Written
<1>6. rolling = IF run.range = Rolling THEN new ELSE {}
  OBVIOUS
<1> HIDE DEF items, new, rolling, fps
<1>7. \/ new = {} /\ state'.fp = fps /\ state'.intent = Nowhere /\ run'.pc = "done"
      \/ new # {} /\ state' = state /\ mem'.fp = fps /\ mem'.intent = items /\ run'.pc = "persist"
  <2>1. CASE new = {}
    BY <1>1, <1>3, <2>1 DEF Runs
  <2>2. CASE new # {}
    BY <1>1, <1>3, <2>2 DEF Runs
  <2> QED
    BY <2>1, <2>2
<1>8. run'.pass # 2 /\ UNCHANGED <<pending, mapped, server>>
  BY <1>1, <1>3 DEF Runs, Collect, files, config
<1> HIDE DEF Items, Chunk, StateType
<1>9. ASSUME NEW s \in Live
      PROVE  Backed(fps[s], items[s], pending[s], server.shown[s].data)
  <2>1. s \in Source /\ Backed(mem.fp[s], None, pending[s], server.shown[s].data)
    BY <1>1, NothingThere DEF AllBacked, BackedFor, Live
  <2>2. CASE items[s] = None
    BY <1>5, <1>6, <2>1, <2>2
  <2>3. CASE items[s] # None /\ run.range = Rolling
    <3>1. fps[s] = items[s].data /\ (Usage(items[s]) \/ fps[s] = Error)
      BY <1>4, <1>5, <1>6, <2>1, <2>3
    <3> QED
      BY <3>1, NothingThere DEF Backed
  <2>4. CASE items[s] # None /\ run.range # Rolling
    <3>1. /\ fps[s] = mem.fp[s] /\ Part(items[s]) /\ Shown(s) /\ mem.fp[s] = state.fp[s]
      BY <1>1, <1>4, <1>5, <1>6, <2>1, <2>4
    <3> QED
      BY <2>1, <3>1, NothingThere DEF Backed, Shown
  <2> QED
    BY <2>2, <2>3, <2>4
<1>10. CASE new = {}
  <2>1. \A s \in Source : items[s] = None /\ Nowhere[s] = None
    BY <1>5, <1>10, NothingThere
  <2>2. \A s \in Live : s \in Source
    BY <1>1 DEF Live
  <2>3. AllBacked(state)'
    BY <1>7, <1>8, <1>9, <1>10, <2>1, <2>2 DEF AllBacked, BackedFor, Live
  <2> QED
    BY <1>7, <1>8, <1>10, <2>3, AtRest
<1>11. CASE new # {}
  <2>1. AllBacked(state)' /\ AllBacked(mem)'
    BY <1>1, <1>7, <1>8, <1>9, <1>11 DEF AllBacked, BackedFor, Live
  <2> QED
    BY <1>7, <1>8, <1>11, <2>1 DEF FpInv, Replayed, Settled, Renumbered, Underway, Answered, Delivering
<1> QED
  BY <1>10, <1>11

(* While the files are delivered no intent is left: a fingerprint stands   *)
(* for a file or for what is shown.                                        *)
LEMMA FileStands ==
  ASSUME TInv, OrderInv, FpInv, run.pc \in Delivering \cup {"drain"}, NEW s \in Live
  PROVE  /\ s \in Source /\ Backed(state.fp[s], None, pending[s], server.shown[s].data)
         /\ Shown(s) \/ (Usage(pending[s]) /\ pending[s].data = state.fp[s])
         /\ Usage(pending[s]) \/ Shown(s)
         /\ pending[s] \in Snapshots \/ Shown(s)
<1>1. s \in Source /\ state.intent[s] = None
  BY NothingThere DEF OrderInv, IntentGone, Live, TInv, DiskOK
<1>2. Backed(state.fp[s], None, pending[s], server.shown[s].data)
  BY <1>1 DEF FpInv, AllBacked, BackedFor
<1>3. Shown(s) \/ (Usage(pending[s]) /\ pending[s].data = state.fp[s])
  BY <1>2, NothingThere DEF Backed, Shown
<1>4. Usage(pending[s]) => pending[s] \in Snapshots
  <2>1. None \notin Items /\ pending[s] \in Snapshots \cup {None}
    BY <1>1, ConstantsAssumption DEF TInv, FilesOK
  <2> HIDE DEF Snapshots, Items
  <2> QED
    BY <2>1 DEF Usage
<1> QED
  BY <1>1, <1>2, <1>3, <1>4

(* What is to be sent in a second pass is sent with a later sequence. *)
LEMMA FpDrain ==
  ASSUME TInv, OrderInv, FpInv, Drain
  PROVE  FpInv'
<1> DEFINE p == FilesRead(FALSE, pending')
           e == FilesRead(TRUE, error')
<1> HIDE DEF p, e
<1>1. /\ p.errors = FALSE /\ p.item = pending' /\ e.errors = TRUE
      /\ p.of = {s \in run.scope : pending'[s] # None}
      /\ \A i \in DOMAIN run'.work : run'.work[i] \in {p, e}
      /\ 2 \in DOMAIN run'.work => run'.work[2] = e
      /\ p.of # {} => 1 \in DOMAIN run'.work /\ run'.work[1] = p
      /\ run' = [run EXCEPT !.pc = "post", !.stale = {}, !.retired = {}, !.work = run'.work]
  BY DrainWork DEF p, e
<1>2. /\ run \in Runs /\ run.pc = "drain" /\ UNCHANGED <<state, mapped, server>>
      /\ \A s \in Live : s \in Source /\ pending'[s] = pending[s]
  BY DEF Drain, TInv, RunOK, DiskOK, At, config, Live
<1>3. /\ run'.pc = "post" /\ run'.stale = {} /\ run'.retired = {} /\ run'.scope = run.scope
      /\ run'.pass = run.pass
  BY <1>1, <1>2 DEF Runs
<1>4. \A i \in DOMAIN run'.work : Due(i)' = run'.work[i].of
  BY <1>3 DEF Due
<1>5. AllBacked(state)'
  BY <1>2 DEF FpInv, AllBacked, BackedFor, Live
<1>6. ASSUME NEW s \in run.scope \cap Live
      PROVE  Shown(s) \/ s \in Awaited'
  <2>1. CASE pending[s] \in Snapshots
    <3>1. pending[s] # None
      BY <2>1, ConstantsAssumption
    <3>2. s \in p.of
      BY <1>1, <1>2, <3>1
    <3>3. 1 \in DOMAIN run'.work /\ ~run'.work[1].errors /\ s \in Due(1)'
      BY <1>1, <1>4, <3>2
    <3> QED
      BY <1>2, <3>3 DEF Awaited, Waiting
  <2>2. CASE Shown(s)
    BY <2>2
  <2> QED
    BY <1>2, <2>1, <2>2, FileStands
<1>7. Underway'
  <2>1. \A s \in Source : Shown(s)' = Shown(s)
    BY <1>2 DEF Shown
  <2>2. Live' = Live
    BY <1>2 DEF Live
  <2>3. ASSUME run.pass = 2, NEW s \in run.scope \cap Live, NEW i \in DOMAIN run'.work,
               ~run'.work[i].errors, s \in Due(i)'
        PROVE  Shown(s) \/ server.last[s] < run'.work[i].item[s].seq
    <3>1. run'.work[i].item = pending'
      BY <1>1, <2>3
    <3>2. Shown(s) \/ server.last[s] < pending[s].seq
      BY <1>2, <2>3 DEF FpInv, Renumbered
    <3> QED
      BY <1>2, <3>1, <3>2
  <2> QED
    BY <1>2, <1>3, <1>6, <2>1, <2>2, <2>3 DEF Underway
<1>8. Renumbered'
  BY <1>3 DEF Renumbered, Delivering
<1> QED
  BY <1>3, <1>5, <1>7, <1>8 DEF FpInv, Replayed, Settled, Answered

(* What the server takes in is what the fingerprint stands for. *)
LEMMA FpTakeIn ==
  ASSUME TInv, OrderInv, FpInv, Posting, ~Refused, TakeIn
  PROVE  /\ \A s \in Live :
              /\ Backed(state.fp[s], None, pending[s], server'.shown[s].data)
              /\ Shown(s) \/ s \in Fresh =>
                   (state.fp[s] \in Content \ Bad => server'.shown[s].data = state.fp[s])
         /\ \A s \in Source :
              /\ s \in Fresh => s \in Batch /\ ~Group.errors
              /\ s \notin Fresh => server'.last[s] = server.last[s]
         /\ ~Group.errors => \A s \in Batch :
              /\ Group.item[s].seq <= server'.last[s]
              /\ s \in Fresh /\ Group.item[s].data \in Content =>
                   server'.shown[s].data = Group.item[s].data
              /\ s \notin Fresh => Group.item[s].seq <= server.last[s]
<1> USE ConstantsAssumption
<1>1. server \in Views /\ run.work # <<>> /\ run.pc = "post" /\ WorkOK
  BY DEF TInv, Posting, At
<1>2. /\ Group = run.work[1] /\ 1 \in DOMAIN run.work /\ Batch = Group.of /\ Batch \subseteq Source
      /\ Due(1) = Batch
      /\ \A s \in Batch : Group.item[s] \in Items
  BY <1>1, AtHand DEF Due
<1>3. ASSUME NEW s \in Source
      PROVE  /\ server'.last[s] = IF s \in Fresh THEN Group.item[s].seq ELSE server.last[s]
             /\ server'.shown[s] = IF s \in FreshRolling THEN Group.item[s] ELSE server.shown[s]
             /\ s \in FreshRolling <=> s \in Fresh /\ Group.item[s].data \in Content
             /\ s \in Fresh => s \in Batch /\ ~Group.errors
             /\ s \in Batch /\ ~Group.errors /\ s \notin Fresh => ~(server.last[s] < Group.item[s].seq)
  BY <1>1 DEF TakeIn, Views, Fresh, FreshRolling
<1>4. ASSUME NEW s \in Batch, ~Group.errors
      PROVE  Group.item[s].seq \in Nat /\ server.last[s] \in Nat
  <2>1. Group.item[s] \in Items /\ s \in Source
    BY <1>2
  <2> QED
    BY <1>1, <2>1 DEF Views
<1>5. ASSUME ~Group.errors, NEW s \in Batch
      PROVE  /\ Group.item[s].seq <= server'.last[s]
             /\ s \in Fresh /\ Group.item[s].data \in Content =>
                  server'.shown[s].data = Group.item[s].data
             /\ s \notin Fresh => Group.item[s].seq <= server.last[s]
  <2>1. s \in Source
    BY <1>2
  <2> HIDE DEF Items
  <2> QED
    BY <1>3, <1>4, <1>5, <2>1
<1>6. ASSUME NEW s \in Live
      PROVE  /\ Backed(state.fp[s], None, pending[s], server'.shown[s].data)
             /\ Shown(s) \/ s \in Fresh =>
                  (state.fp[s] \in Content \ Bad => server'.shown[s].data = state.fp[s])
  <2>1. s \in Source /\ Backed(state.fp[s], None, pending[s], server.shown[s].data)
        /\ (Usage(pending[s]) \/ Shown(s))
    BY <1>1, FileStands DEF Delivering
  <2>2. CASE s \in Fresh
    <3>1. pending[s] \in Items /\ pending[s].data = Group.item[s].data
      <4>1. s \in Due(1) /\ ~run.work[1].errors
        BY <1>2, <1>3, <2>1, <2>2
      <4>2. pending[s] \in Snapshots /\ pending[s].data = run.work[1].item[s].data
        BY <1>1, <1>2, <4>1 DEF WorkOK, OnFile
      <4>3. pending[s] \in Items
        BY <4>2
      <4> QED
        BY <1>2, <4>2, <4>3
    <3> HIDE DEF Items
    <3>2. CASE Group.item[s].data \in Content
      <4>1. Usage(pending[s]) /\ server'.shown[s].data = pending[s].data
        BY <1>3, <2>1, <2>2, <3>1, <3>2 DEF Usage
      <4> QED
        BY <2>1, <4>1, NothingThere DEF Backed
    <3>3. CASE Group.item[s].data \notin Content
      <4>1. ~Usage(pending[s]) /\ server'.shown[s] = server.shown[s]
        BY <1>3, <2>1, <2>2, <3>1, <3>3 DEF Usage
      <4> QED
        BY <2>1, <4>1 DEF Shown
    <3> QED
      BY <3>2, <3>3
  <2>3. CASE s \notin Fresh
    BY <1>3, <2>1, <2>3 DEF Shown
  <2> QED
    BY <2>2, <2>3
<1> QED
  BY <1>3, <1>5, <1>6

(* Which groups of snapshots have a source in common: only one. *)
LEMMA OneGroup ==
  ASSUME TInv, run.work # <<>>, ~Group.errors, NEW s \in Batch, NEW i \in DOMAIN run.work,
         ~run.work[i].errors, s \in Due(i)
  PROVE  i = 1
<1>1. Group = run.work[1] /\ 1 \in DOMAIN run.work /\ Batch = Group.of /\ WorkOK
  BY AtHand DEF TInv
<1>2. Due(i) \subseteq run.work[i].of
  BY DEF Due, TInv, RunOK, Batch, Group
<1> QED
  BY <1>1, <1>2 DEF WorkOK, Apart

(* The request of a batch, answered or not. *)
LEMMA FpPost ==
  ASSUME TInv, OrderInv, FpInv, PostAnswered \/ PostFails
  PROVE  FpInv'
<1>1. /\ run \in Runs /\ run.work # <<>> /\ run.pc = "post" /\ UNCHANGED <<state, pending, mapped>>
      /\ AllBacked(state) /\ Renumbered /\ Underway /\ mapped \subseteq Source
      /\ \A s \in Source : state.intent[s] = None
  BY NothingThere
  DEF PostAnswered, PostFails, Posting, At, files, config, TInv, RunOK, DiskOK, FpInv, OrderInv,
      IntentGone, Delivering
<1>2. CASE Posting /\ ~Refused /\ TakeIn
  <2> DEFINE Shows(s) == state.fp[s] \in Content \ Bad => server'.shown[s].data = state.fp[s]
  <2>1. /\ \A s \in Live : /\ Backed(state.fp[s], None, pending[s], server'.shown[s].data)
                           /\ Shown(s) \/ s \in Fresh => Shows(s)
        /\ \A s \in Source : /\ s \in Fresh => s \in Batch /\ ~Group.errors
                             /\ s \notin Fresh => server'.last[s] = server.last[s]
        /\ ~Group.errors => \A s \in Batch :
              /\ Group.item[s].seq <= server'.last[s]
              /\ s \in Fresh /\ Group.item[s].data \in Content =>
                   server'.shown[s].data = Group.item[s].data
              /\ s \notin Fresh => Group.item[s].seq <= server.last[s]
    BY <1>2, FpTakeIn
  <2>2. server'.active = server.active
    BY <1>2 DEF TakeIn, TInv, Views
  <2>3. AllBacked(state)'
    BY <1>1, <2>1, <2>2 DEF AllBacked, BackedFor, Live
  <2>4. CASE Leaves
    BY <2>3, <2>4, AtRest DEF Leaves, Idle
  <2>5. ASSUME NEW taken \in {{}, Fresh}, run' = [run EXCEPT !.pc = "remember", !.taken = taken]
        PROVE  FpInv'
    <3> HIDE DEF Fresh
    <3>1. /\ run'.pc = "remember" /\ run'.taken = taken /\ run'.work = run.work
          /\ run'.scope = run.scope /\ run'.pass = run.pass /\ run'.stale = run.stale
          /\ run'.retired = run.retired
      BY <1>1, <2>5 DEF Runs
    <3>2. /\ UNCHANGED <<Group, Batch>> /\ \A i \in DOMAIN run.work : Due(i)' = Due(i)
      BY <1>1, <3>1 DEF Group, Batch, Due
    <3>3. Awaited' = Awaited
      BY <3>1, <3>2 DEF Awaited, Waiting
    <3>4. Group = run.work[1] /\ 1 \in DOMAIN run.work /\ Due(1) = Batch /\ Batch \subseteq Source
      BY <1>1, AtHand DEF Due
    <3>5. ASSUME NEW s \in Source, s \in Fresh
          PROVE  s \in Awaited
      BY <2>1, <3>4, <3>5 DEF Awaited, Waiting
    <3>6. run'.stale \subseteq Source
      BY <1>1, <3>1 DEF Runs
    <3>7. Renumbered'
      <4>1. \A s \in run'.stale : server'.last[s] = server.last[s]
        BY <1>1, <2>1, <3>1, <3>5, <3>6 DEF Underway, Delivering
      <4> QED
        BY <1>1, <3>1, <4>1 DEF Renumbered, Delivering
    <3>8. Live' = Live /\ \A s \in Live : s \in Source
      BY <1>1, <2>2 DEF Live
    <3>9. ASSUME run.pass = 2, NEW s \in run.scope \cap Live, NEW i \in DOMAIN run.work,
                 ~run.work[i].errors, s \in Due(i)
          PROVE  Shows(s) \/ server'.last[s] < run.work[i].item[s].seq
      <4>1. Shown(s) \/ server.last[s] < run.work[i].item[s].seq
        BY <1>1, <3>9 DEF Underway, Delivering
      <4>2. CASE s \in Fresh \/ Shown(s)
        BY <2>1, <4>2
      <4>3. CASE s \notin Fresh /\ ~Shown(s)
        BY <2>1, <3>8, <4>1, <4>3
      <4> QED
        BY <4>2, <4>3
    <3>10. \A s \in run.scope \cap Live : Shows(s) \/ s \in Awaited \/ (run.pass = 1 /\ s \in run.stale)
      BY <1>1, <2>1 DEF Underway, Delivering
    <3>11. Underway'
      BY <1>1, <2>2, <3>1, <3>2, <3>3, <3>8, <3>9, <3>10 DEF Underway, Shown, Delivering
    <3>12. Answered'
      BY <2>1, <3>1, <3>2 DEF Answered
    <3> QED
      BY <2>3, <3>1, <3>7, <3>11, <3>12 DEF FpInv, Replayed, Settled
  <2> QED
    BY <1>1, <2>4, <2>5, PostRun
<1>3. CASE PostFails /\ UNCHANGED server
  <2>1. AllBacked(state)'
    BY <1>1, <1>3 DEF AllBacked, BackedFor, Live
  <2> QED
    BY <1>3, <2>1, AtRest DEF PostFails, Leaves, Idle
<1> QED
  BY <1>2, <1>3 DEF PostAnswered, PostFails

(* The connector writes down where the server is. *)
LEMMA FpRemember ==
  ASSUME TInv, OrderInv, FpInv, Remember
  PROVE  FpInv'
<1>1. /\ run \in Runs /\ run.work # <<>> /\ run.pc = "remember" /\ UNCHANGED <<pending, mapped, server>>
      /\ state \in StateType /\ AllBacked(state) /\ Renumbered /\ Underway /\ Answered
      /\ run' = [run EXCEPT !.pc = "ack", !.todo = Batch]
      /\ known' = [s \in Source |-> IF s \in Batch THEN server.last[s] ELSE known[s]]
  BY DEF Remember, At, files, TInv, RunOK, DiskOK, FpInv
<1>2. state'.fp = state.fp /\ state'.intent = state.intent
  BY <1>1 DEF Remember
<1>3. AllBacked(state)' /\ Live' = Live /\ \A s : Shown(s)' = Shown(s)
  BY <1>1, <1>2 DEF AllBacked, BackedFor, Live, Shown
<1>4. /\ run'.pc = "ack" /\ run'.todo = Batch /\ run'.taken = run.taken /\ run'.work = run.work
      /\ run'.scope = run.scope /\ run'.pass = run.pass /\ run'.stale = run.stale
      /\ run'.retired = run.retired
  BY <1>1 DEF Runs
<1>5. Group = run.work[1] /\ 1 \in DOMAIN run.work /\ Batch = Group.of /\ Batch \subseteq Source
  BY <1>1, AtHand
<1>6. UNCHANGED <<Group, Batch>> /\ \A i \in DOMAIN run.work : Due(i)' = Due(i)
  BY <1>1, <1>4, <1>5 DEF Group, Batch, Due
<1>7. Awaited' = Awaited
  BY <1>4, <1>6 DEF Awaited, Waiting
<1>8. Renumbered' /\ Underway'
  BY <1>1, <1>3, <1>4, <1>6, <1>7 DEF Renumbered, Underway, Delivering
<1>9. \A s \in Batch : known'[s] = server.last[s]
  BY <1>1, <1>5
<1>10. Answered'
  BY <1>1, <1>4, <1>6, <1>9 DEF Answered
<1> QED
  BY <1>3, <1>4, <1>8, <1>10 DEF FpInv, Replayed, Settled

(* One source of an answered batch: a stale snapshot is renumbered. *)
LEMMA FpAck ==
  ASSUME TInv, OrderInv, FpInv, NEW q \in Source, Ack(q)
  PROVE  FpInv'
<1>1. /\ run \in Runs /\ run.work # <<>> /\ run.pc = "ack" /\ q \in run.todo
      /\ UNCHANGED <<mapped, known, server>>
      /\ state \in StateType /\ AllBacked(state) /\ Renumbered /\ Underway /\ Answered
      /\ run' = [run EXCEPT !.pc = "acked", !.cur = q] /\ run.todo \subseteq Batch
      /\ FilesOK /\ WorkOK /\ mapped \subseteq Source /\ server \in Views
  BY DEF Ack, At, config, TInv, RunOK, DiskOK, FpInv
<1>2. state'.fp = state.fp /\ state'.intent = state.intent
  BY <1>1 DEF Ack
<1>3. /\ run'.pc = "acked" /\ run'.cur = q /\ run'.todo = run.todo /\ run'.taken = run.taken
      /\ run'.work = run.work /\ run'.scope = run.scope /\ run'.pass = run.pass
      /\ run'.stale = run.stale /\ run'.retired = run.retired
  BY <1>1 DEF Runs
<1>4. Group = run.work[1] /\ 1 \in DOMAIN run.work /\ Batch = Group.of /\ q \in Due(1) /\ Due(1) = run.todo
  BY <1>1, AtHand DEF Due
<1>5. UNCHANGED <<Group, Batch>> /\ \A i \in DOMAIN run.work : Due(i)' = Due(i)
  BY <1>1, <1>3 DEF Group, Batch, Due
<1>6. Awaited' = Awaited /\ Stale(q)' = Stale(q)
  BY <1>3, <1>5 DEF Awaited, Waiting, Stale
<1>7. Live' = Live /\ \A s : Shown(s)' = Shown(s)
  BY <1>1, <1>2 DEF Live, Shown
<1>8. Stale(q) => /\ pending[q] \in Snapshots /\ pending'[q] = [pending[q] EXCEPT !.seq = known[q] + 1]
                  /\ \A s \in Source : s # q => pending'[s] = pending[s]
  BY <1>1, <1>4 DEF Ack, Stale, WorkOK, OnFile, FilesOK
<1>9. Stale(q) => /\ pending[q] \in Items /\ pending'[q] \in Items
                  /\ pending'[q].data = pending[q].data /\ pending'[q].seq = known[q] + 1
  <2>1. known[q] + 1 \in Nat
    BY DEF TInv, DiskOK
  <2> QED
    BY <1>8, <2>1
<1>10. ~Stale(q) => pending' = pending
  BY DEF Ack
<1> HIDE DEF Items, Snapshots
<1>11. \A s \in Source : /\ pending'[s].data = pending[s].data \/ ~Stale(q)
                         /\ Usage(pending'[s]) <=> Usage(pending[s])
                         /\ Usage(pending[s]) => pending'[s].data = pending[s].data
  BY <1>8, <1>9, <1>10 DEF Usage
<1>12. AllBacked(state)'
  <2>1. \A s \in Live : s \in Source /\ Backed(state.fp[s], state.intent[s], pending[s], server.shown[s].data)
    BY <1>1 DEF Live, AllBacked, BackedFor
  <2>2. \A s \in Live : Backed(state.fp[s], state.intent[s], pending'[s], server.shown[s].data)
    BY <1>11, <2>1 DEF Backed
  <2> QED
    BY <1>1, <1>2, <1>7, <2>2 DEF AllBacked, BackedFor
<1>13. q \in Awaited \/ ~Stale(q)
  BY <1>4 DEF Awaited, Waiting, Stale
<1>14. Renumbered'
  <2>1. \A s \in run.stale : s \in Source /\ (s # q \/ ~Stale(q))
    BY <1>1, <1>13 DEF Underway, Delivering, Runs
  <2>2. \A s \in run.stale : pending'[s] = pending[s]
    BY <1>8, <1>10, <2>1
  <2> QED
    BY <1>1, <1>3, <2>2 DEF Renumbered, Delivering
<1>15. Underway'
  BY <1>1, <1>3, <1>5, <1>6, <1>7 DEF Underway, Delivering
<1>16. Answered'
  <2>1. known[q] = server.last[q] /\ server.last[q] \in Nat
    BY <1>1 DEF Answered, Views
  <2>2. Stale(q) => server.last[q] < pending'[q].seq
    BY <1>9, <2>1
  <2> QED
    BY <1>1, <1>3, <1>5, <1>6, <2>2 DEF Answered
<1> QED
  BY <1>3, <1>12, <1>14, <1>15, <1>16 DEF FpInv, Replayed, Settled

(* A refused batch leaves the rest of the run as it is. *)
LEMMA RefusedRun ==
  ASSUME TInv, Bisect \/ RefuseOne \/ DropRetired
  PROVE  /\ run.work # <<>> /\ run.pc = "post" /\ run'.pc = "post" /\ run'.scope = run.scope
         /\ run'.pass = run.pass /\ run'.stale = run.stale /\ run'.stage = run.stage
         /\ UNCHANGED <<state, mem, known, mapped, server>>
         /\ run'.retired = run.retired \/ RefuseOne
         /\ Bisect => \E left \in SUBSET Batch :
              run'.work = << [Group EXCEPT !.of = left], [Group EXCEPT !.of = Batch \ left] >>
                          \o Tail(run.work)
         /\ RefuseOne => run'.work = Tail(run.work)
         /\ DropRetired =>
              \/ Batch \subseteq run.retired /\ run'.work = Tail(run.work)
              \/ run'.work = <<[Group EXCEPT !.of = Batch \ run.retired]>> \o Tail(run.work)
<1>1. run \in Runs /\ UNCHANGED <<state, mem, known, mapped, server>>
  BY DEF TInv, RunOK, Bisect, RefuseOne, DropRetired, config
<1>2. CASE Bisect
  <2>1. PICK left \in SUBSET Batch : run' = [run EXCEPT !.work =
          << [Group EXCEPT !.of = left], [Group EXCEPT !.of = Batch \ left] >> \o Tail(@)]
    BY <1>2 DEF Bisect
  <2>2. run.work # <<>> /\ run.pc = "post" /\ ~DropRetired /\ ~RefuseOne
    <3>1. run.work # <<>> /\ run.pc = "post" /\ ~DropRetired
      BY <1>2 DEF Bisect, Posting, At, DropRetired
    <3>2. run'.work \in Seq(Groups) /\ Len(run'.work) = Len(run.work) + 1
      <4> DEFINE a == [Group EXCEPT !.of = left]
                 b == [Group EXCEPT !.of = Batch \ left]
      <4>1. Group \in Groups /\ Batch = Group.of
        BY <3>1, AtHand
      <4>2. a \in Groups /\ b \in Groups
        BY <4>1 DEF Groups
      <4>3. run'.work = <<a, b>> \o Tail(run.work) /\ run.work \in Seq(Groups)
        BY <1>1, <2>1 DEF Runs
      <4> HIDE DEF a, b
      <4> QED
        BY <3>1, <4>2, <4>3, FrontTwo
    <3>3. RefuseOne => run'.work = Tail(run.work)
      BY <1>1 DEF RefuseOne, Runs
    <3>4. run.work \in Seq(Groups)
      BY <1>1 DEF Runs
    <3>5. Len(Tail(run.work)) = Len(run.work) - 1 /\ Len(run.work) \in Nat
      BY <3>1, <3>4, Rest
    <3>6. Len(run'.work) # Len(Tail(run.work))
      BY <3>2, <3>5
    <3> QED
      BY <3>1, <3>3, <3>6
  <2>3. /\ run'.work = << [Group EXCEPT !.of = left], [Group EXCEPT !.of = Batch \ left] >>
                       \o Tail(run.work)
        /\ run'.pc = run.pc /\ run'.scope = run.scope /\ run'.pass = run.pass
        /\ run'.stale = run.stale /\ run'.retired = run.retired /\ run'.stage = run.stage
    BY <1>1, <2>1 DEF Runs
  <2> QED
    BY <1>1, <2>2, <2>3
<1>3. CASE RefuseOne /\ ~Bisect
  <2>1. \E a, b, c : \/ run' = [run EXCEPT !.work = Tail(@), !.blocked = b]
                     \/ run' = [run EXCEPT !.work = Tail(@), !.retired = c]
    BY <1>3 DEF RefuseOne
  <2>2. run.work # <<>> /\ run.pc = "post" /\ ~DropRetired
    BY <1>3 DEF RefuseOne, Posting, At, DropRetired
  <2>3. /\ run'.work = Tail(run.work) /\ run'.pc = run.pc /\ run'.scope = run.scope
        /\ run'.pass = run.pass /\ run'.stale = run.stale /\ run'.stage = run.stage
    BY <1>1, <2>1 DEF Runs
  <2> QED
    BY <1>1, <1>3, <2>2, <2>3
<1>4. CASE DropRetired /\ ~Bisect /\ ~RefuseOne
  <2> DEFINE left == Batch \ run.retired
  <2>1. run' = [run EXCEPT !.work = (IF left = {} THEN <<>> ELSE <<[Group EXCEPT !.of = left]>>)
                                     \o Tail(@)]
        /\ run.work # <<>> /\ run.pc = "post"
    BY <1>4 DEF DropRetired, At
  <2>2. /\ run'.work = (IF left = {} THEN <<>> ELSE <<[Group EXCEPT !.of = left]>>) \o Tail(run.work)
        /\ run'.pc = run.pc /\ run'.scope = run.scope /\ run'.pass = run.pass
        /\ run'.stale = run.stale /\ run'.retired = run.retired /\ run'.stage = run.stage
    BY <1>1, <2>1 DEF Runs
  <2>3. <<>> \o Tail(run.work) = Tail(run.work)
    <3>1. Tail(run.work) \in Seq(Groups)
      BY <2>1, AtHand
    <3> QED
      BY <3>1
  <2>4. left = {} => Batch \subseteq run.retired
    OBVIOUS
  <2> QED
    BY <1>1, <1>4, <2>1, <2>2, <2>3, <2>4
<1> QED
  BY <1>2, <1>3, <1>4

(* What comes after the first group comes after this step as well. *)
LEMMA TailKept ==
  ASSUME TInv, Bisect \/ RefuseOne \/ DropRetired \/ run'.work = Tail(run.work), run.work # <<>>,
         NEW j \in DOMAIN run.work, j # 1
  PROVE  \E i \in DOMAIN run'.work : run'.work[i] = run.work[j]
<1>1. run.work \in Seq(Groups) /\ Len(run.work) \in Nat /\ DOMAIN run.work = 1 .. Len(run.work)
  <2>1. run.work \in Seq(Groups)
    BY DEF TInv, RunOK, Runs
  <2> HIDE DEF Groups
  <2> QED
    BY <2>1
<1>2. j \in 2 .. Len(run.work)
  BY <1>1
<1>3. Group \in Groups /\ Batch = Group.of
  BY AtHand
<1>4. CASE run'.work = Tail(run.work)
  <2>1. Len(Tail(run.work)) = Len(run.work) - 1 /\ Tail(run.work) \in Seq(Groups)
        /\ \A i \in 1 .. Len(run.work) - 1 : Tail(run.work)[i] = run.work[i + 1]
    BY <1>1, Rest
  <2>2. j - 1 \in 1 .. Len(run.work) - 1 /\ (j - 1) + 1 = j
    BY <1>1, <1>2
  <2>3. j - 1 \in DOMAIN run'.work /\ run'.work[j - 1] = run.work[j]
    BY <1>4, <2>1, <2>2
  <2> QED
    BY <2>3
<1>5. CASE Bisect
  <2>1. PICK left \in SUBSET Batch :
          run'.work = << [Group EXCEPT !.of = left], [Group EXCEPT !.of = Batch \ left] >>
                      \o Tail(run.work)
    BY <1>5, RefusedRun
  <2> DEFINE a == [Group EXCEPT !.of = left]
             b == [Group EXCEPT !.of = Batch \ left]
  <2>2. a \in Groups /\ b \in Groups /\ run'.work = <<a, b>> \o Tail(run.work)
    BY <1>3, <2>1 DEF Groups
  <2> HIDE DEF a, b
  <2>3. /\ run'.work \in Seq(Groups) /\ Len(run'.work) = Len(run.work) + 1
        /\ \A i \in 3 .. Len(run.work) + 1 : run'.work[i] = run.work[i - 1]
    BY <1>1, <2>2, FrontTwo
  <2>4. j + 1 \in 3 .. Len(run.work) + 1 /\ (j + 1) - 1 = j /\ j + 1 \in DOMAIN run'.work
    BY <1>1, <1>2, <2>3
  <2> QED
    BY <2>3, <2>4
<1>6. CASE run'.work = <<[Group EXCEPT !.of = Batch \ run.retired]>> \o Tail(run.work)
  <2> DEFINE a == [Group EXCEPT !.of = Batch \ run.retired]
  <2>1. a \in Groups /\ run'.work = <<a>> \o Tail(run.work)
    BY <1>3, <1>6 DEF Groups
  <2> HIDE DEF a
  <2>2. /\ run'.work \in Seq(Groups) /\ Len(run'.work) = Len(run.work)
        /\ \A i \in 2 .. Len(run.work) : run'.work[i] = run.work[i]
    BY <1>1, <2>1, FrontOne
  <2>3. j \in DOMAIN run'.work
    BY <1>1, <1>2, <2>2
  <2> QED
    BY <1>2, <2>2, <2>3
<1> QED
  BY <1>4, <1>5, <1>6, RefusedRun

(* What is waiting after a refusal waited before, and waits as long as it  *)
(* is neither refused for good nor retired.                                *)
LEMMA RefusedWaiting ==
  ASSUME NEW e \in BOOLEAN, TInv, Bisect \/ RefuseOne \/ DropRetired
  PROVE  /\ \A s \in Source : \A i \in DOMAIN run'.work :
              (run'.work[i].errors <=> e) /\ s \in Due(i)' =>
                \E j \in DOMAIN run.work : /\ (run.work[j].errors <=> e) /\ s \in Due(j)
                                           /\ run'.work[i].item = run.work[j].item
         /\ Waiting(e)' \subseteq Waiting(e)
         /\ \A s \in Waiting(e) :
              \/ s \in Waiting(e)'
              \/ RefuseOne /\ s \in Batch /\ (Group.errors <=> e)
              \/ s \in run.retired
<1>1. /\ run.work # <<>> /\ run.pc = "post" /\ run'.pc = "post" /\ run.work \in Seq(Groups)
      /\ Group = run.work[1] /\ 1 \in DOMAIN run.work /\ Group \in Groups /\ Batch = Group.of
  BY RefusedRun, AtHand DEF TInv, RunOK, Runs
<1>2. /\ \A i \in DOMAIN run'.work : Due(i)' = run'.work[i].of
      /\ \A i \in DOMAIN run.work : Due(i) = run.work[i].of
  BY <1>1 DEF Due
<1>3. ASSUME NEW s \in Source, NEW i \in DOMAIN run'.work, (run'.work[i].errors <=> e), s \in Due(i)'
      PROVE  \E j \in DOMAIN run.work : /\ (run.work[j].errors <=> e) /\ s \in Due(j)
                                        /\ run'.work[i].item = run.work[j].item
  <2>1. PICK j \in DOMAIN run.work : /\ run'.work[i].item = run.work[j].item
                                     /\ run'.work[i].errors = run.work[j].errors
                                     /\ run'.work[i].of \subseteq run.work[j].of
    BY WorkFrom
  <2> QED
    BY <1>2, <1>3, <2>1
<1>4. Waiting(e)' \subseteq Waiting(e)
  BY <1>3 DEF Waiting
<1>5. ASSUME NEW s \in Waiting(e)
      PROVE  \/ s \in Waiting(e)'
             \/ RefuseOne /\ s \in Batch /\ (Group.errors <=> e)
             \/ s \in run.retired
  <2>1. PICK j \in DOMAIN run.work : (run.work[j].errors <=> e) /\ s \in run.work[j].of
    BY <1>2 DEF Waiting
  <2>2. s \in Source
    BY DEF Waiting
  <2>3. CASE j # 1
    <3>1. PICK i \in DOMAIN run'.work : run'.work[i] = run.work[j]
      BY <1>1, <2>3, TailKept
    <3> QED
      BY <1>2, <2>1, <2>2, <3>1 DEF Waiting
  <2>4. CASE j = 1 /\ Bisect
    <3>1. PICK left \in SUBSET Batch :
            run'.work = << [Group EXCEPT !.of = left], [Group EXCEPT !.of = Batch \ left] >>
                        \o Tail(run.work)
      BY <2>4, RefusedRun
    <3> DEFINE a == [Group EXCEPT !.of = left]
               b == [Group EXCEPT !.of = Batch \ left]
    <3>2. /\ a \in Groups /\ a.errors = Group.errors /\ a.of = left
          /\ b \in Groups /\ b.errors = Group.errors /\ b.of = Batch \ left
          /\ run'.work = <<a, b>> \o Tail(run.work)
      BY <1>1, <3>1 DEF Groups
    <3> HIDE DEF a, b
    <3>3. /\ run'.work[1] = a /\ run'.work[2] = b /\ Len(run'.work) = Len(run.work) + 1
          /\ run'.work \in Seq(Groups)
      BY <1>1, <3>2, FrontTwo
    <3>4. 1 \in DOMAIN run'.work /\ 2 \in DOMAIN run'.work
      <4>1. Len(run.work) \in Nat /\ 1 <= Len(run.work) /\ DOMAIN run'.work = 1 .. Len(run'.work)
        BY <1>1, <3>3
      <4> QED
        BY <3>3, <4>1
    <3>5. s \in a.of \/ s \in b.of
      BY <1>1, <2>1, <2>4, <3>2
    <3> QED
      BY <1>1, <1>2, <2>1, <2>2, <2>4, <3>2, <3>3, <3>4, <3>5 DEF Waiting
  <2>5. CASE j = 1 /\ RefuseOne
    BY <1>1, <2>1, <2>5
  <2>6. CASE j = 1 /\ DropRetired /\ s \notin run.retired
    <3> DEFINE a == [Group EXCEPT !.of = Batch \ run.retired]
    <3>1. /\ a \in Groups /\ a.errors = Group.errors /\ a.of = Batch \ run.retired
          /\ run'.work = <<a>> \o Tail(run.work)
      BY <1>1, <2>1, <2>6, RefusedRun DEF Groups
    <3> HIDE DEF a
    <3>2. run'.work[1] = a /\ Len(run'.work) = Len(run.work) /\ run'.work \in Seq(Groups)
      BY <1>1, <3>1, FrontOne
    <3>3. 1 \in DOMAIN run'.work
      BY <1>1, <3>2
    <3> QED
      BY <1>1, <1>2, <2>1, <2>2, <2>6, <3>1, <3>2, <3>3 DEF Waiting
  <2> QED
    BY <2>3, <2>4, <2>5, <2>6
<1> QED
  BY <1>3, <1>4, <1>5

(* What is awaited after a refusal was awaited before, and is awaited as   *)
(* long as it is neither refused for good nor retired.                     *)
LEMMA RefusedAwaited ==
  ASSUME TInv, Bisect \/ RefuseOne \/ DropRetired
  PROVE  /\ \A s \in Source : \A i \in DOMAIN run'.work :
              ~run'.work[i].errors /\ s \in Due(i)' =>
                \E j \in DOMAIN run.work : /\ ~run.work[j].errors /\ s \in Due(j)
                                           /\ run'.work[i].item = run.work[j].item
         /\ Awaited' \subseteq Awaited
         /\ \A s \in Awaited :
              \/ s \in Awaited'
              \/ RefuseOne /\ s \in Batch /\ ~Group.errors
              \/ s \in run.retired
BY RefusedWaiting DEF Awaited

(* A refused batch, or the error files of sources that were retired. *)
LEMMA FpRefused ==
  ASSUME TInv, OrderInv, FpInv, Bisect \/ RefuseOne \/ DropRetired
  PROVE  FpInv'
<1>1. /\ run.work # <<>> /\ run.pc = "post" /\ run'.pc = "post" /\ run'.scope = run.scope
      /\ run'.pass = run.pass /\ run'.stale = run.stale
      /\ UNCHANGED <<state, mapped, server>>
      /\ (run'.retired = run.retired \/ RefuseOne)
      /\ run.stale \subseteq Source
      /\ AllBacked(state) /\ Renumbered /\ Underway /\ FilesOK /\ run \in Runs
      /\ mapped \subseteq Source
  BY RefusedRun DEF FpInv, TInv, RunOK, Runs, DiskOK
<1>2. Group = run.work[1] /\ 1 \in DOMAIN run.work /\ Batch = Group.of /\ Batch \subseteq Source
      /\ Due(1) = Batch /\ \A s \in Batch : Group.item[s] \in (IF Group.errors THEN Failures ELSE Snapshots)
  BY <1>1, AtHand DEF Due
<1>3. Live' = Live /\ \A s : Shown(s)' = Shown(s)
  BY <1>1 DEF Live, Shown
<1>4. \A s \in Live : /\ s \in Source /\ Backed(state.fp[s], None, pending[s], server.shown[s].data)
                      /\ (Shown(s) \/ (Usage(pending[s]) /\ pending[s].data = state.fp[s]))
  BY <1>1, FileStands DEF Delivering
<1>5. ASSUME RefuseOne
      PROVE  \E q \in Batch :
               /\ Batch = {q} /\ \A s \in Source : s # q => pending'[s] = pending[s]
               /\ pending'[q] = IF Group.errors THEN pending[q] ELSE None
               /\ run'.retired = run.retired \/ (run'.retired = run.retired \cup {q} /\ q \notin server.active)
               /\ q \in Live /\ ~Group.errors => Shown(q)
               /\ q \in Live /\ ~Group.errors => state.fp[q] \notin Content \/ state.fp[q] \in Bad
                                                 \/ ~Usage(pending[q])
  <2>1. PICK q \in Batch :
          /\ Batch = {q} /\ RemoveFile(q)
          /\ IF Group.item[q].data \in Bad
             THEN run' = [run EXCEPT !.work = Tail(@), !.blocked = @ \cup {q}]
             ELSE run' = [run EXCEPT !.work = Tail(@), !.retired = @ \cup {q}]
    BY <1>5 DEF RefuseOne
  <2>2. /\ \A s \in Source : s # q => pending'[s] = pending[s]
        /\ pending'[q] = IF Group.errors THEN pending[q] ELSE None
    BY <1>1, <1>2, <2>1 DEF RemoveFile, FilesOK
  <2>3. Group.item[q].data \notin Bad => q \notin server.active
    BY <1>5, <2>1 DEF RefuseOne, Refused
  <2>4. run'.retired = IF Group.item[q].data \in Bad THEN run.retired ELSE run.retired \cup {q}
    BY <1>1, <2>1 DEF Runs
  <2>5. ASSUME q \in Live, ~Group.errors
        PROVE  Shown(q) /\ (state.fp[q] \notin Content \/ state.fp[q] \in Bad \/ ~Usage(pending[q]))
    <3>1. Group.item[q].data \in Bad
      BY <2>3, <2>5 DEF Live
    <3>2. pending[q].data = Group.item[q].data
      BY <1>2, <2>5 DEF TInv, WorkOK, OnFile
    <3>3. Backed(state.fp[q], None, pending[q], server.shown[q].data)
      BY <1>4, <2>5
    <3> QED
      BY <3>1, <3>2, <3>3, NothingThere DEF Backed, Shown
  <2> QED
    BY <2>1, <2>2, <2>3, <2>4, <2>5
<1>6. ~RefuseOne => UNCHANGED pending
  BY DEF Bisect, DropRetired, files
<1>7. AllBacked(state)'
  <2>1. ASSUME NEW s \in Live
        PROVE  Backed(state.fp[s], None, pending'[s], server.shown[s].data)
    <3>1. CASE pending'[s] = pending[s]
      BY <1>4, <3>1
    <3>2. CASE pending'[s] # pending[s]
      <4>1. pending'[s] = None /\ Shown(s)
        BY <1>4, <1>5, <1>6, <3>2
      <4> QED
        BY <4>1, NothingThere DEF Backed, Shown
    <3> QED
      BY <3>1, <3>2
  <2>2. \A s \in Source : state.intent[s] = None
    BY <1>1, NothingThere DEF OrderInv, IntentGone, Delivering
  <2> QED
    BY <1>1, <1>3, <1>4, <2>1, <2>2 DEF AllBacked, BackedFor
<1>8. \A s \in run.stale : s \in Source /\ pending'[s] = pending[s]
  <2>1. \A s \in run.stale : s \notin Awaited
    BY <1>1 DEF Underway, Delivering
  <2>2. \A s \in Batch : ~Group.errors => s \in Awaited
    BY <1>2 DEF Awaited, Waiting
  <2> QED
    BY <1>1, <1>5, <1>6, <2>1, <2>2
<1>9. Renumbered'
  BY <1>1, <1>8 DEF Renumbered, Delivering
<1>10. Underway'
  <2>1. run'.retired \cap server.active = {}
    BY <1>1, <1>5 DEF Underway, Delivering
  <2>2. run.stale \cap Awaited' = {}
    BY <1>1, RefusedAwaited DEF Underway, Delivering
  <2>3. ASSUME NEW s \in run.scope \cap Live
        PROVE  Shown(s) \/ s \in Awaited' \/ (run.pass = 1 /\ s \in run.stale)
    <3>1. Shown(s) \/ s \in Awaited \/ (run.pass = 1 /\ s \in run.stale)
      BY <1>1 DEF Underway, Delivering
    <3>2. CASE s \in Awaited /\ s \notin Awaited'
      <4>1. (RefuseOne /\ s \in Batch /\ ~Group.errors) \/ s \in run.retired
        BY <3>2, RefusedAwaited
      <4>2. s \notin run.retired
        BY <1>1 DEF Underway, Live, Delivering
      <4> QED
        BY <1>5, <4>1, <4>2
    <3> QED
      BY <3>1, <3>2
  <2>4. ASSUME run.pass = 2, NEW s \in run.scope \cap Live, NEW i \in DOMAIN run'.work,
               ~run'.work[i].errors, s \in Due(i)'
        PROVE  Shown(s) \/ server.last[s] < run'.work[i].item[s].seq
    <3>1. PICK j \in DOMAIN run.work : /\ ~run.work[j].errors /\ s \in Due(j)
                                       /\ run'.work[i].item = run.work[j].item
      BY <1>4, <2>4, RefusedAwaited
    <3> QED
      BY <1>1, <2>4, <3>1 DEF Underway, Delivering
  <2> QED
    BY <1>1, <1>3, <2>1, <2>2, <2>3, <2>4 DEF Underway
<1> QED
  BY <1>1, <1>7, <1>9, <1>10 DEF FpInv, Replayed, Settled, Answered

(* Where the run is after it acted on the answer for one source. *)
LEMMA AckedGoes ==
  ASSUME TInv, Acked
  PROVE  /\ run'.scope = run.scope /\ run'.pass = run.pass /\ run'.retired = run.retired
         /\ run'.taken = run.taken /\ run'.todo = run.todo \ {run.cur} /\ run'.stage = run.stage
         /\ run'.stale = (IF Stale(run.cur) THEN run.stale \cup {run.cur} ELSE run.stale)
         /\ \/ run.todo \subseteq {run.cur} /\ run'.pc = "post" /\ run'.work = Tail(run.work)
            \/ run'.pc = "ack" /\ run'.work = run.work
<1>1. run \in Runs
  BY DEF TInv, RunOK
<1> DEFINE left == run.todo \ {run.cur}
           late == IF Stale(run.cur) THEN run.stale \cup {run.cur} ELSE run.stale
<1>2. run' = [run EXCEPT !.pc = IF left = {} THEN "post" ELSE "ack", !.todo = left,
                         !.work = IF left = {} THEN Tail(@) ELSE @, !.stale = late]
  BY <1>1, AckedRun
<1> HIDE DEF late
<1>3. CASE left = {}
  <2>1. run' = [run EXCEPT !.pc = "post", !.todo = left, !.work = Tail(run.work), !.stale = late]
    BY <1>2, <1>3
  <2> QED
    BY <1>1, <1>3, <2>1 DEF Runs, late
<1>4. CASE left # {}
  <2>1. run' = [run EXCEPT !.pc = "ack", !.todo = left, !.work = run.work, !.stale = late]
    BY <1>2, <1>4
  <2> QED
    BY <1>1, <2>1 DEF Runs, late
<1> QED
  BY <1>3, <1>4

(* What was acted on no longer waits, all others do. *)
LEMMA AckedWaiting ==
  ASSUME NEW e \in BOOLEAN, TInv, Acked
  PROVE  /\ \A s \in Source : \A i \in DOMAIN run'.work :
              (run'.work[i].errors <=> e) /\ s \in Due(i)' =>
                \E j \in DOMAIN run.work : /\ (run.work[j].errors <=> e) /\ s \in Due(j)
                                           /\ run'.work[i].item = run.work[j].item
         /\ Waiting(e)' \subseteq Waiting(e)
         /\ ~e /\ ~Group.errors => run.cur \notin Waiting(e)'
         /\ \A s \in Waiting(e) : s \in Waiting(e)' \/ (s = run.cur /\ (Group.errors <=> e))
<1> DEFINE q == run.cur
<1>1. /\ run.work # <<>> /\ run.pc = "acked" /\ q \in run.todo /\ run.todo \subseteq Batch
      /\ run.work \in Seq(Groups) /\ Group = run.work[1] /\ 1 \in DOMAIN run.work
      /\ Batch = Group.of /\ Batch \subseteq Source
  <2>1. run.work # <<>> /\ run.pc = "acked" /\ q \in run.todo /\ run.todo \subseteq Batch
        /\ run.work \in Seq(Groups)
    BY DEF TInv, RunOK, Runs, Acked, At
  <2> QED
    BY <2>1, AtHand
<1>2. \A j \in DOMAIN run.work : Due(j) = IF j = 1 THEN run.todo ELSE run.work[j].of
  BY <1>1 DEF Due
<1>3. ASSUME ~e, ~Group.errors, NEW j \in DOMAIN run.work, (run.work[j].errors <=> e), q \in Due(j)
      PROVE  j = 1
  BY <1>1, <1>3, OneGroup
<1>4. CASE run.todo \subseteq {q} /\ run'.pc = "post" /\ run'.work = Tail(run.work)
  <2>1. \A i \in DOMAIN run'.work : Due(i)' = run'.work[i].of
    BY <1>4 DEF Due
  <2>2. ASSUME NEW i \in DOMAIN run'.work
        PROVE  \E j \in DOMAIN run.work : /\ j # 1 /\ run'.work[i] = run.work[j]
                                          /\ Due(i)' = Due(j)
    <3>1. Len(run.work) \in Nat /\ Len(run'.work) = Len(run.work) - 1
          /\ run'.work \in Seq(Groups)
          /\ \A k \in 1 .. Len(run.work) - 1 : run'.work[k] = run.work[k + 1]
      BY <1>1, <1>4, Rest
    <3>2. DOMAIN run'.work = 1 .. Len(run.work) - 1 /\ DOMAIN run.work = 1 .. Len(run.work)
      BY <1>1, <3>1
    <3>3. i + 1 \in DOMAIN run.work /\ i + 1 # 1 /\ run'.work[i] = run.work[i + 1]
      BY <3>1, <3>2
    <3> QED
      BY <1>2, <2>1, <3>3
  <2>3. ASSUME NEW s \in Waiting(e), ~(s = q /\ (Group.errors <=> e))
        PROVE  s \in Waiting(e)'
    <3>1. PICK j \in DOMAIN run.work : (run.work[j].errors <=> e) /\ s \in Due(j) /\ s \in Source
      BY DEF Waiting
    <3>2. j # 1
      BY <1>1, <1>2, <1>4, <2>3, <3>1
    <3>3. PICK i \in DOMAIN run'.work : run'.work[i] = run.work[j]
      BY <1>1, <1>4, <3>2, TailKept
    <3> QED
      BY <1>2, <2>1, <3>1, <3>2, <3>3 DEF Waiting
  <2> QED
    BY <1>3, <2>2, <2>3 DEF Waiting
<1>5. CASE run'.pc = "ack" /\ run'.work = run.work
  <2>1. run'.todo = run.todo \ {q}
    BY AckedGoes
  <2>2. \A j \in DOMAIN run.work : Due(j)' = IF j = 1 THEN run.todo \ {q} ELSE run.work[j].of
    BY <1>5, <2>1 DEF Due
  <2>3. ASSUME NEW s \in Waiting(e), ~(s = q /\ (Group.errors <=> e))
        PROVE  s \in Waiting(e)'
    <3>1. PICK j \in DOMAIN run.work : (run.work[j].errors <=> e) /\ s \in Due(j) /\ s \in Source
      BY DEF Waiting
    <3>2. s \in Due(j)'
      BY <1>1, <1>2, <2>2, <2>3, <3>1
    <3> QED
      BY <1>5, <3>1, <3>2 DEF Waiting
  <2>4. \A j \in DOMAIN run.work : Due(j)' \subseteq Due(j)
    BY <1>2, <2>2
  <2>5. ~e /\ ~Group.errors => q \notin Waiting(e)'
    BY <1>3, <1>5, <2>2, <2>4 DEF Waiting
  <2> QED
    BY <1>5, <2>3, <2>4, <2>5 DEF Waiting
<1> QED
  BY <1>4, <1>5, AckedGoes

(* The snapshot that was acted on is no longer awaited, all others are. *)
LEMMA AckedAwaited ==
  ASSUME TInv, Acked
  PROVE  /\ \A s \in Source : \A i \in DOMAIN run'.work :
              ~run'.work[i].errors /\ s \in Due(i)' =>
                \E j \in DOMAIN run.work : /\ ~run.work[j].errors /\ s \in Due(j)
                                           /\ run'.work[i].item = run.work[j].item
         /\ Awaited' \subseteq Awaited
         /\ ~Group.errors => run.cur \notin Awaited'
         /\ \A s \in Awaited : s \in Awaited' \/ (s = run.cur /\ ~Group.errors)
BY AckedWaiting DEF Awaited

(* The file of an accepted snapshot goes, or a stale one stays for later. *)
LEMMA FpAcked ==
  ASSUME TInv, OrderInv, FpInv, Acked
  PROVE  FpInv'
<1> DEFINE q == run.cur
<1>1. /\ run.work # <<>> /\ run.pc = "acked" /\ q \in run.todo /\ run.todo \subseteq Batch
      /\ state \in StateType /\ run \in Runs /\ FilesOK /\ WorkOK /\ mapped \subseteq Source
      /\ server \in Views /\ AllBacked(state) /\ Renumbered /\ Underway /\ Answered
      /\ UNCHANGED <<known, mapped, server>> /\ run.stale \subseteq Source
  BY DEF TInv, RunOK, Runs, DiskOK, FpInv, Acked, At, config
<1>2. Group = run.work[1] /\ 1 \in DOMAIN run.work /\ Batch = Group.of /\ Batch \subseteq Source
      /\ Due(1) = run.todo
  BY <1>1, AtHand DEF Due
<1>3. /\ run'.scope = run.scope /\ run'.pass = run.pass /\ run'.retired = run.retired
      /\ run'.taken = run.taken
      /\ run'.stale = (IF Stale(q) THEN run.stale \cup {q} ELSE run.stale)
      /\ run'.pc \in {"post", "ack"} /\ (run'.pc = "ack" => run'.work = run.work)
  BY AckedGoes
<1>4. ~Group.errors => q \in Awaited /\ pending[q] \in Snapshots
                       /\ pending[q].data = Group.item[q].data
  BY <1>1, <1>2 DEF Awaited, Waiting, WorkOK, OnFile
<1>5. /\ state'.fp = state.fp /\ state'.intent = state.intent
      /\ \A s \in Source : s # q => pending'[s] = pending[s]
      /\ pending'[q] = IF Group.errors \/ Stale(q) THEN pending[q] ELSE None
  <2>1. CASE Stale(q)
    BY <1>1, <2>1 DEF Acked, files
  <2>2. CASE ~Stale(q)
    BY <1>1, <1>2, <2>2 DEF Acked, RemoveFile, FilesOK
  <2> QED
    BY <2>1, <2>2
<1>6. Live' = Live /\ (\A s : Shown(s)' = Shown(s)) /\ \A s \in Live : s \in Source
  BY <1>1, <1>5 DEF Live, Shown
<1>7. \A s \in Live : /\ Backed(state.fp[s], None, pending[s], server.shown[s].data)
                      /\ Shown(s) \/ (Usage(pending[s]) /\ pending[s].data = state.fp[s])
  BY <1>1, FileStands DEF Delivering
<1>8. q \in Live /\ ~Group.errors /\ ~Stale(q) => Shown(q)
  <2> SUFFICES ASSUME q \in Live, ~Group.errors, ~Stale(q), ~Shown(q)
               PROVE  FALSE
    OBVIOUS
  <2>1. Group.item[q].data \in Content /\ Group.item[q].data = state.fp[q]
    BY <1>4, <1>7 DEF Usage
  <2>2. q \in run.taken /\ q \in Batch
    BY <1>1 DEF Stale
  <2>3. server.shown[q].data = Group.item[q].data
    BY <1>1, <2>1, <2>2 DEF Answered
  <2> QED
    BY <2>1, <2>3 DEF Shown
<1> HIDE DEF q, Items, Snapshots, StateType
<1>9. AllBacked(state)'
  <2>1. ASSUME NEW s \in Live
        PROVE  Backed(state.fp[s], None, pending'[s], server.shown[s].data)
    <3>1. CASE pending'[s] = pending[s]
      BY <1>7, <3>1
    <3>2. CASE pending'[s] # pending[s]
      <4>1. pending'[s] = None /\ Shown(s)
        BY <1>5, <1>6, <1>8, <3>2
      <4> QED
        BY <4>1, NothingThere DEF Backed, Shown
    <3> QED
      BY <3>1, <3>2
  <2>2. \A s \in Source : state.intent[s] = None
    BY <1>1, NothingThere DEF OrderInv, IntentGone, Delivering
  <2> QED
    BY <1>1, <1>5, <1>6, <2>1, <2>2 DEF AllBacked, BackedFor
<1>10. Renumbered'
  <2>1. \A s \in run.stale : pending'[s] = pending[s]
    BY <1>1, <1>4, <1>5 DEF Underway, Delivering
  <2>2. Stale(q) => pending'[q] \in Items /\ server.last[q] < pending'[q].seq
    <3>1. Stale(q) => ~Group.errors /\ pending'[q] = pending[q]
      BY <1>5 DEF Stale
    <3>2. pending[q] \in Snapshots => pending[q] \in Items
      BY DEF Snapshots, Items
    <3> QED
      BY <1>1, <1>4, <3>1, <3>2 DEF Answered, q
  <2>3. \A s \in run'.stale : pending'[s] \in Items /\ server.last[s] < pending'[s].seq
    BY <1>1, <1>3, <2>1, <2>2 DEF Renumbered, Delivering
  <2> QED
    BY <1>1, <1>3, <2>3 DEF Renumbered, Delivering
<1>11. Underway'
  <2>1. run.stale \cap Awaited = {} /\ run.retired \cap server.active = {}
        /\ (\A s \in run.scope \cap Live : Shown(s) \/ s \in Awaited \/ (run.pass = 1 /\ s \in run.stale))
        /\ (run.pass = 2 => \A s \in run.scope \cap Live : \A i \in DOMAIN run.work :
              ~run.work[i].errors /\ s \in Due(i) =>
                Shown(s) \/ server.last[s] < run.work[i].item[s].seq)
    BY <1>1 DEF Underway, Delivering
  <2>2. /\ Awaited' \subseteq Awaited /\ (~Group.errors => q \notin Awaited')
        /\ \A s \in Awaited : s \in Awaited' \/ (s = q /\ ~Group.errors)
    BY AckedAwaited DEF q
  <2>3. run'.stale \cap Awaited' = {}
    BY <1>3, <2>1, <2>2 DEF Stale
  <2>4. ASSUME q \in run.scope \cap Live, ~Group.errors, Stale(q), run.pass = 2
        PROVE  Shown(q)
    <3>1. Shown(q) \/ server.last[q] < Group.item[q].seq
      BY <1>1, <1>2, <2>1, <2>4
    <3>2. Group.item[q].seq <= server.last[q] /\ q \in Source
      BY <1>1, <1>2, <2>4 DEF Answered
    <3>3. Group.item[q].seq \in Nat /\ server.last[q] \in Nat
      <4>1. Group.item[q] \in Snapshots
        BY <1>1, <1>2, <2>4 DEF WorkOK, Filled
      <4> QED
        BY <1>1, <3>2, <4>1 DEF Snapshots, Views
    <3> QED
      BY <3>1, <3>2, <3>3
  <2>5. run.pass \in {1, 2}
    BY <1>1 DEF Runs
  <2>6. ASSUME NEW s \in run.scope \cap Live
        PROVE  Shown(s) \/ s \in Awaited' \/ (run.pass = 1 /\ s \in run'.stale)
    BY <1>3, <1>8, <2>1, <2>2, <2>4, <2>5
  <2>7. ASSUME run.pass = 2, NEW s \in run.scope \cap Live, NEW i \in DOMAIN run'.work,
               ~run'.work[i].errors, s \in Due(i)'
        PROVE  Shown(s) \/ server.last[s] < run'.work[i].item[s].seq
    <3>1. PICK j \in DOMAIN run.work : /\ ~run.work[j].errors /\ s \in Due(j)
                                       /\ run'.work[i].item = run.work[j].item
      BY <1>6, <2>7, AckedAwaited
    <3> QED
      BY <2>1, <2>7, <3>1
  <2> QED
    BY <1>1, <1>3, <1>6, <2>1, <2>3, <2>6, <2>7 DEF Underway
<1>12. Answered'
  <2>1. CASE run'.pc = "post"
    BY <2>1 DEF Answered
  <2>2. CASE run'.pc = "ack"
    <3>1. Group' = Group /\ Batch' = Batch
      BY <1>3, <2>2 DEF Group, Batch
    <3> QED
      BY <1>1, <1>3, <2>2, <3>1 DEF Answered
  <2> QED
    BY <1>3, <2>1, <2>2
<1> QED
  BY <1>3, <1>9, <1>10, <1>11, <1>12 DEF FpInv, Replayed, Settled

(* When a drain is over everything is shown, or is sent once more. *)
LEMMA FpSettle ==
  ASSUME TInv, OrderInv, FpInv, Settle
  PROVE  FpInv'
<1>1. /\ run \in Runs /\ run.work = <<>> /\ run.pc = "post" /\ server' = server
      /\ state \in StateType /\ mapped \subseteq Source
      /\ AllBacked(state) /\ Renumbered /\ Underway /\ Retire(run.retired)
      /\ state' = Forgotten(state, run.retired)
  BY DEF Settle, At, TInv, RunOK, DiskOK, FpInv
<1>2. Awaited = {}
  BY <1>1 DEF Awaited, Waiting
<1>3. Live' \subseteq Live
  BY <1>1 DEF Retire, Live
<1>4. ASSUME NEW s \in Live'
      PROVE  /\ state'.fp[s] = state.fp[s] /\ state'.intent[s] = state.intent[s]
             /\ pending'[s] = pending[s]
  <2>1. s \in Source /\ s \notin run.retired
    BY <1>1 DEF Live, Retire
  <2> QED
    BY <1>1, <2>1 DEF Retire, Forgotten
<1>5. AllBacked(state)'
  BY <1>1, <1>3, <1>4 DEF AllBacked, BackedFor
<1>6. \A s \in Live' : Shown(s)' = Shown(s)
  BY <1>1, <1>4 DEF Shown
<1>7. ASSUME NEW s \in run.scope \cap Live
      PROVE  Shown(s) \/ (run.pass = 1 /\ s \in run.stale)
  BY <1>1, <1>2 DEF Underway, Delivering
<1> DEFINE again == run.stale # {} /\ run.pass = 1
           Goes(pass, pc) ==
             run' = [run EXCEPT !.pass = pass, !.blocked = run.blocked \cup run.retired, !.pc = pc]
<1>8. \/ run' = Idle
      \/ again /\ Goes(2, "drain")
      \/ ~again /\ Goes(1, "inspect")
      \/ ~again /\ Goes(1, "done")
  BY SettleRun DEF Leaves
<1>9. CASE run' = Idle
  BY <1>5, <1>9, AtRest DEF Idle
<1>10. CASE again /\ Goes(2, "drain")
  <2>1. run'.pc = "drain" /\ run'.pass = 2 /\ run'.scope = run.scope
    BY <1>1, <1>10 DEF Runs
  <2>2. \A s \in run.stale : pending[s] \in Items /\ server.last[s] < pending[s].seq
    BY <1>1 DEF Renumbered, Delivering
  <2>3. ASSUME NEW s \in run'.scope \cap Live'
        PROVE  Shown(s)' \/ (pending'[s] \in Items /\ server'.last[s] < pending'[s].seq)
    BY <1>1, <1>3, <1>4, <1>6, <1>7, <2>1, <2>2
  <2>4. Renumbered'
    BY <2>1, <2>3 DEF Renumbered, Delivering
  <2> QED
    BY <1>5, <2>1, <2>4 DEF FpInv, Replayed, Settled, Underway, Answered, Delivering
<1>11. CASE ~again /\ Goes(1, "inspect")
  <2>1. run'.pc = "inspect" /\ run'.pass = 1 /\ run'.scope = run.scope
    BY <1>1, <1>11 DEF Runs
  <2>2. ASSUME NEW s \in run'.scope \cap Live'
        PROVE  Shown(s)'
    BY <1>3, <1>6, <1>7, <1>11, <2>1
  <2>3. Settled'
    BY <2>1, <2>2 DEF Settled
  <2> QED
    BY <1>5, <2>1, <2>3 DEF FpInv, Replayed, Renumbered, Underway, Answered, Delivering
<1>12. CASE ~again /\ Goes(1, "done")
  <2>1. run'.pc = "done" /\ run'.pass = 1
    BY <1>1, <1>12 DEF Runs
  <2> QED
    BY <1>5, <2>1, AtRest
<1> QED
  BY <1>8, <1>9, <1>10, <1>11, <1>12

(* Every step keeps what fingerprints stand for. *)
LEMMA FpStep ==
  ASSUME "compaction" \notin Faults, TInv, OrderInv, FpInv, [Next]_vars
  PROVE  FpInv'
<1>1. ~Compaction
  BY DEF Compaction, CompactRead, CompactWrite, CompactEnds, OrderInv
<1>2. CASE UNCHANGED vars \/ \E s \in Source : Change(s) \/ Disconnect(s)
  BY <1>2, FpWorld
<1>3. CASE Deliver
  BY <1>3, FpDrain, FpPost, FpRefused, FpRemember, FpAck, FpAcked, FpSettle DEF Deliver
<1>4. CASE Begin \/ NextRange \/ End \/ InspectFails \/ CollectThrows \/ Crash \/ LoseState
  BY <1>4, FpRest
<1>5. CASE Recover \/ Persist \/ (\E s \in Source : Save(s)) \/ ClearIntent
  BY <1>5, FpWrite, FpSave, FpClear
<1>6. CASE Inspect \/ InspectSkipped \/ Collect
  BY <1>6, FpInspect, FpCollect
<1> QED
  BY <1>1, <1>2, <1>3, <1>4, <1>5, <1>6 DEF Next, RangeStep

(* A fingerprint that makes an automatic sync skip its usage stands for    *)
(* something durable, whatever dies, is lost or is refused (writeState,    *)
(* savePending and drainPending).  No process may be in its final          *)
(* compaction: that one writes an old state back.                          *)
THEOREM FingerprintsStand ==
  ASSUME "compaction" \notin Faults
  PROVE  Spec => []FingerprintIsDurable
<1>1. Init => TInv /\ OrderInv /\ FpInv
  BY TypeInit, OrderInit, FpInit
<1>2. TInv /\ OrderInv /\ FpInv /\ [Next]_vars => (TInv /\ OrderInv /\ FpInv)'
  BY TypeStep, OrderStep, FpStep
<1>3. TInv /\ FpInv => FingerprintIsDurable
  <2> SUFFICES ASSUME TInv, FpInv, NEW s \in Live, state.fp[s] \in Content \ Bad,
                      server.shown[s].data # state.fp[s]
               PROVE  \/ pending[s] # None /\ pending[s].data = state.fp[s]
                      \/ state.intent[s] # None /\ state.intent[s].data = state.fp[s]
    BY DEF FingerprintIsDurable, Live
  <2>1. Backed(state.fp[s], state.intent[s], pending[s], server.shown[s].data)
    BY DEF FpInv, AllBacked, BackedFor
  <2>2. Usage(state.intent[s]) => state.intent[s] # None
    BY NothingThere
  <2>3. Usage(pending[s]) => pending[s] # None
    BY NothingThere
  <2> QED
    BY <2>1, <2>2, <2>3 DEF Backed
<1> QED
  BY <1>1, <1>2, <1>3, PTL DEF Spec

-----------------------------------------------------------------------------
(* What a range collected is delivered *)

(* The sources of the range for which usage or a failure was collected. *)
Duty == {s \in mapped : mem.intent[s] # None}

Task(s) == mem.intent[s]

(* The same payload, whatever its sequence. *)
Same(s, item) == item \in Items /\ item.data = Task(s).data /\ item.at = Task(s).at

(* The end that the payload of a source is to meet. *)
Accepted(s) ==
  \/ Task(s).data \in Content \ Bad /\ server.shown[s].at >= Task(s).at
  \/ Task(s).data \in Chunk /\ Task(s).data \in server.chunks[s]
  \/ Task(s).data \in Bad /\ quarantine[s] = Task(s).data
  \/ Task(s).data = Error /\ (server.failing[s] = Task(s).at \/ server.last[s] > Task(s).seq)

(* The payload as it was collected is in its file. *)
InFile(s) == IF Task(s).data = Error THEN error[s] = Task(s) ELSE pending[s] = Task(s)

(* No file holds another payload of the kind. *)
Mine(s) ==
  IF Task(s).data = Error THEN error[s] \in {None, Task(s)}
                          ELSE pending[s] = None \/ Same(s, pending[s])

(* The payload of a source is still to be delivered. *)
InWork(s) == IF Task(s).data = Error THEN s \in Waiting(TRUE) ELSE s \in Waiting(FALSE)

(* Its sequence is later than any the server has seen. *)
Unseen(s, item) == server.last[s] < item.seq

(* What a range that ends has collected is of its scope, and an error is   *)
(* about what the server has already taken in.                             *)
Collected ==
  run.pc = "persist" \/ run.stage = "after" =>
    \A s \in Source : mem.intent[s] # None =>
      s \in run.scope /\ (Task(s).data = Error => Task(s).seq <= server.last[s])

(* Before the first request the files hold what was collected. *)
Stored ==
  run.stage = "after" =>
    /\ run.pc \in Delivering \cup {"save", "drain", "done"}
    /\ run.pc = "save" => \A s \in Duty : s \in run.saving \/ InFile(s)
    /\ run.pc = "drain" /\ run.pass = 1 => \A s \in Duty : InFile(s)
    /\ run.pc # "save" => \A s \in Duty : Mine(s)
    /\ \A i \in DOMAIN run.work : run.work[i].errors =>
         \A s \in Duty \cap run.work[i].of : Task(s).data = Error => run.work[i].item[s] = Task(s)

(* In a delivery each payload has met its end, is still to be sent, or was *)
(* called stale in the first pass; in the second none can be stale again   *)
(* unless the server has it.                                               *)
Sending ==
  run.stage = "after" /\ run.pc \in Delivering =>
    /\ run.stale \cap Waiting(FALSE) = {}
    /\ \A s \in run.stale : pending[s] \in Items /\ Unseen(s, pending[s])
    /\ \A s \in Duty : \/ Accepted(s) \/ s \in run.retired \/ InWork(s)
                       \/ run.pass = 1 /\ s \in run.stale /\ Task(s).data # Error
    /\ run.pass = 2 => \A s \in Duty : \A i \in DOMAIN run.work :
         ~run.work[i].errors /\ s \in Due(i) /\ Task(s).data # Error =>
           Accepted(s) \/ Unseen(s, run.work[i].item[s])

(* A second pass begins with a sequence the server has not seen. *)
SentAgain ==
  /\ run.pass = 2 => run.pc \in Delivering \cup {"drain"}
  /\ run.stage = "after" /\ run.pc = "drain" /\ run.pass = 2 =>
       \A s \in Duty : Accepted(s) \/ (Task(s).data # Error /\ pending[s] \in Items /\ Unseen(s, pending[s]))

(* After an answer. *)
Heard ==
  /\ \A s \in Source : known[s] <= server.last[s]
  /\ run.pc \in {"remember", "ack", "acked"} /\ ~Group.errors =>
       \A s \in Batch : Group.item[s].seq <= server.last[s] /\ Group.item[s].data \notin Bad
  /\ run.pc \in {"ack", "acked"} => \A s \in Batch : known[s] = server.last[s]
  /\ run.pc = "acked" /\ Stale(run.cur) => Unseen(run.cur, pending[run.cur])
  /\ run.pc \in {"remember", "ack", "acked"} /\ run.stage = "after" =>
       \A s \in Batch \cap Duty :
         (Task(s).data = Error <=> Group.errors) /\ ~Stale(s) => Accepted(s)

Ended == run.stage = "after" /\ run.pc = "done" => \A s \in Duty : Accepted(s)

DutyInv == Collected /\ Stored /\ Sending /\ SentAgain /\ Heard /\ Ended

(* Nothing has been collected when nothing has run. *)
LEMMA DutyInit ==
  ASSUME Init
  PROVE  DutyInv
<1>1. run.stage = "before" /\ run.pc = "idle" /\ run.pass = 1
  BY DEF Init, Idle
<1>2. \A s \in Source : known[s] <= server.last[s]
  BY DEF Init
<1> QED
  BY <1>1, <1>2 DEF DutyInv, Collected, Stored, Sending, SentAgain, Heard, Ended

(* Before the collection there is nothing to say about a run. *)
LEMMA NotSending ==
  ASSUME run'.stage # "after", run'.pc \notin {"remember", "ack", "acked", "persist"},
         run'.pass = 2 => run'.pc \in Delivering \cup {"drain"},
         \A s \in Source : known'[s] <= server'.last[s]
  PROVE  DutyInv'
BY DEF DutyInv, Collected, Stored, Sending, SentAgain, Heard, Ended

(* What happens outside the run does not touch what it has collected. *)
LEMMA DutyWorld ==
  ASSUME TInv, DutyInv,
         UNCHANGED vars \/ LoseState \/ Compaction \/ \E s \in Source : Change(s) \/ Disconnect(s)
  PROVE  DutyInv'
<1>1. /\ UNCHANGED <<mem, pending, error, quarantine, known, mapped, run>>
      /\ server'.last = server.last /\ server'.shown = server.shown
      /\ server'.chunks = server.chunks /\ server'.failing = server.failing
  BY DEF vars, files, config, LoseState, Compaction, CompactRead, CompactWrite, CompactEnds,
         Change, Disconnect, TInv, Views
<1>2. /\ UNCHANGED <<Group, Batch, Duty>> /\ \A i : Due(i)' = Due(i)
      /\ \A s : Task(s)' = Task(s) /\ Stale(s)' = Stale(s)
  BY <1>1 DEF Group, Batch, Duty, Due, Task, Stale
<1>3. /\ \A s : Accepted(s)' = Accepted(s) /\ InFile(s)' = InFile(s) /\ Mine(s)' = Mine(s)
      /\ \A e : Waiting(e)' = Waiting(e)
      /\ \A s, item : Unseen(s, item)' = Unseen(s, item)
      /\ \A s : InWork(s)' = InWork(s)
  BY <1>1, <1>2 DEF Accepted, InFile, Mine, Same, Waiting, Unseen, InWork
<1>4. Collected' /\ Stored'
  BY <1>1, <1>2, <1>3 DEF DutyInv, Collected, Stored
<1>5. Sending' /\ SentAgain'
  BY <1>1, <1>2, <1>3 DEF DutyInv, Sending, SentAgain
<1>6. Heard' /\ Ended'
  BY <1>1, <1>2, <1>3 DEF DutyInv, Heard, Ended
<1> QED
  BY <1>4, <1>5, <1>6 DEF DutyInv

(* A range begins, ends, or is cut short. *)
LEMMA DutyRest ==
  ASSUME TInv, DutyInv, Begin \/ NextRange \/ End \/ InspectFails \/ CollectThrows \/ Crash
                        \/ Recover \/ InspectSkipped
  PROVE  DutyInv'
<1>1. UNCHANGED <<known, server>> /\ run \in Runs
  BY DEF Begin, NextRange, End, InspectFails, CollectThrows, Crash, Recover, InspectSkipped, config,
         TInv, RunOK
<1>2. CASE Begin
  <2>1. PICK a : run' = [Idle EXCEPT !.pc = "recover", !.auto = a, !.scope = Source]
    BY <1>2 DEF Begin
  <2>2. run'.pc = "recover" /\ run'.stage = "before" /\ run'.pass = 1
    BY <2>1 DEF Idle
  <2> QED
    BY <1>1, <2>2, NotSending DEF DutyInv, Heard
<1>3. CASE NextRange
  <2>1. PICK a, b, c, d, e : run' = [Idle EXCEPT !.pc = "recover", !.auto = a, !.range = b,
                                      !.scope = c, !.blocked = d, !.tried = e]
    BY <1>3 DEF NextRange
  <2>2. run'.pc = "recover" /\ run'.stage = "before" /\ run'.pass = 1
    BY <2>1 DEF Idle
  <2> QED
    BY <1>1, <2>2, NotSending DEF DutyInv, Heard
<1>4. CASE Leaves
  <2>1. run'.pc = "idle" /\ run'.stage = "before" /\ run'.pass = 1
    BY <1>4 DEF Leaves, Idle
  <2> QED
    BY <1>1, <2>1, NotSending DEF DutyInv, Heard
<1>5. CASE Recover \/ InspectSkipped
  <2>1. \/ run' = [run EXCEPT !.pc = "drain"]
        \/ run' = [run EXCEPT !.pc = "collect"]
        \/ \E a : run' = [run EXCEPT !.pc = "save", !.saving = a]
    BY <1>5 DEF Recover, InspectSkipped
  <2>2. run'.stage = run.stage /\ run'.pass = run.pass /\ run'.pc \in {"drain", "collect", "save"}
    BY <1>1, <2>1 DEF Runs
  <2>3. run.pc \in {"recover", "inspect"}
    BY <1>5 DEF Recover, InspectSkipped, At
  <2>4. run.stage # "after" /\ run.pass # 2
    BY <2>3 DEF DutyInv, Stored, SentAgain, Delivering
  <2> QED
    BY <1>1, <2>2, <2>4, NotSending DEF DutyInv, Heard
<1> QED
  BY <1>2, <1>3, <1>4, <1>5 DEF End, InspectFails, CollectThrows, Crash

(* The server is asked where it is. *)
LEMMA DutyInspect ==
  ASSUME TInv, DutyInv, Inspect
  PROVE  DutyInv'
<1>1. /\ run \in Runs /\ run.pc = "inspect" /\ server' = server /\ run' = [run EXCEPT !.pc = "collect"]
      /\ known' = [s \in Source |-> IF s \in mapped \cap server.active THEN server.last[s] ELSE known[s]]
      /\ server \in Views
  BY DEF Inspect, At, TInv, RunOK
<1>2. run'.pc = "collect" /\ run'.stage = run.stage /\ run'.pass = run.pass
  BY <1>1 DEF Runs
<1>3. \A s \in Source : server.last[s] \in Nat /\ known[s] <= server.last[s]
  BY <1>1 DEF Views, DutyInv, Heard
<1>4. \A s \in Source : known'[s] <= server'.last[s]
  BY <1>1, <1>3
<1>5. run.stage # "after" /\ run.pass # 2
  BY <1>1 DEF DutyInv, Stored, SentAgain, Delivering
<1> QED
  BY <1>2, <1>4, <1>5, NotSending

(* The kinds of payloads. *)
LEMMA Kinds ==
  /\ Error \notin Content /\ Error \notin Chunk /\ Content \cap Chunk = {} /\ Error \notin Bad
  /\ None \notin Items
BY ConstantsAssumption

(* What a source is to deliver is a payload. *)
LEMMA TaskIs ==
  ASSUME TInv, NEW s \in Duty
  PROVE  s \in Source /\ mem.intent[s] # None /\ Task(s) = mem.intent[s] /\ Task(s) \in Items
<1>1. s \in Source /\ mem.intent[s] # None
  BY DEF Duty, TInv, DiskOK
<1>2. mem \in StateType
  BY DEF TInv, DiskOK
<1> HIDE DEF Items
<1>3. mem.intent \in [Source -> Items \cup {None}]
  BY <1>2
<1> QED
  BY <1>1, <1>3 DEF Task

(* What is collected is of the scope, and an error is about the sequence   *)
(* that was heard of last.                                                 *)
LEMMA DutyCollect ==
  ASSUME TInv, DutyInv, Collect
  PROVE  DutyInv'
<1> USE ConstantsAssumption
<1>1. /\ run \in Runs /\ mem \in StateType /\ run.pc = "collect" /\ UNCHANGED <<known, server>>
      /\ NewState \in StateType /\ run.range \in Chunk \cup {Rolling} /\ usage \in [Source -> Content]
  BY IdleType DEF TInv, DiskOK, WorldOK, RunOK, Runs, Collect, At, config
<1>2. run.stage # "after" /\ run.pass # 2
  BY <1>1 DEF DutyInv, Stored, SentAgain, Delivering
<1>3. PICK outcome \in [mapped \cap run.scope -> Outcomes] :
        LET Ended0(how) == {s \in DOMAIN outcome : outcome[s] = how}
            items == [s \in Source |-> IF s \in DOMAIN outcome THEN Contribution(s, outcome[s])
                                      ELSE None]
            new == Written(items)
            rolling == IF run.range = Rolling THEN new ELSE {}
            next == [mem EXCEPT
                       !.seq = [s \in Source |-> IF s \in new /\ items[s].data # Error
                                                 THEN @[s] + 1 ELSE @[s]],
                       !.fp = [s \in Source |-> IF s \in rolling THEN items[s].data ELSE @[s]]]
        IN  /\ IF new = {} THEN TRUE ELSE mem' = [next EXCEPT !.intent = items]
            /\ run' = [run EXCEPT
                 !.pc = IF new = {} THEN "done" ELSE "persist",
                 !.barren = new # {} /\ Ended0("usage") = {},
                 !.blocked = @ \cup Ended0("inactive")
                               \cup (IF run.range = Rolling THEN {} ELSE Ended0("failure"))]
  BY DEF Collect
<1> DEFINE items == [s \in Source |-> IF s \in DOMAIN outcome THEN Contribution(s, outcome[s])
                                     ELSE None]
           new == Written(items)
           rolling == IF run.range = Rolling THEN new ELSE {}
           seqs == [s \in Source |-> IF s \in new /\ items[s].data # Error
                                     THEN mem.seq[s] + 1 ELSE mem.seq[s]]
           fps == [s \in Source |-> IF s \in rolling THEN items[s].data ELSE mem.fp[s]]
<1>3a. /\ new # {} => mem' = [mem EXCEPT !.seq = seqs, !.fp = fps, !.intent = items]
       /\ \E b, c : run' = [run EXCEPT !.pc = IF new = {} THEN "done" ELSE "persist",
                                       !.barren = b, !.blocked = c]
  BY <1>1, <1>3 DEF StateType
<1>3b. \A s \in Source : items[s] # None => s \in run.scope /\ items[s] = Contribution(s, outcome[s])
  OBVIOUS
<1> HIDE DEF items, new, seqs, fps
<1>4. run'.pc = (IF new = {} THEN "done" ELSE "persist") /\ run'.stage = run.stage
      /\ run'.pass = run.pass /\ run'.scope = run.scope
  BY <1>1, <1>3a DEF Runs
<1>5. CASE new = {}
  BY <1>1, <1>2, <1>4, <1>5, NotSending DEF DutyInv, Heard
<1>6. CASE new # {}
  <2>1. mem' \in StateType
    BY CollectType DEF TInv, DiskOK
  <2>2. mem'.intent = items
    <3>1. mem' = [mem EXCEPT !.seq = seqs, !.fp = fps, !.intent = items]
      BY <1>3a, <1>6
    <3>2. DOMAIN mem = {"seq", "fp", "cursor", "intent", "missing"}
      BY <1>1
    <3> HIDE DEF StateType
    <3> QED
      BY <3>1, <3>2
  <2>3. ASSUME NEW s \in Source, items[s] # None
        PROVE  s \in run.scope /\ (items[s].data = Error => items[s].seq <= server.last[s])
    <3>1. s \in run.scope /\ items[s] = Contribution(s, outcome[s])
      BY <1>3b, <2>3
    <3>2. Error \notin Content /\ Error \notin Chunk /\ known[s] <= server.last[s]
      BY Kinds DEF DutyInv, Heard
    <3>3. \/ /\ run.range # Rolling
             /\ items[s] = Item(mem.seq[s] + 1, run.range, made[s])
          \/ items[s] = Item(mem.seq[s] + 1, usage[s], made[s] + 1)
          \/ items[s] = Item(known[s], Error, made[s] + 1)
      BY <2>3, <3>1 DEF Contribution
    <3>4. CASE items[s] = Item(known[s], Error, made[s] + 1)
      BY <3>1, <3>2, <3>4 DEF Item
    <3>5. CASE items[s] # Item(known[s], Error, made[s] + 1)
      <4>1. items[s].data \in Content \cup Chunk
        BY <1>1, <3>3, <3>5 DEF Item
      <4> QED
        BY <3>1, <3>2, <4>1
    <3> QED
      BY <3>4, <3>5
  <2>4. Collected'
    BY <1>1, <1>4, <2>2, <2>3 DEF Collected, Task
  <2> QED
    BY <1>1, <1>2, <1>4, <1>6, <2>4 DEF DutyInv, Stored, Sending, SentAgain, Heard, Ended
<1> QED
  BY <1>5, <1>6

(* The payloads are written to the state file and then file by file. *)
LEMMA DutySave ==
  ASSUME TInv, DutyInv, Persist \/ (\E s \in Source : Save(s)) \/ ClearIntent
  PROVE  DutyInv'
<1> USE ConstantsAssumption
<1>1. /\ run \in Runs /\ UNCHANGED <<quarantine, known, mapped, server>>
      /\ Collected /\ Stored /\ SentAgain /\ Heard /\ FilesOK
      /\ run.pc \in {"persist", "save"}
  BY DEF Persist, Save, ClearIntent, At, config, files, TInv, RunOK, DutyInv
<1>2. run.pass = 1
  BY <1>1 DEF SentAgain, Runs, Delivering
<1>3. run.work = <<>>
  BY <1>1 DEF TInv, RunOK, Delivering
<1>4. CASE Persist
  <2>1. run' = [run EXCEPT !.pc = "save", !.saving = Written(mem.intent), !.stage = "after"]
        /\ mem' = mem /\ run.pc = "persist"
    BY <1>4 DEF Persist, At
  <2>2. run'.pc = "save" /\ run'.saving = Written(mem.intent) /\ run'.work = <<>> /\ run'.pass = 1
        /\ run'.scope = run.scope
    BY <1>1, <1>2, <1>3, <2>1 DEF Runs
  <2>3. Collected'
    BY <1>1, <2>1, <2>2 DEF Collected, Task
  <2>4. \A s \in Duty' : s \in run'.saving
    BY <1>1, <2>1, <2>2 DEF Duty, Written, TInv, DiskOK
  <2>5. Stored'
    BY <2>2, <2>4 DEF Stored
  <2> QED
    BY <1>1, <2>2, <2>3, <2>5 DEF DutyInv, Sending, SentAgain, Heard, Ended, Delivering
<1>5. ASSUME NEW q \in Source, Save(q)
      PROVE  DutyInv'
  <2>1. /\ run' = [run EXCEPT !.saving = run.saving \ {q}] /\ mem' = mem /\ run.pc = "save"
        /\ pending' = IF Task(q).data = Error THEN pending ELSE [pending EXCEPT ![q] = Task(q)]
        /\ error' = [error EXCEPT ![q] = IF Task(q).data = Error THEN Task(q) ELSE None]
    BY <1>5 DEF Save, At, Task
  <2>2. run'.pc = "save" /\ run'.saving = run.saving \ {q} /\ run'.work = <<>> /\ run'.pass = 1
        /\ run'.scope = run.scope /\ run'.stage = run.stage
    BY <1>1, <1>2, <1>3, <2>1 DEF Runs
  <2>3. Duty' = Duty /\ \A s : Task(s)' = Task(s)
    BY <1>1, <2>1 DEF Duty, Task
  <2>4. Collected'
    BY <1>1, <2>1, <2>2, <2>3 DEF Collected
  <2>5. ASSUME run.stage = "after", NEW s \in Duty
        PROVE  s \in run'.saving \/ InFile(s)'
    <3>1. s \in Source
      BY DEF Duty, TInv, DiskOK
    <3>2. CASE s = q
      <4>1. (IF Task(q).data = Error THEN error'[q] = Task(q) ELSE pending'[q] = Task(q))
        BY <1>1, <2>1 DEF FilesOK
      <4> QED
        BY <2>3, <3>2, <4>1 DEF InFile
    <3>3. CASE s # q
      <4>1. pending'[s] = pending[s] /\ error'[s] = error[s]
        BY <1>1, <2>1, <3>1, <3>3 DEF FilesOK
      <4>2. s \in run.saving \/ InFile(s)
        BY <1>1, <2>1, <2>5 DEF Stored
      <4> QED
        BY <2>2, <2>3, <3>3, <4>1, <4>2 DEF InFile
    <3> QED
      BY <3>2, <3>3
  <2>6. Stored'
    BY <2>2, <2>3, <2>5 DEF Stored
  <2> QED
    BY <1>1, <2>2, <2>4, <2>6 DEF DutyInv, Sending, SentAgain, Heard, Ended, Delivering
<1>6. CASE ClearIntent
  <2>1. /\ run' = [run EXCEPT !.pc = "drain"] /\ run.pc = "save" /\ run.saving = {}
        /\ UNCHANGED <<pending, error>> /\ (run.stage # "before" => mem' = mem)
    BY <1>6 DEF ClearIntent, At, files
  <2>2. run'.pc = "drain" /\ run'.work = <<>> /\ run'.pass = 1
        /\ run'.scope = run.scope /\ run'.stage = run.stage
    BY <1>1, <1>2, <1>3, <2>1 DEF Runs
  <2>3. CASE run.stage = "before"
    BY <1>1, <2>2, <2>3, NotSending DEF Heard
  <2>4. CASE run.stage # "before"
    <3>1. Duty' = Duty /\ \A s : Task(s)' = Task(s) /\ InFile(s)' = InFile(s)
      BY <1>1, <2>1, <2>4 DEF Duty, Task, InFile
    <3>2. run.stage = "after"
      BY <1>1, <2>4 DEF Runs
    <3>3. Collected'
      BY <1>1, <2>1, <2>2, <2>4, <3>1, <3>2 DEF Collected
    <3>4. \A s \in Duty : InFile(s)
      BY <1>1, <2>1, <3>2 DEF Stored
    <3>5. ASSUME NEW s \in Duty
          PROVE  Mine(s)'
      <4>1. Task(s) \in Items
        BY TaskIs
      <4>2. Mine(s)
        BY <3>4, <4>1 DEF InFile, Mine, Same
      <4> QED
        BY <2>1, <3>1, <4>2 DEF Mine, Same
    <3>6. Stored'
      BY <2>2, <3>1, <3>2, <3>4, <3>5 DEF Stored
    <3> QED
      BY <1>1, <2>2, <3>3, <3>6 DEF DutyInv, Sending, SentAgain, Heard, Ended, Delivering
  <2> QED
    BY <2>3, <2>4
<1> QED
  BY <1>4, <1>5, <1>6

(* The files are read: every payload that is still to be sent is among     *)
(* what is read.                                                           *)
LEMMA DutyDrain ==
  ASSUME TInv, DutyInv, Drain
  PROVE  DutyInv'
<1> DEFINE p == FilesRead(FALSE, pending')
           e == FilesRead(TRUE, error')
<1>1. /\ run \in Runs /\ run.pc = "drain" /\ FilesOK
      /\ UNCHANGED <<mem, quarantine, known, mapped, server>>
      /\ pending' = [s \in Source |-> IF s \in mapped THEN pending[s] ELSE None]
      /\ error' = [s \in Source |-> IF s \in mapped THEN error[s] ELSE None]
      /\ Collected /\ Stored /\ SentAgain /\ Heard
  BY DEF TInv, RunOK, Drain, At, config, DutyInv
<1>2. /\ p.errors = FALSE /\ p.item = pending' /\ p.of = {s \in run.scope : pending'[s] # None}
      /\ e.errors = TRUE /\ e.item = error' /\ e.of = {s \in run.scope : error'[s] # None}
      /\ \A i \in DOMAIN run'.work : run'.work[i] \in {p, e}
      /\ p.of # {} => 1 \in DOMAIN run'.work /\ run'.work[1] = p
      /\ e.of # {} => \E i \in DOMAIN run'.work : run'.work[i] = e
      /\ run' = [run EXCEPT !.pc = "post", !.stale = {}, !.retired = {}, !.work = run'.work]
  BY DrainWork
<1> HIDE DEF p, e
<1>3. /\ run'.pc = "post" /\ run'.stale = {} /\ run'.stage = run.stage /\ run'.pass = run.pass
      /\ run'.scope = run.scope
  BY <1>1, <1>2 DEF Runs
<1>4. Duty' = Duty /\ \A s : Task(s)' = Task(s) /\ Accepted(s)' = Accepted(s)
  BY <1>1 DEF Duty, Task, Accepted
<1>5. ASSUME NEW s \in Duty
      PROVE  /\ s \in Source /\ pending'[s] = pending[s] /\ error'[s] = error[s]
             /\ Task(s) \in Items /\ Task(s) # None
  BY <1>1, TaskIs, Kinds DEF Duty
<1>6. Collected'
  BY <1>1, <1>3, <1>4 DEF Collected
<1>7. CASE run.stage # "after"
  BY <1>1, <1>3, <1>7, NotSending DEF Heard, Delivering
<1>8. CASE run.stage = "after"
  <2>1. \A s \in Duty : Mine(s)
    BY <1>1, <1>8 DEF Stored
  <2>2. \A s \in Duty : Mine(s)'
    BY <1>4, <1>5, <2>1 DEF Mine, Same
  <2>3. ASSUME NEW i \in DOMAIN run'.work, run'.work[i].errors, NEW s \in Duty \cap run'.work[i].of,
               Task(s).data = Error
        PROVE  run'.work[i].item[s] = Task(s)
    <3>1. run'.work[i] = e
      BY <1>2, <2>3
    <3>2. error'[s] # None
      BY <1>2, <2>3, <3>1
    <3> QED
      BY <1>2, <1>5, <2>1, <2>3, <3>1, <3>2 DEF Mine
  <2>4. Stored'
    BY <1>3, <1>4, <2>2, <2>3 DEF Stored, Delivering
  <2>5. \A i \in DOMAIN run'.work : Due(i)' = run'.work[i].of
    BY <1>3 DEF Due
  <2>6. ASSUME NEW s \in Duty
        PROVE  s \in run.scope
    BY <1>1, <1>5, <1>8, TaskIs DEF Collected
  <2>7. ASSUME NEW s \in Duty, Task(s).data = Error, error'[s] # None
        PROVE  s \in Waiting(TRUE)'
    <3>1. s \in e.of
      BY <1>2, <2>6, <2>7
    <3>2. PICK i \in DOMAIN run'.work : run'.work[i] = e
      BY <1>2, <3>1
    <3> QED
      BY <1>2, <1>5, <2>5, <3>1, <3>2 DEF Waiting
  <2>8. ASSUME NEW s \in Duty, Task(s).data # Error, pending'[s] # None
        PROVE  s \in Waiting(FALSE)'
    <3>1. s \in p.of
      BY <1>2, <2>6, <2>8
    <3> QED
      BY <1>2, <1>5, <2>5, <3>1 DEF Waiting
  <2>9. run.pass \in {1, 2}
    BY <1>1 DEF Runs
  <2>10. ASSUME NEW s \in Duty
         PROVE  Accepted(s) \/ InWork(s)'
    <3>1. CASE run.pass = 1
      <4>1. InFile(s)
        BY <1>1, <1>8, <3>1 DEF Stored
      <4>2. CASE Task(s).data = Error
        BY <1>4, <1>5, <2>7, <4>1, <4>2 DEF InFile, InWork
      <4>3. CASE Task(s).data # Error
        BY <1>4, <1>5, <2>8, <4>1, <4>3 DEF InFile, InWork
      <4> QED
        BY <4>2, <4>3
    <3>2. CASE run.pass = 2
      <4>1. Accepted(s) \/ (Task(s).data # Error /\ pending[s] \in Items)
        BY <1>1, <1>8, <3>2 DEF SentAgain
      <4>2. CASE Task(s).data # Error /\ pending[s] \in Items
        <5> HIDE DEF Items
        <5> QED
          BY <1>4, <1>5, <2>8, <4>2, Kinds DEF InWork
      <4> QED
        BY <4>1, <4>2
    <3> QED
      BY <2>9, <3>1, <3>2
  <2>11. ASSUME run.pass = 2, NEW s \in Duty, NEW i \in DOMAIN run'.work,
                ~run'.work[i].errors, s \in Due(i)', Task(s).data # Error
         PROVE  Accepted(s) \/ Unseen(s, run.work[i].item[s])'
    <3>1. run'.work[i] = p
      BY <1>2, <2>11
    <3>2. Accepted(s) \/ Unseen(s, pending[s])
      BY <1>1, <1>8, <2>11 DEF SentAgain
    <3>3. run'.work[i].item[s] = pending[s] /\ server' = server
      BY <1>1, <1>2, <1>5, <3>1
    <3> QED
      BY <3>2, <3>3 DEF Unseen
  <2>12. Sending'
    <3>1. \A s \in Duty' : Accepted(s)' \/ InWork(s)'
      BY <1>4, <2>10
    <3>2. run'.pass = 2 => \A s \in Duty' : \A i \in DOMAIN run'.work :
            ~run'.work[i].errors /\ s \in Due(i)' /\ Task(s)'.data # Error =>
              Accepted(s)' \/ Unseen(s, run.work[i].item[s])'
      BY <1>3, <1>4, <2>11
    <3> QED
      BY <1>3, <3>1, <3>2 DEF Sending
  <2>13. SentAgain' /\ Heard' /\ Ended'
    BY <1>1, <1>3 DEF SentAgain, Heard, Ended, Delivering
  <2> QED
    BY <1>6, <2>4, <2>12, <2>13 DEF DutyInv
<1> QED
  BY <1>7, <1>8

(* What is taken in: usage and parts of the history that are new to the    *)
(* server, and errors about its last sequence.                             *)
LEMMA TakenInAre ==
  ASSUME TInv, Posting, ~Refused, TakeIn
  PROVE  \A s \in Source :
           /\ server'.last[s] = IF s \in Fresh THEN Group.item[s].seq ELSE server.last[s]
           /\ server'.shown[s] = IF s \in FreshRolling THEN Group.item[s] ELSE server.shown[s]
           /\ server'.chunks[s] = IF s \in Fresh \ FreshRolling
                                  THEN server.chunks[s] \cup {Group.item[s].data}
                                  ELSE server.chunks[s]
           /\ server'.failing[s] =
                IF s \in FreshRolling THEN 0
                ELSE IF Group.errors /\ s \in Batch /\ server.last[s] = Group.item[s].seq
                THEN Group.item[s].at ELSE server.failing[s]
           /\ s \in FreshRolling <=> s \in Fresh /\ Group.item[s].data \in Content
           /\ s \in Fresh => s \in Batch /\ ~Group.errors /\ server.last[s] < Group.item[s].seq
           /\ s \in Batch /\ ~Group.errors /\ s \notin Fresh => ~(server.last[s] < Group.item[s].seq)
           /\ s \in Batch => Group.item[s] \in Items /\ Group.item[s].data \notin Bad
           /\ server.last[s] \in Nat /\ server'.last[s] \in Nat /\ server.last[s] <= server'.last[s]
<1>1. server \in Views /\ run.work # <<>>
  BY DEF TInv, Posting
<1>2. \A s \in Batch : Group.item[s] \in Items /\ Group.item[s].data \notin Bad
  BY <1>1, AtHand DEF Refused
<1>3. \A s \in Batch : Group.item[s].seq \in Nat
  BY <1>2
<1> HIDE DEF Items
<1>4. ASSUME NEW s \in Source
      PROVE  /\ server'.last[s] = IF s \in Fresh THEN Group.item[s].seq ELSE server.last[s]
             /\ server'.shown[s] = IF s \in FreshRolling THEN Group.item[s] ELSE server.shown[s]
             /\ server'.chunks[s] = IF s \in Fresh \ FreshRolling
                                    THEN server.chunks[s] \cup {Group.item[s].data}
                                    ELSE server.chunks[s]
             /\ server'.failing[s] =
                  IF s \in FreshRolling THEN 0
                  ELSE IF Group.errors /\ s \in Batch /\ server.last[s] = Group.item[s].seq
                  THEN Group.item[s].at ELSE server.failing[s]
  BY <1>1 DEF TakeIn, Views
<1>5. ASSUME NEW s \in Source
      PROVE  /\ s \in FreshRolling <=> s \in Fresh /\ Group.item[s].data \in Content
             /\ s \in Fresh => s \in Batch /\ ~Group.errors /\ server.last[s] < Group.item[s].seq
             /\ s \in Batch /\ ~Group.errors /\ s \notin Fresh => ~(server.last[s] < Group.item[s].seq)
             /\ server.last[s] \in Nat
  BY <1>1 DEF Fresh, FreshRolling, Views
<1>6. ASSUME NEW s \in Source
      PROVE  server'.last[s] \in Nat /\ server.last[s] <= server'.last[s]
  <2>1. server.last[s] \in Nat /\ server'.last[s] = IF s \in Fresh THEN Group.item[s].seq ELSE server.last[s]
    BY <1>4, <1>5
  <2>2. s \in Fresh => Group.item[s].seq \in Nat /\ server.last[s] < Group.item[s].seq
    BY <1>3, <1>5
  <2> DEFINE a == server.last[s]
             b == Group.item[s].seq
             c == server'.last[s]
  <2>3. a \in Nat /\ (c = a \/ (c = b /\ b \in Nat /\ a < b))
    BY <2>1, <2>2
  <2> HIDE DEF a, b, c
  <2>4. c \in Nat /\ a <= c
    BY <2>3
  <2> QED
    BY <2>4 DEF a, c
<1> QED
  BY <1>2, <1>4, <1>5, <1>6

(* A snapshot that is due is the payload of its source, if that is usage   *)
(* or a part of the history.                                               *)
LEMMA DueIsTask ==
  ASSUME TInv, DutyInv, run.stage = "after", NEW s \in Duty, Task(s).data # Error,
         NEW i \in DOMAIN run.work, ~run.work[i].errors, s \in Due(i)
  PROVE  run.work[i].item[s].data = Task(s).data /\ run.work[i].item[s].at = Task(s).at
<1>1. /\ pending[s] \in Snapshots /\ pending[s].data = run.work[i].item[s].data
      /\ pending[s].at = run.work[i].item[s].at
  BY DEF TInv, WorkOK, OnFile
<1>2. run.pc # "save"
  BY DEF TInv, RunOK, Delivering
<1>3. Mine(s)
  BY <1>2 DEF DutyInv, Stored
<1>4. pending[s] \in Items
  BY <1>1
<1> HIDE DEF Items
<1> QED
  BY <1>1, <1>3, <1>4, Kinds DEF Mine, Same

(* What was accepted stays accepted, and what is new to the server is       *)
(* accepted now.                                                           *)
LEMMA AcceptedNow ==
  ASSUME TInv, DutyInv, run.stage = "after", PostAnswered, NEW s \in Duty
  PROVE  /\ Accepted(s) => Accepted(s)'
         /\ s \in Fresh /\ Task(s).data # Error => Accepted(s)'
         /\ s \in Batch /\ Group.errors /\ Task(s).data = Error => Accepted(s)'
<1> USE ConstantsAssumption
<1>1. /\ Posting /\ ~Refused /\ TakeIn /\ run.work # <<>> /\ run.pc = "post"
      /\ UNCHANGED <<mem, quarantine>> /\ server \in Views
      /\ Collected /\ Stored
  BY DEF PostAnswered, Posting, At, files, TInv, DutyInv
<1>2. /\ Group = run.work[1] /\ 1 \in DOMAIN run.work /\ Due(1) = Batch
  BY <1>1, AtHand DEF Due
<1>3. /\ server'.last[s] = IF s \in Fresh THEN Group.item[s].seq ELSE server.last[s]
      /\ server'.shown[s] = IF s \in FreshRolling THEN Group.item[s] ELSE server.shown[s]
      /\ server'.chunks[s] = IF s \in Fresh \ FreshRolling
                             THEN server.chunks[s] \cup {Group.item[s].data}
                             ELSE server.chunks[s]
      /\ server'.failing[s] =
           IF s \in FreshRolling THEN 0
           ELSE IF Group.errors /\ s \in Batch /\ server.last[s] = Group.item[s].seq
           THEN Group.item[s].at ELSE server.failing[s]
      /\ s \in FreshRolling <=> s \in Fresh /\ Group.item[s].data \in Content
      /\ s \in Fresh => s \in Batch /\ ~Group.errors /\ server.last[s] < Group.item[s].seq
      /\ s \in Batch => Group.item[s] \in Items /\ Group.item[s].data \notin Bad
      /\ server.last[s] \in Nat /\ server'.last[s] \in Nat /\ server.last[s] <= server'.last[s]
  <2>1. s \in Source
    BY TaskIs
  <2> QED
    BY <1>1, <2>1, TakenInAre
<1>4. Task(s)' = Task(s) /\ Task(s) \in Items /\ s \in Source
  BY <1>1, TaskIs DEF Task
<1>5. Task(s).at \in Nat /\ Task(s).seq \in Nat
  BY <1>4
<1> HIDE DEF Items
<1>6. CASE Task(s).data = Error
  <2>1. Task(s).seq <= server.last[s]
    BY <1>1, <1>4, <1>6, TaskIs DEF Collected
  <2>2. CASE s \in Fresh
    <3>1. server'.last[s] > Task(s).seq
      <4>1. server.last[s] < server'.last[s]
        BY <1>3, <2>2
      <4> QED
        BY <1>3, <1>5, <2>1, <4>1
    <3> QED
      BY <1>3, <1>4, <1>6, <2>2, <3>1 DEF Accepted
  <2>3. CASE s \notin Fresh /\ s \in Batch /\ Group.errors
    <3>1. Group.item[s] = Task(s)
      BY <1>1, <1>2, <1>6, <2>3 DEF Stored, Batch
    <3>2. CASE server.last[s] = Task(s).seq
      <4>1. server'.failing[s] = Task(s).at
        BY <1>3, <2>3, <3>1, <3>2
      <4> QED
        BY <1>4, <1>6, <4>1 DEF Accepted
    <3>3. CASE server.last[s] # Task(s).seq
      <4>1. server'.last[s] > Task(s).seq
        BY <1>3, <1>5, <2>1, <2>3, <3>3
      <4> QED
        BY <1>4, <1>6, <4>1 DEF Accepted
    <3> QED
      BY <3>2, <3>3
  <2>4. CASE s \notin Fresh /\ ~(s \in Batch /\ Group.errors)
    <3>1. server'.failing[s] = server.failing[s] /\ server'.last[s] = server.last[s]
      BY <1>3, <2>4
    <3>2. Accepted(s) => Accepted(s)'
      <4>1. Task(s).data \notin Content /\ Task(s).data \notin Chunk /\ Task(s).data \notin Bad
        BY <1>6, Kinds
      <4> QED
        BY <1>4, <3>1, <4>1 DEF Accepted
    <3> QED
      BY <1>6, <2>4, <3>2
  <2> QED
    BY <2>2, <2>3, <2>4
<1>7. CASE Task(s).data # Error
  <2>1. CASE s \in Fresh
    <3>1. Group.item[s].data = Task(s).data /\ Group.item[s].at = Task(s).at
      BY <1>1, <1>2, <1>3, <1>7, <2>1, DueIsTask
    <3>2. Task(s).data \in Content \cup Chunk /\ Task(s).data \notin Bad
      <4>1. Task(s).data \in Content \cup {Error} \cup Chunk
        BY <1>4 DEF Items
      <4> QED
        BY <1>3, <1>7, <2>1, <3>1, <4>1
    <3>3. CASE Task(s).data \in Content
      <4>1. server'.shown[s].at = Task(s).at
        BY <1>3, <2>1, <3>1, <3>3
      <4>2. server'.shown[s].at >= Task(s).at
        BY <1>5, <4>1
      <4> QED
        BY <1>4, <1>7, <3>2, <3>3, <4>2 DEF Accepted
    <3>4. CASE Task(s).data \in Chunk /\ Task(s).data \notin Content
      <4>1. Task(s).data \in server'.chunks[s]
        BY <1>3, <2>1, <3>1, <3>4
      <4> QED
        BY <1>4, <1>7, <3>4, <4>1 DEF Accepted
    <3> QED
      BY <1>7, <3>2, <3>3, <3>4
  <2>2. CASE s \notin Fresh
    <3>1. server'.shown[s] = server.shown[s] /\ server'.chunks[s] = server.chunks[s]
      BY <1>3, <2>2
    <3> QED
      BY <1>1, <1>4, <1>7, <2>2, <3>1 DEF Accepted
  <2> QED
    BY <2>1, <2>2
<1> QED
  BY <1>6, <1>7

(* A request and its answer. *)
LEMMA DutyPost ==
  ASSUME TInv, DutyInv, PostAnswered \/ PostFails
  PROVE  DutyInv'
<1>1. /\ run \in Runs /\ run.work # <<>> /\ run.pc = "post" /\ UNCHANGED <<pending, error, quarantine, known, mapped>>
      /\ Collected /\ Stored /\ Sending /\ SentAgain /\ Heard /\ server \in Views
      /\ known \in [Source -> Nat]
  BY DEF PostAnswered, PostFails, Posting, At, files, config, TInv, RunOK, DiskOK, DutyInv
<1>2. ASSUME NEW s \in Source
      PROVE  known'[s] <= server'.last[s]
  <2>1. known[s] <= server.last[s] /\ known[s] \in Nat /\ server.last[s] \in Nat
    BY <1>1 DEF Heard, Views
  <2>2. CASE server' = server
    BY <1>1, <2>1, <2>2
  <2>3. CASE Posting /\ ~Refused /\ TakeIn
    <3>1. server'.last[s] \in Nat /\ server.last[s] <= server'.last[s]
      BY <2>3, TakenInAre
    <3> QED
      BY <1>1, <2>1, <3>1
  <2> QED
    BY <2>2, <2>3 DEF PostAnswered, PostFails
<1>3. CASE Leaves
  <2>1. run'.pc = "idle" /\ run'.stage = "before" /\ run'.pass = 1
    BY <1>3 DEF Leaves, Idle
  <2> QED
    BY <1>2, <2>1, NotSending
<1>4. ASSUME PostAnswered, NEW taken \in {{}, Fresh},
             run' = [run EXCEPT !.pc = "remember", !.taken = taken]
      PROVE  DutyInv'
  <2>1. /\ run'.pc = "remember" /\ run'.taken = taken /\ run'.work = run.work
        /\ run'.scope = run.scope /\ run'.pass = run.pass /\ run'.stale = run.stale
        /\ run'.retired = run.retired /\ run'.stage = run.stage
    <3> HIDE DEF Fresh
    <3> QED
      BY <1>1, <1>4 DEF Runs
  <2>2. /\ Posting /\ ~Refused /\ TakeIn /\ mem' = mem
    BY <1>4 DEF PostAnswered
  <2>3. /\ UNCHANGED <<Group, Batch>> /\ \A i \in DOMAIN run.work : Due(i)' = Due(i)
    BY <1>1, <2>1 DEF Group, Batch, Due
  <2>4. UNCHANGED <<Waiting(FALSE), Waiting(TRUE)>>
    BY <2>1, <2>3 DEF Waiting
  <2>5. Duty' = Duty /\ \A s : Task(s)' = Task(s) /\ InWork(s)' = InWork(s) /\ Mine(s)' = Mine(s)
    BY <1>1, <2>2, <2>4 DEF Duty, Task, InWork, Mine, Same
  <2>6. /\ Group = run.work[1] /\ 1 \in DOMAIN run.work /\ Due(1) = Batch /\ Batch \subseteq Source
        /\ \A s \in Batch : Group.item[s] \in Items
    BY <1>1, AtHand DEF Due
  <2>7. \A s \in Fresh : s \in Batch /\ ~Group.errors
    BY DEF Fresh
  <2>8. Fresh \subseteq Waiting(FALSE)
    BY <2>6, <2>7 DEF Waiting
  <2>9. ASSUME ~Group.errors, NEW s \in Batch
        PROVE  Group.item[s].seq <= server'.last[s] /\ Group.item[s].data \notin Bad
    <3>1. /\ server'.last[s] = IF s \in Fresh THEN Group.item[s].seq ELSE server.last[s]
          /\ s \notin Fresh => ~(server.last[s] < Group.item[s].seq)
          /\ Group.item[s].data \notin Bad /\ server.last[s] \in Nat /\ s \in Source
      BY <2>2, <2>6, <2>9, TakenInAre
    <3>2. Group.item[s].seq \in Nat
      BY <2>6
    <3>3. Group.item[s].seq <= server'.last[s]
      <4> DEFINE a == Group.item[s].seq
                 b == server.last[s]
                 c == server'.last[s]
      <4>1. a \in Nat /\ b \in Nat /\ (c = a \/ (c = b /\ ~(b < a)))
        BY <3>1, <3>2
      <4> HIDE DEF a, b, c
      <4>2. a <= c
        BY <4>1
      <4> QED
        BY <4>2 DEF a, c
    <3> QED
      BY <3>1, <3>3
  <2>10. CASE run.stage # "after"
    <3>1. Collected' /\ Stored' /\ Sending' /\ SentAgain' /\ Ended'
      BY <1>1, <2>1, <2>10 DEF Collected, Stored, Sending, SentAgain, Ended, Delivering
    <3>2. Heard'
      BY <1>2, <2>1, <2>3, <2>9, <2>10 DEF Heard
    <3> QED
      BY <3>1, <3>2 DEF DutyInv
  <2>11. CASE run.stage = "after"
    <3>1. \A s \in Duty : /\ Accepted(s) => Accepted(s)'
                          /\ s \in Fresh /\ Task(s).data # Error => Accepted(s)'
                          /\ s \in Batch /\ Group.errors /\ Task(s).data = Error => Accepted(s)'
      BY <1>4, <2>11, AcceptedNow
    <3>2. \A s \in Source : /\ server.last[s] \in Nat /\ server'.last[s] \in Nat
                            /\ server.last[s] <= server'.last[s]
                            /\ s \notin Fresh => server'.last[s] = server.last[s]
      BY <2>2, TakenInAre
    <3>3. Collected'
      <4>1. ASSUME NEW s \in Source, mem.intent[s] # None, Task(s).data = Error
            PROVE  Task(s).seq <= server'.last[s]
        <5>1. Task(s).seq <= server.last[s] /\ Task(s) \in Items
          <6> HIDE DEF Items
          <6>1. mem.intent \in [Source -> Items \cup {None}]
            BY DEF TInv, DiskOK
          <6> QED
            BY <1>1, <2>11, <4>1, <6>1 DEF Collected, Task
        <5>2. Task(s).seq \in Nat
          BY <5>1
        <5> QED
          BY <3>2, <5>1, <5>2
      <4> QED
        BY <1>1, <2>1, <2>2, <2>5, <2>11, <4>1 DEF Collected
    <3>4. Stored'
      BY <1>1, <2>1, <2>5, <2>11 DEF Stored, Delivering
    <3>5. ASSUME run.pass = 2, NEW s \in Duty, NEW i \in DOMAIN run.work,
                 ~run.work[i].errors, s \in Due(i), Task(s).data # Error
          PROVE  Accepted(s)' \/ server'.last[s] < run.work[i].item[s].seq
      <4>1. Accepted(s) \/ server.last[s] < run.work[i].item[s].seq
        BY <1>1, <2>11, <3>5 DEF Sending, Unseen, Delivering
      <4>2. s \in Source
        BY TaskIs
      <4> QED
        BY <3>1, <3>2, <3>5, <4>1, <4>2
    <3>6. \A s \in run.stale : pending[s] \in Items /\ server'.last[s] < pending[s].seq
      <4>1. \A s \in run.stale : s \in Source /\ s \notin Fresh
        BY <1>1, <2>8, <2>11 DEF Sending, Delivering, Runs
      <4>2. \A s \in run.stale : pending[s] \in Items /\ server.last[s] < pending[s].seq
        BY <1>1, <2>11 DEF Sending, Unseen, Delivering
      <4> QED
        BY <3>2, <4>1, <4>2
    <3>7. \A s \in Duty : \/ Accepted(s)' \/ s \in run.retired \/ InWork(s)
                          \/ run.pass = 1 /\ s \in run.stale /\ Task(s).data # Error
      BY <1>1, <2>11, <3>1 DEF Sending, Delivering
    <3>8. Sending'
      <4>1. run'.stale \cap Waiting(FALSE)' = {}
        BY <1>1, <2>1, <2>4, <2>11 DEF Sending, Delivering
      <4>2. \A s \in run'.stale : pending'[s] \in Items /\ Unseen(s, pending[s])'
        BY <1>1, <2>1, <3>6 DEF Unseen
      <4>3. \A s \in Duty' : \/ Accepted(s)' \/ s \in run'.retired \/ InWork(s)'
                             \/ run'.pass = 1 /\ s \in run'.stale /\ Task(s)'.data # Error
        BY <2>1, <2>5, <3>7
      <4>4. run'.pass = 2 => \A s \in Duty' : \A i \in DOMAIN run'.work :
              ~run'.work[i].errors /\ s \in Due(i)' /\ Task(s)'.data # Error =>
                Accepted(s)' \/ Unseen(s, run.work[i].item[s])'
        BY <2>1, <2>3, <2>5, <3>5 DEF Unseen
      <4> QED
        BY <4>1, <4>2, <4>3, <4>4 DEF Sending
    <3>9. ASSUME NEW s \in Batch \cap Duty, Task(s).data = Error <=> Group.errors, ~Stale(s)'
          PROVE  Accepted(s)'
      BY <2>1, <2>3, <3>1, <3>9 DEF Stale
    <3>10. Heard'
      BY <1>2, <2>1, <2>3, <2>5, <2>9, <3>9 DEF Heard
    <3>11. SentAgain' /\ Ended'
      BY <2>1 DEF SentAgain, Ended, Delivering
    <3> QED
      BY <3>3, <3>4, <3>8, <3>10, <3>11 DEF DutyInv
  <2> QED
    BY <2>10, <2>11
<1> QED
  BY <1>1, <1>3, <1>4, PostRun DEF PostFails, PostAnswered

(* A refusal: what the server will never take is set aside, and a source   *)
(* that it does not know is retired.                                       *)
LEMMA DutyRefused ==
  ASSUME TInv, DutyInv, Bisect \/ RefuseOne \/ DropRetired
  PROVE  DutyInv'
<1>1. /\ run.work # <<>> /\ run.pc = "post" /\ run'.pc = "post" /\ run'.scope = run.scope
      /\ run'.pass = run.pass /\ run'.stale = run.stale /\ run'.stage = run.stage
      /\ UNCHANGED <<mem, known, mapped, server>>
      /\ (run'.retired = run.retired \/ RefuseOne)
      /\ Collected /\ Stored /\ Sending /\ SentAgain /\ Heard /\ FilesOK /\ run \in Runs
  BY RefusedRun DEF DutyInv, TInv, RunOK
<1>2. Group = run.work[1] /\ 1 \in DOMAIN run.work /\ Batch = Group.of /\ Batch \subseteq Source
      /\ Due(1) = Batch /\ Group.errors \in BOOLEAN
      /\ \A s \in Batch : Group.item[s] \in (IF Group.errors THEN Failures ELSE Snapshots)
  <2>1. Group \in Groups
    BY <1>1, AtHand
  <2> QED
    BY <1>1, <2>1, AtHand DEF Due, Groups
<1>3. Duty' = Duty /\ \A s : Task(s)' = Task(s)
  BY <1>1 DEF Duty, Task
<1>4. ASSUME RefuseOne
      PROVE  \E q \in Batch :
               /\ Batch = {q}
               /\ \A s \in Source : s # q => /\ pending'[s] = pending[s] /\ error'[s] = error[s]
                                             /\ quarantine'[s] = quarantine[s]
               /\ pending'[q] = IF Group.errors THEN pending[q] ELSE None
               /\ error'[q] = IF Group.errors THEN None ELSE error[q]
               /\ \/ /\ Group.item[q].data \in Bad /\ quarantine'[q] = Group.item[q].data
                     /\ run'.retired = run.retired
                  \/ /\ Group.item[q].data \notin Bad /\ quarantine'[q] = quarantine[q]
                     /\ run'.retired = run.retired \cup {q}
  <2>1. PICK q \in Batch :
          /\ Batch = {q} /\ RemoveFile(q)
          /\ IF Group.item[q].data \in Bad
             THEN /\ quarantine' = [quarantine EXCEPT ![q] = Group.item[q].data]
                  /\ run' = [run EXCEPT !.work = Tail(@), !.blocked = @ \cup {q}]
             ELSE /\ run' = [run EXCEPT !.work = Tail(@), !.retired = @ \cup {q}]
                  /\ UNCHANGED quarantine
    BY <1>4 DEF RefuseOne
  <2>2. /\ \A s \in Source : s # q => pending'[s] = pending[s] /\ error'[s] = error[s]
        /\ pending'[q] = IF Group.errors THEN pending[q] ELSE None
        /\ error'[q] = IF Group.errors THEN None ELSE error[q]
    BY <1>1, <1>2, <2>1 DEF RemoveFile, FilesOK
  <2>3. run'.retired = IF Group.item[q].data \in Bad THEN run.retired ELSE run.retired \cup {q}
    BY <1>1, <2>1 DEF Runs
  <2>4. /\ \A s \in Source : s # q => quarantine'[s] = quarantine[s]
        /\ quarantine'[q] = IF Group.item[q].data \in Bad THEN Group.item[q].data ELSE quarantine[q]
    BY <1>1, <1>2, <2>1 DEF FilesOK
  <2> QED
    BY <2>1, <2>2, <2>3, <2>4
<1>5. ~RefuseOne => /\ UNCHANGED <<pending, quarantine>>
                    /\ \A s \in Source : error'[s] \in {error[s], None}
  BY <1>1 DEF Bisect, DropRetired, files, FilesOK
<1>6. CASE run.stage # "after"
  BY <1>1, <1>6, NotSending DEF Heard, Delivering
<1>7. CASE run.stage = "after"
  <2>1. ASSUME NEW s \in Duty, RefuseOne, s \in Batch, Group.errors <=> Task(s).data = Error
        PROVE  Accepted(s)' \/ s \in run'.retired
    <3>1. PICK q \in Batch : /\ Batch = {q}
                             /\ \/ Group.item[q].data \in Bad /\ quarantine'[q] = Group.item[q].data
                                \/ run'.retired = run.retired \cup {q}
      BY <1>4, <2>1
    <3>2. CASE Group.item[q].data \in Bad /\ quarantine'[q] = Group.item[q].data
      <4>1. ~Group.errors
        BY <1>2, <3>2, Kinds
      <4>2. Task(s).data = Group.item[s].data
        BY <1>2, <1>7, <2>1, <4>1, DueIsTask
      <4> QED
        BY <1>3, <2>1, <3>1, <3>2, <4>2 DEF Accepted
    <3> QED
      BY <2>1, <3>1, <3>2
  <2>2. ASSUME NEW s \in Duty, Accepted(s)
        PROVE  Accepted(s)'
    <3>1. CASE quarantine'[s] = quarantine[s]
      BY <1>1, <1>3, <2>2, <3>1 DEF Accepted
    <3>2. CASE quarantine'[s] # quarantine[s]
      <4>1. s \in Source
        BY TaskIs
      <4>2. RefuseOne /\ s \in Batch /\ Group.item[s].data \in Bad /\ quarantine'[s] = Group.item[s].data
        BY <1>4, <1>5, <3>2, <4>1
      <4>3. ~Group.errors
        BY <1>2, <4>2, Kinds
      <4>4. CASE Task(s).data \in Bad
        <5>1. Task(s).data = Group.item[s].data
          BY <1>2, <1>7, <4>2, <4>3, <4>4, DueIsTask, Kinds
        <5> QED
          BY <1>3, <4>2, <5>1 DEF Accepted
      <4>5. CASE Task(s).data \notin Bad
        BY <1>1, <1>3, <2>2, <4>5 DEF Accepted
      <4> QED
        BY <4>4, <4>5
    <3> QED
      BY <3>1, <3>2
  <2>3. Collected'
    BY <1>1, <1>3 DEF Collected, Task
  <2>4. Stored'
    <3>1. \A s \in Duty : Mine(s)
      BY <1>1, <1>7 DEF Stored
    <3>2. ASSUME NEW s \in Duty
          PROVE  Mine(s)'
      <4>1. pending'[s] \in {pending[s], None} /\ error'[s] \in {error[s], None}
        BY <1>4, <1>5, TaskIs
      <4> QED
        BY <1>3, <3>1, <4>1 DEF Mine, Same
    <3>3. ASSUME NEW i \in DOMAIN run'.work, run'.work[i].errors, NEW s \in Duty \cap run'.work[i].of,
                 Task(s).data = Error
          PROVE  run'.work[i].item[s] = Task(s)
      <4>1. PICK j \in DOMAIN run.work : /\ run'.work[i].item = run.work[j].item
                                         /\ run'.work[i].errors = run.work[j].errors
                                         /\ run'.work[i].of \subseteq run.work[j].of
        BY WorkFrom
      <4>2. s \in Duty \cap run.work[j].of /\ run.work[j].errors
        BY <3>3, <4>1
      <4> QED
        BY <1>1, <1>7, <3>3, <4>1, <4>2 DEF Stored
    <3> QED
      BY <1>1, <1>3, <3>2, <3>3 DEF Stored, Delivering
  <2>5. ASSUME NEW s \in Duty, InWork(s)
        PROVE  Accepted(s)' \/ s \in run'.retired \/ InWork(s)'
    <3>1. PICK e \in BOOLEAN : (e <=> Task(s).data = Error) /\ s \in Waiting(e)
      BY <2>5 DEF InWork
    <3>2. \/ s \in Waiting(e)'
          \/ RefuseOne /\ s \in Batch /\ (Group.errors <=> e)
          \/ s \in run.retired
      BY <3>1, RefusedWaiting
    <3>3. CASE s \in Waiting(e)'
      <4>1. CASE e = TRUE
        BY <1>3, <3>1, <3>3, <4>1 DEF InWork
      <4>2. CASE e = FALSE
        BY <1>3, <3>1, <3>3, <4>2 DEF InWork
      <4> QED
        BY <4>1, <4>2
    <3>4. CASE RefuseOne /\ s \in Batch /\ (Group.errors <=> e)
      BY <2>1, <3>1, <3>4
    <3>5. CASE s \in run.retired
      BY <1>1, <1>4, <3>5
    <3> QED
      BY <3>2, <3>3, <3>4, <3>5
  <2>6. ASSUME NEW s \in run.stale
        PROVE  pending'[s] = pending[s]
    <3>1. s \in Source /\ s \notin Waiting(FALSE)
      BY <1>1, <1>7 DEF Sending, Delivering, Runs
    <3>2. s \in Batch => Group.errors
      BY <1>2, <3>1 DEF Waiting
    <3> QED
      BY <1>4, <1>5, <3>1, <3>2
  <2>7. Sending'
    <3>1. run'.stale \cap Waiting(FALSE)' = {}
      BY <1>1, <1>7, RefusedWaiting DEF Sending, Delivering
    <3>2. \A s \in run'.stale : pending'[s] \in Items /\ Unseen(s, pending[s])'
      BY <1>1, <1>7, <2>6 DEF Sending, Delivering, Unseen
    <3>3. ASSUME NEW s \in Duty
          PROVE  \/ Accepted(s)' \/ s \in run'.retired \/ InWork(s)'
                 \/ run.pass = 1 /\ s \in run.stale /\ Task(s).data # Error
      <4>1. \/ Accepted(s) \/ s \in run.retired \/ InWork(s)
            \/ run.pass = 1 /\ s \in run.stale /\ Task(s).data # Error
        BY <1>1, <1>7 DEF Sending, Delivering
      <4>2. s \in run.retired => s \in run'.retired
        BY <1>1, <1>4
      <4> QED
        BY <2>2, <2>5, <4>1, <4>2
    <3>4. ASSUME run.pass = 2, NEW s \in Duty, NEW i \in DOMAIN run'.work,
                 ~run'.work[i].errors, s \in Due(i)', Task(s).data # Error
          PROVE  Accepted(s)' \/ Unseen(s, run.work[i].item[s])'
      <4>1. PICK j \in DOMAIN run.work : /\ ~run.work[j].errors /\ s \in Due(j)
                                         /\ run'.work[i].item = run.work[j].item
        BY <3>4, RefusedAwaited, TaskIs
      <4>2. Accepted(s) \/ server.last[s] < run.work[j].item[s].seq
        BY <1>1, <1>7, <3>4, <4>1 DEF Sending, Delivering, Unseen
      <4> QED
        BY <1>1, <2>2, <4>1, <4>2 DEF Unseen
    <3> QED
      BY <1>1, <1>3, <3>1, <3>2, <3>3, <3>4 DEF Sending
  <2>8. SentAgain' /\ Heard' /\ Ended'
    BY <1>1 DEF SentAgain, Heard, Ended, Delivering
  <2> QED
    BY <2>3, <2>4, <2>7, <2>8 DEF DutyInv
<1> QED
  BY <1>6, <1>7

(* The connector writes down where the server is. *)
LEMMA DutyRemember ==
  ASSUME TInv, DutyInv, Remember
  PROVE  DutyInv'
<1>1. /\ run \in Runs /\ run.work # <<>> /\ run.pc = "remember"
      /\ UNCHANGED <<mem, pending, error, quarantine, mapped, server>>
      /\ Collected /\ Stored /\ Sending /\ SentAgain /\ Heard /\ server \in Views
      /\ run' = [run EXCEPT !.pc = "ack", !.todo = Batch]
      /\ known' = [s \in Source |-> IF s \in Batch THEN server.last[s] ELSE known[s]]
  BY DEF Remember, At, files, TInv, RunOK, DutyInv
<1>2. /\ run'.pc = "ack" /\ run'.todo = Batch /\ run'.taken = run.taken /\ run'.work = run.work
      /\ run'.scope = run.scope /\ run'.pass = run.pass /\ run'.stale = run.stale
      /\ run'.retired = run.retired /\ run'.stage = run.stage
  BY <1>1 DEF Runs
<1>3. Group = run.work[1] /\ 1 \in DOMAIN run.work /\ Batch = Group.of /\ Batch \subseteq Source
  BY <1>1, AtHand
<1>4. UNCHANGED <<Group, Batch>> /\ \A i \in DOMAIN run.work : Due(i)' = Due(i)
  BY <1>1, <1>2, <1>3 DEF Group, Batch, Due
<1>5. UNCHANGED <<Waiting(FALSE), Waiting(TRUE)>>
  BY <1>2, <1>4 DEF Waiting
<1>6. Duty' = Duty /\ \A s : /\ Task(s)' = Task(s) /\ Accepted(s)' = Accepted(s)
                             /\ InWork(s)' = InWork(s) /\ Mine(s)' = Mine(s) /\ Stale(s)' = Stale(s)
  BY <1>1, <1>2, <1>4, <1>5 DEF Duty, Task, Accepted, InWork, Mine, Same, Stale
<1>7. Collected' /\ Stored'
  BY <1>1, <1>2, <1>6 DEF Collected, Stored, Delivering
<1>8. Sending'
  <2>1. CASE run.stage = "after"
    <3>1. run'.stale \cap Waiting(FALSE)' = {}
      BY <1>1, <1>2, <1>5, <2>1 DEF Sending, Delivering
    <3>2. \A s \in run'.stale : pending'[s] \in Items /\ Unseen(s, pending[s])'
      BY <1>1, <1>2, <2>1 DEF Sending, Delivering, Unseen
    <3>3. \A s \in Duty' : \/ Accepted(s)' \/ s \in run'.retired \/ InWork(s)'
                           \/ run'.pass = 1 /\ s \in run'.stale /\ Task(s)'.data # Error
      BY <1>1, <1>2, <1>6, <2>1 DEF Sending, Delivering
    <3>4. run'.pass = 2 => \A s \in Duty' : \A i \in DOMAIN run'.work :
            ~run'.work[i].errors /\ s \in Due(i)' /\ Task(s)'.data # Error =>
              Accepted(s)' \/ Unseen(s, run.work[i].item[s])'
      BY <1>1, <1>2, <1>4, <1>6, <2>1 DEF Sending, Delivering, Unseen
    <3> QED
      BY <3>1, <3>2, <3>3, <3>4 DEF Sending
  <2>2. CASE run.stage # "after"
    BY <1>2, <2>2 DEF Sending
  <2> QED
    BY <2>1, <2>2
<1>9. /\ \A s \in Source : known'[s] <= server.last[s]
      /\ \A s \in Batch : known'[s] = server.last[s]
  <2>1. \A s \in Source : known[s] <= server.last[s] /\ server.last[s] \in Nat
    BY <1>1 DEF Heard, Views
  <2> QED
    BY <1>1, <1>3, <2>1
<1>10. Heard'
  BY <1>1, <1>2, <1>4, <1>6, <1>9 DEF Heard
<1> QED
  BY <1>1, <1>2, <1>7, <1>8, <1>10 DEF DutyInv, SentAgain, Ended, Delivering

(* One source of an answered batch: a stale snapshot gets a sequence the   *)
(* server has not seen.                                                    *)
LEMMA DutyAck ==
  ASSUME TInv, DutyInv, NEW q \in Source, Ack(q)
  PROVE  DutyInv'
<1>1. /\ run \in Runs /\ run.work # <<>> /\ run.pc = "ack" /\ q \in run.todo
      /\ UNCHANGED <<mem, quarantine, known, mapped, server>>
      /\ Collected /\ Stored /\ Sending /\ SentAgain /\ Heard
      /\ run' = [run EXCEPT !.pc = "acked", !.cur = q] /\ run.todo \subseteq Batch
      /\ FilesOK /\ WorkOK /\ server \in Views
  BY DEF Ack, At, config, TInv, RunOK, DutyInv
<1>2. /\ run'.pc = "acked" /\ run'.cur = q /\ run'.todo = run.todo /\ run'.taken = run.taken
      /\ run'.work = run.work /\ run'.scope = run.scope /\ run'.pass = run.pass
      /\ run'.stale = run.stale /\ run'.retired = run.retired /\ run'.stage = run.stage
  BY <1>1 DEF Runs
<1>3. Group = run.work[1] /\ 1 \in DOMAIN run.work /\ Batch = Group.of /\ q \in Due(1) /\ Due(1) = run.todo
  BY <1>1, AtHand DEF Due
<1>4. UNCHANGED <<Group, Batch>> /\ \A i \in DOMAIN run.work : Due(i)' = Due(i)
  BY <1>1, <1>2 DEF Group, Batch, Due
<1>5. UNCHANGED <<Waiting(FALSE), Waiting(TRUE)>>
  BY <1>2, <1>4 DEF Waiting
<1>6. Duty' = Duty /\ \A s : /\ Task(s)' = Task(s) /\ Accepted(s)' = Accepted(s)
                             /\ InWork(s)' = InWork(s) /\ Stale(s)' = Stale(s)
  BY <1>1, <1>2, <1>4, <1>5 DEF Duty, Task, Accepted, InWork, Stale
<1>7. known[q] = server.last[q] /\ server.last[q] \in Nat
  BY <1>1 DEF Heard, Views
<1>8. Stale(q) => /\ pending[q] \in Snapshots /\ pending'[q] = [pending[q] EXCEPT !.seq = known[q] + 1]
                  /\ error'[q] = None
                  /\ \A s \in Source : s # q => pending'[s] = pending[s] /\ error'[s] = error[s]
  BY <1>1, <1>3 DEF Ack, Stale, WorkOK, OnFile, FilesOK
<1>9. Stale(q) => /\ pending[q] \in Items /\ pending'[q] \in Items /\ pending'[q].seq = known[q] + 1
                  /\ pending'[q].data = pending[q].data /\ pending'[q].at = pending[q].at
  <2>1. known[q] + 1 \in Nat
    BY DEF TInv, DiskOK
  <2> QED
    BY <1>8, <2>1
<1>10. ~Stale(q) => pending' = pending /\ error' = error
  BY DEF Ack
<1>11. Stale(q) => q \in Waiting(FALSE)
  BY <1>3 DEF Waiting, Stale
<1>12. Stale(q) => server.last[q] < pending'[q].seq
  BY <1>7, <1>9
<1> HIDE DEF Items, Snapshots
<1>13. ASSUME NEW s \in Duty, Mine(s)
       PROVE  Mine(s)'
  <2>1. s \in Source
    BY TaskIs
  <2>2. CASE Stale(q) /\ s = q
    BY <1>6, <1>8, <1>9, <1>13, <2>2, Kinds DEF Mine, Same
  <2>3. CASE ~(Stale(q) /\ s = q)
    <3>1. pending'[s] = pending[s] /\ error'[s] = error[s]
      BY <1>8, <1>10, <2>1, <2>3
    <3> QED
      BY <1>6, <1>13, <3>1 DEF Mine, Same
  <2> QED
    BY <2>2, <2>3
<1>14. Collected' /\ Stored'
  BY <1>1, <1>2, <1>6, <1>13 DEF Collected, Stored, Delivering
<1>15. Sending'
  <2>1. CASE run.stage = "after"
    <3>1. ASSUME NEW s \in run.stale
          PROVE  pending'[s] = pending[s]
      <4>1. s \in Source /\ (s # q \/ ~Stale(q))
        BY <1>1, <1>11, <2>1 DEF Sending, Delivering, Runs
      <4> QED
        BY <1>8, <1>10, <4>1
    <3>2. run'.stale \cap Waiting(FALSE)' = {}
      BY <1>1, <1>2, <1>5, <2>1 DEF Sending, Delivering
    <3>3. \A s \in run'.stale : pending'[s] \in Items /\ Unseen(s, pending[s])'
      BY <1>1, <1>2, <2>1, <3>1 DEF Sending, Delivering, Unseen
    <3> QED
      BY <1>1, <1>2, <1>4, <1>6, <2>1, <3>2, <3>3 DEF Sending, Unseen, Delivering
  <2>2. CASE run.stage # "after"
    BY <1>2, <2>2 DEF Sending
  <2> QED
    BY <2>1, <2>2
<1>16. Heard'
  BY <1>1, <1>2, <1>4, <1>6, <1>12 DEF Heard, Unseen
<1> QED
  BY <1>1, <1>2, <1>14, <1>15, <1>16 DEF DutyInv, SentAgain, Ended, Delivering

(* What was accepted needs its file no longer; what was stale is sent once *)
(* more, and in the second pass nothing can be stale that is not accepted. *)
LEMMA DutyAcked ==
  ASSUME TInv, DutyInv, Acked
  PROVE  DutyInv'
<1> DEFINE q == run.cur
<1>1. /\ run.work # <<>> /\ run.pc = "acked" /\ q \in run.todo /\ run.todo \subseteq Batch
      /\ run \in Runs /\ FilesOK /\ WorkOK /\ server \in Views
      /\ Collected /\ Stored /\ Sending /\ SentAgain /\ Heard
      /\ UNCHANGED <<mem, known, mapped, server>> /\ run.stale \subseteq Source
  BY DEF TInv, RunOK, Runs, DutyInv, Acked, At, config
<1>2. Group = run.work[1] /\ 1 \in DOMAIN run.work /\ Batch = Group.of /\ Batch \subseteq Source
      /\ Due(1) = run.todo /\ Group.errors \in BOOLEAN
  <2>1. Group \in Groups
    BY <1>1, AtHand
  <2> QED
    BY <1>1, <2>1, AtHand DEF Due, Groups
<1>3. /\ run'.scope = run.scope /\ run'.pass = run.pass /\ run'.retired = run.retired
      /\ run'.taken = run.taken /\ run'.stage = run.stage /\ run'.todo = run.todo \ {q}
      /\ run'.stale = (IF Stale(q) THEN run.stale \cup {q} ELSE run.stale)
      /\ run'.pc \in {"post", "ack"} /\ (run'.pc = "ack" => run'.work = run.work)
  BY AckedGoes
<1>4. /\ \A s \in Source : s # q => /\ pending'[s] = pending[s] /\ error'[s] = error[s]
                                    /\ quarantine'[s] = quarantine[s]
      /\ Stale(q) => UNCHANGED <<pending, error, quarantine>>
      /\ pending'[q] = IF Group.errors \/ Stale(q) THEN pending[q] ELSE None
      /\ error'[q] \in {error[q], None}
      /\ quarantine'[q] = IF Group.errors \/ Stale(q) THEN quarantine[q] ELSE None
  <2>1. CASE Stale(q)
    BY <1>1, <2>1 DEF Acked, files
  <2>2. CASE ~Stale(q)
    BY <1>1, <1>2, <2>2 DEF Acked, RemoveFile, FilesOK
  <2> QED
    BY <2>1, <2>2
<1>5. Duty' = Duty /\ \A s : Task(s)' = Task(s)
  BY <1>1 DEF Duty, Task
<1>6. \A s \in Duty : s \in Source
  BY TaskIs
<1>7. Stale(q) => ~Group.errors
  BY DEF Stale
<1> HIDE DEF q, Items, Snapshots, StateType
<1>8. CASE run.stage # "after"
  <2>1. Collected' /\ Stored' /\ Sending' /\ SentAgain' /\ Ended'
    BY <1>1, <1>3, <1>8 DEF Collected, Stored, Sending, SentAgain, Ended, Delivering
  <2>2. CASE run'.pc = "post"
    BY <1>1, <2>1, <2>2 DEF DutyInv, Heard
  <2>3. CASE run'.pc = "ack"
    <3>1. Group' = Group /\ Batch' = Batch
      BY <1>3, <2>3 DEF Group, Batch
    <3> QED
      BY <1>1, <1>3, <1>8, <2>1, <2>3, <3>1 DEF DutyInv, Heard
  <2> QED
    BY <1>3, <2>2, <2>3
<1>9. CASE run.stage = "after"
  <2>1. ASSUME q \in Duty, Task(q).data # Error, ~Group.errors
        PROVE  Task(q).data = Group.item[q].data /\ Task(q).data \notin Bad
    BY <1>1, <1>2, <1>9, <2>1, DueIsTask DEF Heard
  <2>2. ASSUME NEW s \in Duty, Accepted(s)
        PROVE  Accepted(s)'
    <3>1. CASE quarantine'[s] = quarantine[s]
      BY <1>1, <1>5, <2>2, <3>1 DEF Accepted
    <3>2. CASE quarantine'[s] # quarantine[s]
      <4>1. s = q /\ ~Group.errors
        BY <1>4, <1>6, <3>2
      <4>2. Task(s).data \notin Bad
        BY <2>1, <4>1, Kinds
      <4> QED
        BY <1>1, <1>5, <2>2, <4>2 DEF Accepted
    <3> QED
      BY <3>1, <3>2
  <2>3. ASSUME q \in Duty, Task(q).data = Error <=> Group.errors, ~Stale(q)
        PROVE  Accepted(q)
    BY <1>1, <1>9, <2>3 DEF Heard, q
  <2>4. Collected'
    BY <1>1, <1>3, <1>5 DEF Collected, Task
  <2>5. Stored'
    <3>1. \A s \in Duty : Mine(s)
      BY <1>1, <1>9 DEF Stored, Delivering
    <3>2. ASSUME NEW s \in Duty
          PROVE  Mine(s)'
      <4>1. pending'[s] \in {pending[s], None} /\ error'[s] \in {error[s], None}
        BY <1>4, <1>6
      <4> QED
        BY <1>5, <3>1, <4>1 DEF Mine, Same
    <3>3. ASSUME NEW i \in DOMAIN run'.work, run'.work[i].errors, NEW s \in Duty \cap run'.work[i].of,
                 Task(s).data = Error
          PROVE  run'.work[i].item[s] = Task(s)
      <4>1. PICK j \in DOMAIN run.work : /\ run'.work[i].item = run.work[j].item
                                         /\ run'.work[i].errors = run.work[j].errors
                                         /\ run'.work[i].of \subseteq run.work[j].of
        BY WorkFrom
      <4>2. s \in Duty \cap run.work[j].of /\ run.work[j].errors
        BY <3>3, <4>1
      <4> QED
        BY <1>1, <1>9, <3>3, <4>1, <4>2 DEF Stored
    <3> QED
      BY <1>3, <1>5, <3>2, <3>3 DEF Stored, Delivering
  <2>6. Waiting(FALSE)' \subseteq Waiting(FALSE) /\ (~Group.errors => q \notin Waiting(FALSE)')
    BY AckedWaiting DEF q
  <2>7. ASSUME q \in Duty, Task(q).data # Error, Stale(q), run.pass = 2
        PROVE  Accepted(q)
    <3>1. Accepted(q) \/ server.last[q] < Group.item[q].seq
      BY <1>1, <1>2, <1>7, <1>9, <2>7 DEF Sending, Delivering, Unseen
    <3>2. Group.item[q].seq <= server.last[q] /\ q \in Source
      BY <1>1, <1>2, <1>7, <2>7 DEF Heard
    <3>3. Group.item[q].seq \in Nat /\ server.last[q] \in Nat
      <4>1. Group.item[q] \in Snapshots
        BY <1>1, <1>2, <1>7, <2>7 DEF WorkOK, Filled
      <4> QED
        BY <1>1, <3>2, <4>1 DEF Snapshots, Views
    <3> QED
      BY <3>1, <3>2, <3>3
  <2>8. run.pass \in {1, 2}
    BY <1>1 DEF Runs
  <2>9. ASSUME NEW s \in Duty, InWork(s)
        PROVE  \/ Accepted(s) \/ InWork(s)'
               \/ run.pass = 1 /\ s \in run'.stale /\ Task(s).data # Error
    <3>1. PICK e \in BOOLEAN : (e <=> Task(s).data = Error) /\ s \in Waiting(e)
      BY <2>9 DEF InWork
    <3>2. s \in Waiting(e)' \/ (s = q /\ (Group.errors <=> e))
      BY <3>1, AckedWaiting DEF q
    <3>3. CASE s \in Waiting(e)'
      <4>1. CASE e = TRUE
        BY <1>5, <3>1, <3>3, <4>1 DEF InWork
      <4>2. CASE e = FALSE
        BY <1>5, <3>1, <3>3, <4>2 DEF InWork
      <4> QED
        BY <4>1, <4>2
    <3>4. CASE s = q /\ (Group.errors <=> e)
      <4>1. CASE Stale(q)
        BY <1>3, <1>7, <2>7, <2>8, <3>1, <3>4, <4>1
      <4>2. CASE ~Stale(q)
        BY <2>3, <3>1, <3>4, <4>2
      <4> QED
        BY <4>1, <4>2
    <3> QED
      BY <3>2, <3>3, <3>4
  <2>10. Sending'
    <3>1. run'.stale \cap Waiting(FALSE)' = {}
      <4>1. run.stale \cap Waiting(FALSE) = {}
        BY <1>1, <1>9 DEF Sending, Delivering
      <4> QED
        BY <1>3, <1>7, <2>6, <4>1
    <3>2. ASSUME NEW s \in run'.stale
          PROVE  pending'[s] \in Items /\ server.last[s] < pending'[s].seq
      <4>1. CASE s = q /\ Stale(q)
        <5>1. pending[q] \in Snapshots
          BY <1>1, <1>2, <1>7, <4>1 DEF WorkOK, OnFile
        <5>2. pending[q] \in Items
          BY <5>1 DEF Snapshots, Items
        <5> QED
          BY <1>1, <1>4, <4>1, <5>2 DEF Heard, Unseen, q
      <4>2. CASE ~(s = q /\ Stale(q))
        <5>1. s \in run.stale /\ s \in Source
          BY <1>1, <1>3, <4>2
        <5>2. pending[s] \in Items /\ server.last[s] < pending[s].seq /\ s \notin Waiting(FALSE)
          BY <1>1, <1>9, <5>1 DEF Sending, Unseen, Delivering
        <5>3. q \in Waiting(FALSE) \/ Group.errors
          BY <1>1, <1>2 DEF Waiting
        <5>4. pending'[s] = pending[s]
          BY <1>4, <5>1, <5>2, <5>3
        <5> QED
          BY <5>2, <5>4
      <4> QED
        BY <4>1, <4>2
    <3>3. ASSUME NEW s \in Duty
          PROVE  \/ Accepted(s)' \/ s \in run'.retired \/ InWork(s)'
                 \/ run.pass = 1 /\ s \in run'.stale /\ Task(s).data # Error
      <4>1. \/ Accepted(s) \/ s \in run.retired \/ InWork(s)
            \/ run.pass = 1 /\ s \in run.stale /\ Task(s).data # Error
        BY <1>1, <1>9 DEF Sending, Delivering
      <4> QED
        BY <1>3, <2>2, <2>9, <4>1
    <3>4. ASSUME run.pass = 2, NEW s \in Duty, NEW i \in DOMAIN run'.work,
                 ~run'.work[i].errors, s \in Due(i)', Task(s).data # Error
          PROVE  Accepted(s)' \/ server.last[s] < run'.work[i].item[s].seq
      <4>1. PICK j \in DOMAIN run.work : /\ ~run.work[j].errors /\ s \in Due(j)
                                         /\ run'.work[i].item = run.work[j].item
        BY <1>6, <3>4, AckedAwaited
      <4>2. Accepted(s) \/ server.last[s] < run.work[j].item[s].seq
        BY <1>1, <1>9, <3>4, <4>1 DEF Sending, Delivering, Unseen
      <4> QED
        BY <2>2, <4>1, <4>2
    <3>5. \A s \in run'.stale : pending'[s] \in Items /\ Unseen(s, pending[s])'
      BY <1>1, <3>2 DEF Unseen
    <3>6. \A s \in Duty' : \/ Accepted(s)' \/ s \in run'.retired \/ InWork(s)'
                           \/ run'.pass = 1 /\ s \in run'.stale /\ Task(s)'.data # Error
      BY <1>3, <1>5, <3>3
    <3>7. run'.pass = 2 => \A s \in Duty' : \A i \in DOMAIN run'.work :
            ~run'.work[i].errors /\ s \in Due(i)' /\ Task(s)'.data # Error =>
              Accepted(s)' \/ Unseen(s, run.work[i].item[s])'
      BY <1>1, <1>3, <1>5, <3>4 DEF Unseen
    <3> QED
      BY <3>1, <3>5, <3>6, <3>7 DEF Sending
  <2>11. Heard'
    <3>1. CASE run'.pc = "post"
      BY <1>1, <3>1 DEF Heard
    <3>2. CASE run'.pc = "ack"
      <4>1. Group' = Group /\ Batch' = Batch /\ \A s : Stale(s)' = Stale(s)
        BY <1>3, <3>2 DEF Group, Batch, Stale
      <4>2. \A s \in Batch \cap Duty : (Task(s).data = Error <=> Group.errors) /\ ~Stale(s) => Accepted(s)'
        BY <1>1, <1>9, <2>2 DEF Heard
      <4> QED
        BY <1>1, <1>5, <3>2, <4>1, <4>2 DEF Heard
    <3> QED
      BY <1>3, <3>1, <3>2
  <2>12. SentAgain' /\ Ended'
    BY <1>3 DEF SentAgain, Ended, Delivering
  <2> QED
    BY <2>4, <2>5, <2>10, <2>11, <2>12 DEF DutyInv
<1> QED
  BY <1>8, <1>9

(* When a drain is over everything has met its end, or is sent once more. *)
LEMMA DutySettle ==
  ASSUME TInv, DutyInv, Settle
  PROVE  DutyInv'
<1>1. /\ run \in Runs /\ run.work = <<>> /\ run.pc = "post" /\ UNCHANGED <<known, server>>
      /\ Collected /\ Stored /\ Sending /\ Heard /\ Retire(run.retired)
  BY DEF Settle, At, TInv, RunOK, DutyInv
<1>2. Waiting(FALSE) = {} /\ Waiting(TRUE) = {}
  BY <1>1 DEF Waiting
<1>3. \A s \in Source : known'[s] <= server'.last[s]
  BY <1>1 DEF Heard
<1> DEFINE again == run.stale # {} /\ run.pass = 1
           Goes(pass, pc) ==
             run' = [run EXCEPT !.pass = pass, !.blocked = run.blocked \cup run.retired, !.pc = pc]
<1>4. \/ run' = Idle
      \/ again /\ mem' = mem /\ Goes(2, "drain")
      \/ run.stage = "before" /\ Goes(1, "inspect")
      \/ ~again /\ run.stage # "before" /\ mem' = mem /\ Goes(1, "done")
  BY SettleRun DEF Leaves
<1>5. ASSUME mem' = mem, NEW s \in Duty'
      PROVE  /\ s \in Duty /\ s \notin run.retired /\ Task(s)' = Task(s)
             /\ pending'[s] = pending[s] /\ error'[s] = error[s]
             /\ Accepted(s)' = Accepted(s) /\ Mine(s)' = Mine(s)
  <2>1. s \in Source /\ s \in Duty /\ s \notin run.retired
    BY <1>1, <1>5 DEF Retire, Duty, TInv, DiskOK
  <2>2. /\ pending'[s] = pending[s] /\ error'[s] = error[s] /\ quarantine'[s] = quarantine[s]
        /\ Task(s)' = Task(s)
    BY <1>1, <1>5, <2>1 DEF Retire, Task
  <2> QED
    BY <1>1, <2>1, <2>2 DEF Accepted, Mine, Same
<1>6. ASSUME run.stage = "after", NEW s \in Duty, s \notin run.retired
      PROVE  Accepted(s) \/ (run.pass = 1 /\ s \in run.stale /\ Task(s).data # Error)
  BY <1>1, <1>2, <1>6 DEF Sending, InWork, Delivering
<1>7. CASE run' = Idle
  <2>1. run'.pc = "idle" /\ run'.stage = "before" /\ run'.pass = 1
    BY <1>7 DEF Idle
  <2> QED
    BY <1>3, <2>1, NotSending
<1>8. CASE again /\ mem' = mem /\ Goes(2, "drain")
  <2>1. run'.pc = "drain" /\ run'.pass = 2 /\ run'.scope = run.scope /\ run'.stage = run.stage
        /\ run'.work = <<>>
    BY <1>1, <1>8 DEF Runs
  <2>2. CASE run.stage # "after"
    BY <1>3, <2>1, <2>2, NotSending
  <2>3. CASE run.stage = "after"
    <3>1. \A s \in Duty : Mine(s)
      BY <1>1, <2>3 DEF Stored
    <3>2. \A s \in Duty' : Mine(s)'
      BY <1>5, <1>8, <3>1
    <3>3. Stored'
      BY <2>1, <3>2 DEF Stored
    <3>4. Collected'
      BY <1>1, <1>8, <2>1, <2>3 DEF Collected, Task
    <3>5. \A s \in run.stale : pending[s] \in Items /\ server.last[s] < pending[s].seq
      BY <1>1, <2>3 DEF Sending, Delivering, Unseen
    <3>6. ASSUME NEW s \in Duty'
          PROVE  \/ Accepted(s)'
                 \/ Task(s)'.data # Error /\ pending'[s] \in Items /\ server'.last[s] < pending'[s].seq
      BY <1>1, <1>5, <1>6, <1>8, <2>3, <3>5
    <3>7. SentAgain'
      BY <2>1, <3>6 DEF SentAgain, Unseen
    <3> QED
      BY <1>3, <2>1, <3>3, <3>4, <3>7 DEF DutyInv, Sending, Heard, Ended, Delivering
  <2> QED
    BY <2>2, <2>3
<1>9. CASE run.stage = "before" /\ Goes(1, "inspect")
  <2>1. run'.pc = "inspect" /\ run'.pass = 1 /\ run'.stage = "before"
    BY <1>1, <1>9 DEF Runs
  <2> QED
    BY <1>3, <2>1, NotSending
<1>10. CASE ~again /\ run.stage # "before" /\ mem' = mem /\ Goes(1, "done")
  <2>1. run'.pc = "done" /\ run'.pass = 1 /\ run'.scope = run.scope /\ run'.stage = run.stage
        /\ run'.work = <<>> /\ run.stage = "after"
    BY <1>1, <1>10 DEF Runs
  <2>2. \A s \in Duty' : Accepted(s)' /\ Mine(s)'
    <3>1. \A s \in Duty : Mine(s)
      BY <1>1, <2>1 DEF Stored
    <3> QED
      BY <1>5, <1>6, <1>10, <2>1, <3>1
  <2>3. Stored' /\ Ended'
    BY <2>1, <2>2 DEF Stored, Ended
  <2>4. Collected'
    BY <1>1, <1>10, <2>1 DEF Collected, Task
  <2> QED
    BY <1>3, <2>1, <2>3, <2>4 DEF DutyInv, Sending, SentAgain, Heard, Delivering
<1> QED
  BY <1>4, <1>7, <1>8, <1>9, <1>10

(* Every step keeps track of what was collected. *)
LEMMA DutyStep ==
  ASSUME TInv, DutyInv, [Next]_vars
  PROVE  DutyInv'
<1>1. CASE UNCHANGED vars \/ LoseState \/ Compaction \/ \E s \in Source : Change(s) \/ Disconnect(s)
  BY <1>1, DutyWorld
<1>2. CASE Deliver
  BY <1>2, DutyDrain, DutyPost, DutyRefused, DutyRemember, DutyAck, DutyAcked, DutySettle DEF Deliver
<1>3. CASE Begin \/ NextRange \/ End \/ InspectFails \/ CollectThrows \/ Crash \/ Recover
           \/ InspectSkipped
  BY <1>3, DutyRest
<1>4. CASE Persist \/ (\E s \in Source : Save(s)) \/ ClearIntent
  BY <1>4, DutySave
<1>5. CASE Inspect \/ Collect
  BY <1>5, DutyInspect, DutyCollect
<1> QED
  BY <1>1, <1>2, <1>3, <1>4, <1>5 DEF Next, RangeStep

(* A range that ends well has delivered all it collected: the server has   *)
(* taken it in, or refused it for good, or usage overtook an error.  No    *)
(* death, lost answer, lost state file, late compaction or disconnection   *)
(* makes the range end as if it had (deliverPendingGroup, drainPending,    *)
(* syncRange).                                                             *)
THEOREM Delivered == Spec => []DeliveredWhenDone
<1>1. Init => TInv /\ DutyInv
  BY TypeInit, DutyInit
<1>2. TInv /\ DutyInv /\ [Next]_vars => (TInv /\ DutyInv)'
  BY TypeStep, DutyStep
<1>3. DutyInv => DeliveredWhenDone
  BY DEF DutyInv, Ended, Duty, Accepted, Task, DeliveredWhenDone, At
<1> QED
  BY <1>1, <1>2, <1>3, PTL DEF Spec

=============================================================================
