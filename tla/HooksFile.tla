----------------------------- MODULE HooksFile -----------------------------
(***************************************************************************)
(* How the connector changes its entries in Cursor's hooks.json, which     *)
(* Cursor and the user edit without any lock.  Under its own lock it       *)
(* compares and swaps: the new document is staged, the current file is     *)
(* renamed to a recovery journal, and the stage is linked to the name only *)
(* if nobody has taken it meanwhile.  A mutation that finds journals of an *)
(* interrupted one recovers them first, displacing a concurrent file to a  *)
(* second journal, reconcile, to publish the merged document.              *)
(*                                                                         *)
(* A document is the sequence of its hook entries: those of others are     *)
(* numbered, the connector's is Own.  Every step of an editor is atomic.   *)
(* Files are compared by their contents: the code compares fingerprints,   *)
(* which also notice a file that was written back to what it had been.     *)
(***************************************************************************)
EXTENDS Naturals, SequencesExt, Lists

CONSTANTS
  Own,        \* the entry of the connector
  NoFile,     \* a name that does not exist
  MaxEdits,   \* edits by others; bounds the model
  MaxCrashes, \* crashes of the connector; bounds the model
  EditKinds   \* what editors do: "append", "prepend", "delete"

ASSUME HooksFileAssumption ==
  /\ MaxEdits \in Nat /\ MaxCrashes \in Nat
  /\ Own \notin 1 .. MaxEdits /\ EditKinds \subseteq {"append", "prepend", "delete"}
  /\ NoFile \notin Seq(1 .. MaxEdits \cup {Own})

Name == {"hooks", "recovery", "reconcile", "stage"}

VARIABLES
  goal,    \* the entry is to be added or removed
  file,    \* the document of each name, or NoFile
  linked,  \* names that are hard links to the file of hooks.json
  step,    \* of the connector
  memory,  \* the documents it has read, and the one it publishes
  attempt, \* of mutateHooksWithCas, from 0
  edits, deleted, crashes

hooksVars == <<goal, file, linked, step, memory, attempt, edits, deleted, crashes>>

Entries == 1 .. MaxEdits \cup {Own}
Documents == BoundedSeq(Entries, MaxEdits + 1)
Steps == {"idle", "recover", "classify", "restore", "restored", "displace", "displaced",
          "publish", "published", "check reconcile", "drop reconcile", "check recovery",
          "drop recovery", "read", "swap", "rename", "renamed", "link", "linked",
          "compare", "drop old", "put back", "give back", "again"}

HooksTypeOK ==
  /\ goal \in {"add", "remove"}
  /\ \A n \in Name : file[n] = NoFile \/ (IsInjective(file[n]) /\ Range(file[n]) \subseteq Entries)
  /\ linked \in SUBSET (Name \ {"hooks"})
  /\ step \in Steps
  /\ attempt \in 0 .. 1
  /\ edits \in 0 .. MaxEdits /\ deleted \in SUBSET (1 .. MaxEdits) /\ crashes \in 0 .. MaxCrashes

NoMemory == [n \in Name \cup {"seen"} |-> NoFile]

HooksInit ==
  /\ goal \in {"add", "remove"}
  /\ \E doc \in {NoFile, <<>>, <<Own>>} : file = [n \in Name |-> IF n = "hooks" THEN doc ELSE NoFile]
  /\ linked = {} /\ step = "idle" /\ memory = NoMemory
  /\ attempt = 0 /\ edits = 0 /\ deleted = {} /\ crashes = 0

----------------------------------------------------------------------------
(* Names and links *)

Free(n) == file[n] = NoFile

(* link(from, hooks.json), where the name is free. *)
Publish(from) ==
  /\ file' = [file EXCEPT !["hooks"] = file[from]]
  /\ linked' = {from}

(* rename(hooks.json, to) *)
Displace(to) ==
  /\ file' = [file EXCEPT !["hooks"] = NoFile, ![to] = file["hooks"]]
  /\ linked' = {}

Unlink(names) ==
  /\ file' = [n \in Name |-> IF n \in names THEN NoFile ELSE file[n]]
  /\ linked' = linked \ names

To(next) == step' = next /\ UNCHANGED <<goal, attempt, edits, deleted, crashes>>

(* A step that only looks at the files. *)
Look(next) == To(next) /\ UNCHANGED <<file, linked, memory>>

(* The mutation fails, or is done: the stage, if any, is removed. *)
Stop == To("idle") /\ Unlink({"stage"}) /\ memory' = NoMemory

----------------------------------------------------------------------------
(* Documents *)

(* The document of a name; of a missing file it is the empty one. *)
Doc(d) == IF d = NoFile THEN <<>> ELSE d

(* Mutant: an entry of both documents is kept twice. *)
MergedTwice(left, right) == left \o right

(* mergeHooksDocuments *)
Merged(left, right) == left \o Dropping(right, Range(left))

(* documentSubsumes *)
Subsumes(doc, recovery, reconcile) == Merged(Merged(Doc(recovery), Doc(reconcile)), doc) = doc

(* The mutation of reconcileCursorHooks. *)
Desired(doc) ==
  LET others == Dropping(doc, {Own})
  IN  IF goal = "add" THEN Append(others, Own) ELSE others

----------------------------------------------------------------------------
(* Recovery of an interrupted mutation *)

Start == step = "idle" /\ Look("recover")

(* recoverPublishedHooksStage: a stage is removed, published or not. *)
RemoveStage ==
  /\ step = "recover"
  /\ Unlink({"stage"})
  /\ To("classify") /\ UNCHANGED memory

(* Mutant: two journals without a current file are left alone. *)
RecoveryForgetful(c, r, q) ==
  IF c /\ r /\ ~q THEN "displace" ELSE IF ~c /\ (r # q) THEN "restore" ELSE "read"

(* recoverInterruptedHooksMutation, by the names that exist. *)
Recovery(c, r, q) ==
  CASE ~r /\ ~q        -> "read"
    [] ~c /\ (r # q)   -> "restore"
    [] ~c /\ r /\ q    -> "publish"
    [] c /\ r /\ ~q    -> "displace"
    [] c /\ q          -> "check reconcile"

Classify ==
  /\ step = "classify"
  /\ LET c == file["hooks"]
         r == file["recovery"]
         q == file["reconcile"]
         next == Recovery(c # NoFile, r # NoFile, q # NoFile)
         concurrent == IF q # NoFile THEN q ELSE c
         keep == [NoMemory EXCEPT !["hooks"] = c, !["recovery"] = r, !["reconcile"] = q]
     IN  \/ /\ next = "displace" /\ c = r
            /\ To("check recovery") /\ memory' = keep /\ UNCHANGED <<file, linked>>
         \/ /\ next = "check reconcile" /\ ~(c = q /\ r = NoFile) /\ ~Subsumes(c, r, q)
            /\ Stop      \* ambiguous: all versions are preserved
         \/ /\ next \in {"publish", "displace"} /\ c # r
            /\ memory' = [keep EXCEPT !["stage"] = Merged(r, concurrent)]
            /\ file' = [file EXCEPT !["stage"] = Merged(r, concurrent)]
            /\ To(next) /\ UNCHANGED linked
         \/ /\ next \in {"read", "restore", "check reconcile"}
            /\ next = "check reconcile" => (c = q /\ r = NoFile) \/ Subsumes(c, r, q)
            /\ To(next) /\ memory' = keep /\ UNCHANGED <<file, linked>>

Journal == IF memory["recovery"] # NoFile THEN "recovery" ELSE "reconcile"

(* restoreSingleHooksJournal *)
Restore ==
  /\ step = "restore"
  /\ IF Free("hooks") THEN Publish(Journal) /\ To("restored") /\ UNCHANGED memory ELSE Stop

Restored ==
  /\ step = "restored"
  /\ IF file["hooks"] = memory[Journal]
     THEN /\ To(IF Journal = "recovery" THEN "check recovery" ELSE "check reconcile")
          /\ memory' = [memory EXCEPT !["hooks"] = file["hooks"]]
          /\ UNCHANGED <<file, linked>>
     ELSE Stop

(* publishRecoveredHooks: a concurrent file is displaced. *)
DisplaceConcurrent ==
  /\ step = "displace"
  /\ IF file["hooks"] = NoFile \/ file["recovery"] # memory["recovery"] THEN Stop
     ELSE Displace("reconcile") /\ To("displaced") /\ UNCHANGED memory

Displaced ==
  /\ step = "displaced"
  /\ IF file["reconcile"] # memory["hooks"] THEN Look("give back")
     ELSE /\ To("publish")
          /\ memory' = [memory EXCEPT !["reconcile"] = file["reconcile"]]
          /\ UNCHANGED <<file, linked>>

(* It was not the one that was read: restoreDisplacedHooks. *)
GiveBack ==
  /\ step = "give back"
  /\ IF linked = {"reconcile"} THEN Unlink({"reconcile", "stage"}) /\ To("idle") /\ memory' = NoMemory
     ELSE IF Free("hooks") THEN Publish("reconcile") /\ To("give back") /\ UNCHANGED memory
     ELSE Stop

(* Mutant: the merged document replaces whatever has the name. *)
PublishRecoveredOver ==
  /\ step = "publish"
  /\ Publish("stage") /\ To("published") /\ UNCHANGED memory

PublishRecovered ==
  /\ step = "publish"
  /\ IF Free("hooks") THEN Publish("stage") /\ To("published") /\ UNCHANGED memory ELSE Stop

(* Its verification, and the end of the stage. *)
Published ==
  /\ step = "published"
  /\ IF file["hooks"] = memory["stage"]
     THEN /\ Unlink({"stage"})
          /\ memory' = [memory EXCEPT !["hooks"] = file["hooks"]]
          /\ To("check reconcile")
     ELSE Stop

(* unlinkHooksJournalConditionally *)
Check(journal, next) ==
  IF file["hooks"] = memory["hooks"] /\ file[journal] = memory[journal] THEN Look(next) ELSE Stop

CheckReconcile == step = "check reconcile" /\ Check("reconcile", "drop reconcile")

DropReconcile ==
  /\ step = "drop reconcile"
  /\ Unlink({"reconcile"})
  /\ To(IF memory["recovery"] # NoFile THEN "check recovery" ELSE "read")
  /\ UNCHANGED memory

CheckRecovery == step = "check recovery" /\ Check("recovery", "drop recovery")

DropRecovery ==
  /\ step = "drop recovery"
  /\ Unlink({"recovery"}) /\ To("read") /\ UNCHANGED memory

----------------------------------------------------------------------------
(* The mutation: mutateHooksWithCas, publishHooksConditionally *)

Read ==
  /\ step = "read"
  /\ LET seen == file["hooks"]
         doc == Doc(seen)
     IN  IF Desired(doc) = doc THEN Stop
         ELSE /\ file' = [file EXCEPT !["stage"] = Desired(doc)]
              /\ memory' = [NoMemory EXCEPT !["seen"] = seen]
              /\ To("swap") /\ UNCHANGED linked

(* The attempt has failed: one more is made. *)
Fail ==
  /\ Unlink({"stage"})
  /\ memory' = NoMemory
  /\ step' = IF attempt = 0 THEN "recover" ELSE "idle"
  /\ attempt' = IF attempt = 0 THEN 1 ELSE 0
  /\ UNCHANGED <<goal, edits, deleted, crashes>>

Swap ==
  /\ step = "swap"
  /\ IF file["hooks"] # memory["seen"] THEN Fail
     ELSE IF memory["seen"] = NoFile THEN Look("link")
     ELSE IF ~Free("recovery") THEN Stop
     ELSE Look("rename")

Rename ==
  /\ step = "rename"
  /\ IF Free("hooks") THEN Fail ELSE Displace("recovery") /\ To("renamed") /\ UNCHANGED memory

Renamed ==
  /\ step = "renamed"
  /\ Look(IF file["recovery"] = memory["seen"] THEN "link" ELSE "put back")

PutBack ==
  /\ step = "put back"
  /\ IF linked = {"recovery"}
     THEN /\ Unlink({"recovery", "stage"})
          /\ memory' = NoMemory
          /\ step' = IF attempt = 0 THEN "recover" ELSE "idle"
          /\ attempt' = 1 - attempt
          /\ UNCHANGED <<goal, edits, deleted, crashes>>
     ELSE IF Free("hooks") THEN Publish("recovery") /\ To("put back") /\ UNCHANGED memory
     ELSE Stop

Link ==
  /\ step = "link"
  /\ IF ~Free("hooks") THEN Fail ELSE Publish("stage") /\ To("linked") /\ UNCHANGED memory

Linked ==
  /\ step = "linked"
  /\ Unlink({"stage"}) /\ UNCHANGED memory
  /\ To(IF memory["seen"] = NoFile THEN "idle" ELSE "compare")

Compare ==
  /\ step = "compare"
  /\ IF file["recovery"] = memory["seen"] THEN Look("drop old") ELSE Stop

DropOld == step = "drop old" /\ Unlink({"recovery"}) /\ To("idle") /\ memory' = NoMemory

----------------------------------------------------------------------------
(* Others *)

(* A new document, in the same file or in one that replaces it. *)
Write(doc) ==
  \/ /\ file' = [n \in Name |-> IF n = "hooks" \/ n \in linked THEN doc ELSE file[n]]
     /\ UNCHANGED linked
  \/ file' = [file EXCEPT !["hooks"] = doc] /\ linked' = {}

Edit(kind) ==
  LET doc == Doc(file["hooks"])
  IN  /\ edits < MaxEdits
      /\ edits' = edits + 1
      /\ \/ kind = "append" /\ Write(Append(doc, edits + 1)) /\ UNCHANGED deleted
         \/ kind = "prepend" /\ Write(<<edits + 1>> \o doc) /\ UNCHANGED deleted
         \/ /\ kind = "delete"
            /\ \E e \in Range(doc) :
                 /\ Write(Dropping(doc, {e}))
                 /\ deleted' = (deleted \cup {e, edits + 1}) \ {Own}   \* it adds none
      /\ UNCHANGED <<goal, step, memory, attempt, crashes>>

HooksCrash ==
  /\ step # "idle" /\ crashes < MaxCrashes
  /\ crashes' = crashes + 1
  /\ step' = "idle" /\ memory' = NoMemory /\ attempt' = 0
  /\ UNCHANGED <<goal, file, linked, edits, deleted>>

Connector ==
  \/ Start \/ RemoveStage \/ Classify \/ Restore \/ Restored \/ DisplaceConcurrent \/ Displaced
  \/ GiveBack \/ PublishRecovered \/ Published \/ CheckReconcile \/ DropReconcile
  \/ CheckRecovery \/ DropRecovery \/ Read \/ Swap \/ Rename \/ Renamed \/ PutBack \/ Link
  \/ Linked \/ Compare \/ DropOld

HooksNext == Connector \/ (\E kind \in EditKinds : Edit(kind)) \/ HooksCrash

(* The user repairs until nothing is left to do. *)
HooksFairness == WF_hooksVars(Connector)

HooksSpec == HooksInit /\ [][HooksNext]_hooksVars /\ HooksFairness

----------------------------------------------------------------------------
(* Properties *)

Holding(e) == {n \in {"hooks", "recovery", "reconcile"} : ~Free(n) /\ Contains(file[n], e)}

(* Whatever others write at any step of a mutation, of a recovery or after  *)
(* a crash of either: an entry that they have not deleted themselves is in  *)
(* hooks.json or in one of its journals.                                    *)
ForeignHooksKept == \A e \in 1 .. edits : e \in deleted \/ Holding(e) # {}

(* Versions that the recovery refuses to merge: the file was written after  *)
(* its predecessor had been displaced, and does not contain the journals.   *)
Ambiguous ==
  /\ ~Free("hooks") /\ ~Free("reconcile")
  /\ ~Subsumes(file["hooks"], file["recovery"], file["reconcile"])

Settled ==
  /\ \A n \in Name \ {"hooks"} : Free(n)
  /\ goal = "add" => ~Free("hooks")
  /\ ~Free("hooks") => Desired(file["hooks"]) = file["hooks"]

(* Once others leave the file alone and nothing crashes, repeated repairs   *)
(* reach the document they want and leave no journal, unless the versions   *)
(* are ambiguous: no other combination of files is refused for ever.        *)
HooksSettle == <>[](Settled \/ Ambiguous)
=============================================================================
