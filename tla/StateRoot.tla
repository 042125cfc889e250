------------------------------ MODULE StateRoot ------------------------------
(***************************************************************************)
(* The connector's state directory (packages/connector/lib/config.mjs,     *)
(* ensurePrivateStateDirectory).  A process uses it after it has made its  *)
(* files private, and it does that only in a directory that is the         *)
(* connector's own: one with a marker, or one that it marks itself because *)
(* nothing is in it, or (at the default place) because an older connector  *)
(* without markers left its files and nothing else there.                  *)
(*                                                                         *)
(* Processes of this version, an older connector that still writes, and    *)
(* the user meet in the directory; processes may die at any step.          *)
(***************************************************************************)
EXTENDS Naturals, FiniteSets

CONSTANTS
  Opener,      \* processes that open the directory
  Free, Orphaned, \* the migration lock: nobody's, or that of a process that died
  MaxEdits     \* bounds what others write into the directory

(* The entries: an installation or source registry, which is evidence of a *)
(* connector; another file of the connector's; a name it does not know.    *)
Own == {"identity", "other"}
Entry == Own \cup {"foreign"}

NoEntry == [age |-> 0, kind |-> "none", private |-> FALSE]

VARIABLES
  place,    \* "default" or "custom"
  root,     \* what the path is: "absent", "dir" or "link"
  entries,  \* Entry -> what it is, and which file (0: the one there at first)
  marker,   \* "none", "valid", "bad"
  born,     \* the marker at first
  stages,   \* the processes whose temporary file of the marker exists
  migLock,  \* the holder of the migration lock, Free or Orphaned
  opener,   \* Opener -> its state; one that is started again is another
  edits

rootVars == <<place, root, entries, marker, born, stages, migLock, opener, edits>>

Asleep == [pc |-> "idle", locked |-> FALSE, marked |-> FALSE, seen |-> {}, snapshot |-> {},
           todo |-> {}, held |-> NoEntry, looked |-> 0]

There(n) == entries[n].kind # "none"
Files == {n \in Entry : There(n)}
Sound(n) == entries[n].kind # "link"  \* a regular file of the user's, with one name

(* validLegacyStateEvidence. *)
Evidence == entries["identity"].kind = "valid"

RootInit ==
  /\ place \in {"default", "custom"}
  /\ root \in {"absent", "dir", "link"}
  /\ entries \in [Entry -> {NoEntry} \cup [age : {0}, kind : {"valid", "void", "link"}, private : {FALSE}]]
  /\ \A n \in Entry \ {"identity"} : entries[n].kind # "void"
  /\ marker \in {"none", "valid", "bad"} /\ born = marker
  /\ root # "dir" => Files = {} /\ marker = "none"
  /\ stages = {} /\ migLock = Free
  /\ opener = [o \in Opener |-> Asleep]
  /\ edits = 0

-----------------------------------------------------------------------------
OpenerAt(o, step) == opener[o].pc = step
Go(o, step) == opener' = [opener EXCEPT ![o].pc = step]

(* An error; what the process holds is given back on the way out. *)
Fails(o) ==
  /\ Go(o, "failed")
  /\ stages' = stages \ {o}
  /\ migLock' = IF migLock = o THEN Free ELSE migLock

Same == UNCHANGED <<place, root, entries, marker, born, edits>>
Held == UNCHANGED <<stages, migLock>>

(* stateRoot: the directory is created, and never a link. *)
OpenRoot(o) ==
  /\ OpenerAt(o, "idle")
  /\ IF root = "link" THEN Fails(o) ELSE Go(o, "marker") /\ Held
  /\ root' = IF root = "absent" THEN "dir" ELSE root
  /\ UNCHANGED <<place, entries, marker, born, edits>>

(* markedStatePaths: the marker is there, not there, or not one. *)
ReadMarker(o) ==
  /\ OpenerAt(o, "marker")
  /\ IF marker = "bad"
     THEN Fails(o)
     ELSE opener' = [opener EXCEPT ![o].pc = "list", ![o].marked = marker = "valid"] /\ Held
  /\ Same

(* The names in the directory: entries, the marker, temporary files of it. *)
ListRoot(o) ==
  /\ OpenerAt(o, "list")
  /\ opener' = [opener EXCEPT ![o].pc = "stat", ![o].looked = edits,
                  ![o].seen = Files \cup stages \cup IF marker = "none" THEN {} ELSE {"marker"}]
  /\ Held /\ Same

(* Each of the names is looked at, and every one must still be there.  In  *)
(* a marked directory unknown names are left alone; in another nothing may *)
(* be unknown (inspectOwnedStateTree).                                     *)
StatRoot(o) ==
  LET me == opener[o]
      found == me.seen \cap (Entry \cup {"marker"})  \* substantive: no artifacts of a migration
      mine == found \ {"foreign", "marker"}
  IN
  /\ OpenerAt(o, "stat")
  /\ IF \/ \E n \in me.seen \cap Entry : ~There(n)
        \/ \E p \in me.seen \cap Opener : p \notin stages
        \/ \E n \in mine : ~Sound(n)
        \/ ~me.marked /\ "foreign" \in found
        \/ ~me.marked /\ me.locked /\ found # me.snapshot
        \/ ~me.marked /\ ~me.locked /\ found # {} /\ place = "custom"
     THEN Fails(o)
     ELSE /\ opener' = [opener EXCEPT ![o].pc = IF me.marked THEN "secure" ELSE "evidence",
                                      ![o].snapshot = IF me.locked THEN @ ELSE found,
                                      ![o].todo = mine, ![o].seen = {}]
          /\ Held
  /\ Same

(* secureStateDirectory: a directory that is not empty needs evidence,     *)
(* before the lock, in it, and once more when all is private.              *)
CheckEvidence(o) ==
  /\ OpenerAt(o, "evidence")
  /\ IF opener[o].snapshot # {} /\ ~Evidence
     THEN Fails(o)
     ELSE Go(o, IF opener[o].locked THEN "secure" ELSE "lock") /\ Held
  /\ Same

CheckAgain(o) ==
  /\ OpenerAt(o, "secure") /\ opener[o].todo = {} /\ opener[o].held = NoEntry /\ ~opener[o].marked
  /\ IF opener[o].snapshot # {} /\ ~Evidence THEN Fails(o) ELSE Go(o, "stage") /\ Held
  /\ Same

(* Mutation: what was seen before the lock is not looked at again in it. *)
AcquireTrusting(o) ==
  /\ OpenerAt(o, "lock") /\ migLock \in {Free, Orphaned}
  /\ migLock' = o
  /\ opener' = [opener EXCEPT ![o].pc = "secure", ![o].locked = TRUE]
  /\ UNCHANGED stages /\ Same

AcquireMigration(o) ==
  /\ OpenerAt(o, "lock") /\ migLock \in {Free, Orphaned}
  /\ migLock' = o
  /\ opener' = [opener EXCEPT ![o].pc = "sweep", ![o].locked = TRUE]
  /\ UNCHANGED stages /\ Same

MigrationTimesOut(o) == OpenerAt(o, "lock") /\ migLock # Free /\ Fails(o) /\ Same

(* removeOrphanedStateMigrationArtifacts *)
Sweep(o) == OpenerAt(o, "sweep") /\ stages' = {} /\ Go(o, "marker") /\ UNCHANGED migLock /\ Same

(* secureStatePaths: a path is opened, its file made private, and the path *)
(* must still lead to that file.  One that is gone is passed over.         *)
FirstToDo(o) == IF "identity" \in opener[o].todo THEN "identity" ELSE "other"

SecureFile(o) ==
  /\ OpenerAt(o, "secure") /\ opener[o].held = NoEntry
  /\ opener[o].todo # {}
  /\ LET n == FirstToDo(o) IN
     IF There(n) /\ ~Sound(n)
     THEN Fails(o) /\ UNCHANGED entries
     ELSE /\ entries' = [entries EXCEPT ![n].private = There(n)]
          /\ opener' = [opener EXCEPT ![o].todo = IF There(n) THEN @ ELSE @ \ {n},
                                      ![o].held = entries'[n]]
          /\ Held
  /\ UNCHANGED <<place, root, marker, born, edits>>

CheckFile(o) ==
  /\ OpenerAt(o, "secure") /\ opener[o].held # NoEntry
  /\ LET n == FirstToDo(o) IN
     IF There(n) /\ entries[n].age # opener[o].held.age
     THEN Fails(o)
     ELSE /\ opener' = [opener EXCEPT ![o].todo = @ \ {n}, ![o].held = NoEntry]
          /\ Held
  /\ Same

(* All is private in a directory that was marked. *)
Ready(o) ==
  /\ OpenerAt(o, "secure") /\ opener[o].todo = {} /\ opener[o].held = NoEntry /\ opener[o].marked
  /\ Go(o, "ready")
  /\ migLock' = IF migLock = o THEN Free ELSE migLock
  /\ UNCHANGED stages /\ Same

(* writeStateMarker: a complete file takes the marker's name. *)
StageMarker(o) ==
  OpenerAt(o, "stage") /\ stages' = stages \cup {o} /\ Go(o, "publish") /\ UNCHANGED migLock /\ Same

PublishMarker(o) ==
  /\ OpenerAt(o, "publish")
  /\ marker' = "valid" /\ stages' = stages \ {o}
  /\ Go(o, "ready") /\ migLock' = Free
  /\ UNCHANGED <<place, root, entries, born, edits>>

Dies(o) ==
  /\ opener[o].pc \notin {"idle", "ready", "failed", "dead"}
  /\ Go(o, "dead")
  /\ migLock' = IF migLock = o THEN Orphaned ELSE migLock
  /\ UNCHANGED stages /\ Same

-----------------------------------------------------------------------------
Put(n, file) ==
  /\ root = "dir" /\ edits < MaxEdits /\ edits' = edits + 1
  /\ entries' = [entries EXCEPT ![n] = file]
  /\ UNCHANGED <<place, root, marker, born, stages, migLock, opener>>

(* A process that is ready replaces a file of the connector's (atomicJson);*)
(* an older connector does so too, but in the open; the user adds a link   *)
(* or a file of theirs, or removes something.                              *)
NewFile(n, kind, private) == Put(n, [age |-> edits + 1, kind |-> kind, private |-> private])

ConnectorWrites == (\E o \in Opener : OpenerAt(o, "ready")) /\ \E n \in Own : NewFile(n, "valid", TRUE)
OlderWrites == \E n \in Own : NewFile(n, "valid", FALSE)
UserWrites == (\E n \in Own : NewFile(n, "link", FALSE)) \/ NewFile("foreign", "valid", FALSE)
EntryRemoved == \E n \in Files : Put(n, NoEntry)

RootNext ==
  \/ \E o \in Opener :
       \/ OpenRoot(o) \/ ReadMarker(o) \/ ListRoot(o) \/ StatRoot(o) \/ CheckEvidence(o)
       \/ AcquireMigration(o) \/ MigrationTimesOut(o) \/ Sweep(o) \/ SecureFile(o) \/ CheckFile(o)
       \/ CheckAgain(o) \/ Ready(o) \/ StageMarker(o) \/ PublishMarker(o) \/ Dies(o)
  \/ ConnectorWrites \/ OlderWrites \/ UserWrites \/ EntryRemoved

RootSpec == RootInit /\ [][RootNext]_rootVars

-----------------------------------------------------------------------------
RootTypeOK ==
  /\ place \in {"default", "custom"} /\ root \in {"absent", "dir", "link"}
  /\ entries \in [Entry -> [age : 0..MaxEdits, kind : {"none", "valid", "void", "link"},
                            private : BOOLEAN]]
  /\ {marker, born} \subseteq {"none", "valid", "bad"}
  /\ stages \subseteq Opener /\ migLock \in Opener \cup {Free, Orphaned}
  /\ opener \in [Opener ->
       [pc : {"idle", "marker", "list", "stat", "evidence", "lock", "sweep", "secure", "stage",
              "publish", "ready", "failed", "dead"},
        locked : BOOLEAN, marked : BOOLEAN, seen : SUBSET (Entry \cup Opener \cup {"marker"}),
        snapshot : SUBSET (Entry \cup {"marker"}), todo : SUBSET Own,
        held : [age : 0..MaxEdits, kind : {"none", "valid", "void", "link"}, private : BOOLEAN],
        looked : 0..MaxEdits]]
  /\ edits \in 0..MaxEdits

(* A file that was there before the connector came. *)
FromBefore(n) == There(n) /\ entries[n].age = 0

(* A directory that was not the connector's never becomes it by a marker:  *)
(* not with an unknown file or a link of before in it, nor at a place of   *)
(* the user's choice with anything in it.                                  *)
NothingAdopted ==
  marker = "valid" /\ born # "valid" =>
    /\ ~FromBefore("foreign")
    /\ \A n \in Own : FromBefore(n) => Sound(n) /\ place = "default"

(* And what a process marks, unless others have written since it looked    *)
(* under the lock, is as it was before the lock: nothing, or the private   *)
(* files of an older connector with evidence of it.                        *)
MarkedAsSeen ==
  \A o \in Opener : opener[o].pc \in {"stage", "publish"} /\ opener[o].looked = edits =>
    /\ Files = opener[o].snapshot /\ Files \subseteq Own
    /\ Files # {} => Evidence /\ place = "default"
    /\ \A n \in Files : Sound(n) /\ entries[n].private

(* A process uses only a directory that is marked, with every file of the  *)
(* connector's from before private; and one process at a time marks it.    *)
ReadyIsPrivate ==
  /\ \A o \in Opener : OpenerAt(o, "ready") =>
       /\ marker = "valid"
       /\ \A n \in Own : FromBefore(n) => entries[n].private
  /\ \A o \in Opener : opener[o].pc \in {"stage", "publish"} => marker = "none" /\ migLock = o

=============================================================================
