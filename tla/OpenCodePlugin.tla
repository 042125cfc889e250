--------------------------- MODULE OpenCodePlugin ---------------------------
(***************************************************************************)
(* The plugin that the connector keeps in OpenCode's plugin directory:     *)
(* installed through a stage file and hard links, replaced and removed     *)
(* through a quarantine, moved with XDG_CONFIG_HOME, and cleaned up after  *)
(* deaths from a journal of paths, while the user's editor works on the    *)
(* same directory.  One command runs at a time, under the lifecycle lock.  *)
(***************************************************************************)
EXTENDS Integers, Sequences, FiniteSets, SequencesExt, Lists

CONSTANTS
  NoPath,      \* no path, no configuration, no installation
  Home,         \* values of XDG_CONFIG_HOME
  MaxCommands,  \* bounds: commands before the final uninstalls,
  MaxUserEdits,     \*   edits and moves by the user,
  MaxDeaths     \*   deaths and failed writes

ASSUME PluginAssumption ==
  /\ MaxCommands \in Nat /\ MaxUserEdits \in Nat /\ MaxDeaths \in Nat /\ Home # {}

VARIABLES
  dir,      \* the names in the directories: path -> file
  body,     \* file -> what it holds
  journal,  \* opencode-plugin-cleanup.json: paths still to be looked after
  install,  \* installation.json: NoPath, or the plugin path it records
  connection,   \* config.json: NoPath, without or with an OpenCode source
  home,     \* XDG_CONFIG_HOME
  job,      \* the command that runs
  used,     \* counters of names, commands, edits and deaths
  users,    \* files that are the user's and that the user has not removed
  trusted   \* paths taken out of the journal before they were recorded

pluginVars == <<dir, body, journal, install, connection, home, job, used, users, trusted>>
disk == <<dir, body>>
saved == <<journal, install, connection>>
others == <<home, users, trusted>>

(* The canonical path of a directory is <<h>>; a stage, a probe or a       *)
(* quarantine adds its suffix and a fresh name.                            *)
Beside(path, kind) == path \o <<kind, used.names + 1>>
Kind(path) == IF Len(path) = 1 THEN "canonical" ELSE path[Len(path) - 1]
Canonical(path) == <<path[1]>>
Base(path) == SubSeq(path, 1, Len(path) - 2)

Present(path) == path \in DOMAIN dir
Names(file) == {p \in DOMAIN dir : dir[p] = file}
Ours == {"current", "older"}  \* what begins with this installation's marker

(* inspectPluginFile, removeVerifiedRecoveryHardlink *)
Owned(path) == Present(path) /\ Names(dir[path]) = {path} /\ body[dir[path]] \in Ours
HardLinked(path, other) ==
  Present(path) /\ path # other /\ Names(dir[path]) = {path, other} /\ body[dir[path]] \in Ours

(* removeJournaledRecoveryPeerLink, removeIncompleteJournaledStage *)
LinkedToPeer(path, peers) == \E peer \in peers : HardLinked(path, peer)
HalfWritten(path) == Kind(path) = "stage" /\ Names(dir[path]) = {path} /\ body[dir[path]] = "torn"

-----------------------------------------------------------------------------
(* A command is a sequence of tasks, a task a sequence of steps; each step *)
(* is one write to the disk, and what it decides on is read when it is     *)
(* planned.                                                                *)

S(act, path) == [act |-> act, at |-> path]
Move(act, path, to, otherwise) == [act |-> act, at |-> path, to |-> to, otherwise |-> otherwise]

(* quarantineOwnedPlugin: moved aside, and moved back if it is no longer   *)
(* the file that was inspected.                                            *)
Quarantine(path, aside, otherwise) ==
  << S("retain", aside), Move("rename", path, aside, otherwise),
     [act |-> "verify", at |-> aside, to |-> path, file |-> dir[path], was |-> body[dir[path]],
      otherwise |-> otherwise] >>

Discard(path) == << S("unlink", path), S("release", path) >>

(* reconcileOpenCodePlugin, desired: false.  A file of ours is taken away  *)
(* through a quarantine; a second name of it is dropped where the journal  *)
(* or the name tells which; the rest is none of ours.                      *)
Removal(path, peers, pending) ==
  LET aside == Beside(path, "quarantine")
  IN  CASE ~Present(path) -> <<>>
        [] Owned(path) ->
             Quarantine(path, aside, << S("fail", path) >>)
               \o Discard(aside) \o << S("gone", path) >>
        [] Kind(path) = "stage" /\ HardLinked(path, Canonical(path)) ->
             << S("retain", Canonical(path)) >> \o Discard(path)
               \o << S("remove", Canonical(path)), S("release", Canonical(path)) >>
        [] \/ Kind(path) = "quarantine" /\ HardLinked(path, Base(path))
           \/ LinkedToPeer(path, peers)
           \/ pending /\ HalfWritten(path) ->
             << [act |-> "drop", at |-> path, file |-> dir[path]], S("release", path) >>
        [] OTHER -> << S("fail", path) >>

(* verifyHardlinkSupport: before anything is moved aside. *)
Probe(stage) ==
  LET probe == Beside(stage, "probe")
  IN  << S("retain", probe), Move("link", stage, probe, <<>>) >> \o Discard(probe)

(* installPlugin: staged, published by a link that replaces nothing, and   *)
(* verified before the previous plugin goes.                               *)
Installation(path) ==
  LET stage == Beside(path, "stage")
      aside == Beside(path, "quarantine")
      before == Owned(path)
      back == IF before THEN << S("restore", aside) >> ELSE <<>>
  IN  << S("retain", stage), S("create", stage), S("write", stage) >>
      \o (IF before
          THEN Probe(stage)
                 \o Quarantine(path, aside, Discard(stage) \o << S("fail", path) >>)
          ELSE <<>>)
      \o << Move("link", stage, path, back \o Discard(stage) \o << S("fail", path) >>),
            S("retain", path) >>
      \o Discard(stage)
      \o << [act |-> "current", at |-> path, otherwise |-> back \o << S("fail", path) >>] >>
      \o (IF before THEN Discard(aside) ELSE <<>>)

-----------------------------------------------------------------------------

NoJob == [cmd |-> "none", tasks |-> <<>>, now |-> NoPath, steps |-> <<>>, failed |-> FALSE,
          context |-> NoPath, committed |-> NoPath, peers |-> {}, fresh |-> FALSE]

PluginInit ==
  /\ dir = <<>> /\ body = <<>> /\ journal = <<>> /\ install = NoPath /\ connection = NoPath
  /\ home \in Home
  /\ job = NoJob
  /\ used = [names |-> 0, commands |-> 0, edits |-> 0, deaths |-> 0]
  /\ users = {} /\ trusted = {}

NoCommand == job.cmd = "none"
T(task) == [task |-> task, path |-> NoPath]

Here == <<home>>
Context == [config |-> connection, install |-> install]

(* What each command does to the plugin, in order. *)
Tasks(cmd) ==
  CASE cmd = "connect" -> << T("collect"), T("check"), T("configure"),
                             T("collect"), T("check"), T("reconcile") >>
    [] cmd = "unsource" -> << T("configure"), T("collect"), T("check"), T("reconcile") >>
    [] cmd = "repair" -> << T("collect"), T("check"), T("reconcile") >>
    [] cmd = "disconnect" -> << T("prepare"), T("unconfigure"), T("collectAll"), T("identity") >>
    [] cmd = "uninstall" -> << T("prepare"), T("collectAll"), T("unconfigure"), T("identity"),
                               T("forget") >>

Command(cmd) ==
  /\ NoCommand
  /\ cmd \in {"repair", "unsource"} => connection # NoPath
  /\ cmd = "unsource" => connection = "wants"
  /\ cmd \in {"disconnect", "uninstall"} => install # NoPath \/ journal # <<>>
  /\ \/ used.commands < MaxCommands /\ used' = [used EXCEPT !.commands = @ + 1]
     \/ cmd = "uninstall" /\ used.commands = MaxCommands /\ UNCHANGED used
  /\ job' = [NoJob EXCEPT !.cmd = cmd, !.tasks = Tasks(cmd), !.context = Context]
  /\ UNCHANGED <<disk, saved, others>>

(* The next task of the command; nothing is left to do for the last one. *)
OnTask(task) == ~NoCommand /\ job.steps = <<>> /\ job.tasks # <<>> /\ Head(job.tasks).task = task
Path == Head(job.tasks).path
Then(steps, tasks) == [job EXCEPT !.steps = steps, !.tasks = tasks]
Rest == Tail(job.tasks)
Plan(steps) == [job EXCEPT !.now = Head(job.tasks), !.tasks = Rest, !.steps = steps]

(* prepareOpenCodePluginTeardown *)
Prepare ==
  /\ OnTask("prepare")
  /\ LET recorded == IF install \in {NoPath, <<>>} THEN {} ELSE {install}
         wanted == IF connection = "wants" THEN {Here} ELSE {}
     IN  \E added \in SetToSeqs((recorded \cup wanted) \ ToSet(journal)) :
           journal' = journal \o added
  /\ job' = [Then(<<>>, Rest) EXCEPT !.context = Context]
  /\ UNCHANGED <<disk, install, connection, others, used>>

(* commitConnection, writeConfig without the source, removeConfig and the  *)
(* removal of the identity, which a finished uninstall lets the journal    *)
(* follow.                                                                 *)
Configure ==
  /\ OnTask("configure")
  /\ connection' \in IF job.cmd = "connect" THEN {"plain", "wants"} ELSE {"plain"}
  /\ install' = IF install = NoPath THEN <<>> ELSE install
  /\ job' = Then(<<>>, Rest)
  /\ UNCHANGED <<disk, journal, others, used>>

Unconfigure ==
  /\ OnTask("unconfigure")
  /\ connection' = NoPath
  /\ job' = Then(<<>>, Rest)
  /\ UNCHANGED <<disk, journal, install, others, used>>

RemoveIdentity ==
  /\ OnTask("identity")
  /\ install' = NoPath
  /\ job' = Then(<<>>, Rest)
  /\ UNCHANGED <<disk, journal, connection, others, used>>

(* Mutation: the journal goes although the cleanup got stuck somewhere. *)
ForgetAlways ==
  /\ OnTask("forget")
  /\ journal' = <<>>
  /\ job' = Then(<<>>, Rest)
  /\ UNCHANGED <<disk, install, connection, others, used>>

Forget ==
  /\ OnTask("forget")
  /\ journal' = IF job.failed THEN journal ELSE <<>>
  /\ job' = Then(<<>>, Rest)
  /\ UNCHANGED <<disk, install, connection, others, used>>

(* cleanupOpenCodePluginTargets: the journal, and with the identity also   *)
(* what it records, and the path it would be found at.                     *)
CollectTargets ==
  /\ OnTask("collect") \/ OnTask("collectAll")
  /\ LET all == OnTask("collectAll")
         context == IF all THEN job.context ELSE Context
         known == ToSet(journal)
         recorded == IF all /\ context.install \notin {NoPath, <<>>}
                     THEN << context.install >> ELSE <<>>
         located == IF all /\ context.config # "plain" /\ context.install # NoPath
                    THEN << Here >> ELSE <<>>
         more == Dropping(recorded \o Dropping(located, ToSet(recorded)), known)
         paths == journal \o more
     IN  job' = [Then(<<>>, [n \in 1 .. Len(paths) |-> [task |-> "clean", path |-> paths[n]]]
                              \o Rest)
                   EXCEPT !.peers = known,
                          !.committed = IF ~all /\ connection = "wants" THEN Here ELSE NoPath]
  /\ UNCHANGED <<disk, saved, others, used>>

CleanTarget ==
  /\ OnTask("clean")
  /\ LET pending == Path \in job.peers
         keep == pending /\ Path = job.committed /\ Owned(Path)
     IN  /\ job' = Plan((IF keep THEN <<>> ELSE Removal(Path, job.peers, pending))
                          \o << S("release", Path) >>)
         /\ used' = [used EXCEPT !.names = @ + (IF ~keep /\ Owned(Path) THEN 1 ELSE 0)]
         /\ trusted' = IF keep /\ install # Path THEN trusted \cup {Path} ELSE trusted
  /\ UNCHANGED <<disk, saved, home, users>>

(* An incomplete cleanup ends the command. *)
CheckCleanup ==
  /\ OnTask("check")
  /\ job' = Then(<<>>, IF job.failed THEN <<>> ELSE Rest)
  /\ UNCHANGED <<disk, saved, others, used>>

(* reconcilePluginForConfig.  The recorded path is another one after       *)
(* XDG_CONFIG_HOME has changed: the plugin there goes once the new one is  *)
(* in place, and if it cannot go the new one is taken back.                *)
ReconcilePlugin ==
  /\ OnTask("reconcile")
  /\ LET desired == connection = "wants"
         recorded == install \notin {NoPath, <<>>}
         moved == recorded /\ install # Here
         tasks ==
           IF desired
           THEN IF moved /\ Present(install) /\ ~Owned(install) THEN <<>>
                ELSE << [task |-> "ensure", path |-> Here, failing |-> "stop"] >>
                     \o (IF moved
                         THEN << [task |-> "remove", path |-> install, failing |-> "undo"] >>
                         ELSE <<>>)
                     \o << [task |-> "record", path |-> Here,
                            was |-> IF moved /\ Owned(install) THEN install ELSE NoPath] >>
           ELSE IF recorded THEN << [task |-> "remove", path |-> install, failing |-> "stop"] >>
           ELSE IF job.cmd = "unsource"
                THEN << [task |-> "remove", path |-> Here, failing |-> "stop"] >>
           ELSE <<>>
     IN  job' = Then(<<>>, tasks)
  /\ UNCHANGED <<disk, saved, others, used>>

Ensure ==
  /\ OnTask("ensure")
  /\ LET at == IF Present(Path) THEN body[dir[Path]] ELSE "missing"
     IN  IF Owned(Path) /\ at = "current"
         THEN job' = Plan(<<>>) /\ UNCHANGED used
         ELSE IF at = "missing" \/ Owned(Path)
         THEN /\ job' = [Plan(Installation(Path)
                              \o (IF Head(job.tasks).failing = "retain"
                                  THEN << S("release", Path) >> ELSE <<>>)) EXCEPT !.fresh = TRUE]
              /\ used' = [used EXCEPT !.names = @ + 1]
         ELSE job' = Plan(<< S("fail", Path) >>) /\ UNCHANGED used
  /\ UNCHANGED <<disk, saved, others>>

RemoveTask ==
  /\ OnTask("remove")
  /\ job' = Plan(Removal(Path, {}, FALSE))
  /\ used' = [used EXCEPT !.names = @ + (IF Owned(Path) THEN 1 ELSE 0)]
  /\ UNCHANGED <<disk, saved, others>>

(* rememberOpenCodePluginPath; only then the path leaves the journal.      *)
Record ==
  /\ OnTask("record")
  /\ install' = Path
  /\ job' = Plan(IF job.fresh THEN << S("release", Path) >> ELSE <<>>)
  /\ UNCHANGED <<disk, journal, connection, others, used>>

(* rollbackUnrecordedOpenCodePlugin: the new plugin goes, the old one      *)
(* comes back.                                                             *)
RecordFails ==
  /\ OnTask("record") /\ used.deaths < MaxDeaths
  /\ used' = [used EXCEPT !.deaths = @ + 1]
  /\ LET was == Head(job.tasks).was
     IN  job' = Then(<<>>, << [task |-> "remove", path |-> Path, failing |-> "retain"] >>
                           \o (IF was = NoPath THEN <<>>
                               ELSE << [task |-> "ensure", path |-> was, failing |-> "retain"] >>))
  /\ UNCHANGED <<disk, saved, others>>

CommandEnds ==
  /\ ~NoCommand /\ job.tasks = <<>> /\ job.steps = <<>>
  /\ job' = NoJob
  /\ UNCHANGED <<disk, saved, others, used>>

-----------------------------------------------------------------------------
(* The steps on the disk *)

Step == Head(job.steps)
Doing(act) == ~NoCommand /\ job.steps # <<>> /\ Step.act = act
Onward == [job EXCEPT !.steps = Tail(@)]
Instead(steps) == [job EXCEPT !.steps = steps]

Without(path) == [p \in DOMAIN dir \ {path} |-> dir[p]]
With(path, file) == [p \in DOMAIN dir \cup {path} |-> IF p = path THEN file ELSE dir[p]]
NewFile == Len(body) + 1
Unjournaled(path) == Dropping(journal, {path})
Journaled(path) == IF path \in ToSet(journal) THEN journal ELSE Append(journal, path)

(* Mutation: a path is journaled only after it exists. *)
RetainNothing ==
  /\ Doing("retain")
  /\ journal' = IF Kind(Step.at) = "stage" THEN journal ELSE Journaled(Step.at)
  /\ job' = Onward
  /\ UNCHANGED <<disk, install, connection, others, used>>

(* retainRecoveryPath, releaseRecoveryPath *)
Retain ==
  /\ Doing("retain")
  /\ journal' = Journaled(Step.at)
  /\ job' = Onward
  /\ UNCHANGED <<disk, install, connection, others, used>>

Release ==
  /\ Doing("release")
  /\ journal' = Unjournaled(Step.at)
  /\ job' = Onward
  /\ UNCHANGED <<disk, install, connection, others, used>>

Create ==
  /\ Doing("create")
  /\ body' = Append(body, "torn")
  /\ dir' = With(Step.at, NewFile)
  /\ job' = Onward
  /\ UNCHANGED <<saved, others, used>>

WriteStage ==
  /\ Doing("write")
  /\ body' = [body EXCEPT ![dir[Step.at]] = "current"]
  /\ job' = Onward
  /\ UNCHANGED <<dir, saved, others, used>>

UnlinkFile ==
  /\ Doing("unlink")
  /\ dir' = Without(Step.at)
  /\ job' = Onward
  /\ UNCHANGED <<body, saved, others, used>>

(* removeVerifiedRecoveryHardlink looks once more, right before it unlinks. *)
DropLink ==
  /\ Doing("drop")
  /\ IF Present(Step.at) /\ dir[Step.at] = Step.file
     THEN dir' = Without(Step.at) /\ job' = Onward
     ELSE job' = Instead(<< S("fail", Step.at) >>) /\ UNCHANGED dir
  /\ UNCHANGED <<body, saved, others, used>>

(* Mutation: published by a rename, which replaces what is there. *)
LinkFileOver ==
  /\ Doing("link")
  /\ dir' = With(Step.to, dir[Step.at]) /\ job' = Onward
  /\ UNCHANGED <<body, saved, others, used>>

(* A link never replaces a file: EEXIST. *)
LinkFile ==
  /\ Doing("link")
  /\ IF Present(Step.to)
     THEN job' = Instead(Step.otherwise) /\ UNCHANGED dir
     ELSE job' = Onward /\ dir' = With(Step.to, dir[Step.at])
  /\ UNCHANGED <<body, saved, others, used>>

RenameFile ==
  /\ Doing("rename")
  /\ IF ~Present(Step.at)
     THEN job' = Instead(Step.otherwise) /\ UNCHANGED dir
     ELSE /\ job' = Onward
          /\ dir' = [p \in (DOMAIN dir \ {Step.at}) \cup {Step.to} |->
                       IF p = Step.to THEN dir[Step.at] ELSE dir[p]]
  /\ UNCHANGED <<body, saved, others, used>>

(* Mutation: what was moved aside is not looked at again. *)
VerifyNothing == Doing("verify") /\ job' = Onward /\ UNCHANGED <<disk, saved, others, used>>

(* verifyQuarantinedPlugin *)
Verify ==
  /\ Doing("verify")
  /\ job' = IF /\ dir[Step.at] = Step.file /\ Names(Step.file) = {Step.at}
               /\ body[Step.file] = Step.was
            THEN Onward ELSE Instead(<< S("restore", Step.at) >> \o Step.otherwise)
  /\ UNCHANGED <<disk, saved, others, used>>

(* restoreQuarantinedRegularFile: by a link, never over another file. *)
RestoreFile ==
  /\ Doing("restore")
  /\ LET to == Base(Step.at)
     IN  IF Present(to) THEN job' = Onward /\ UNCHANGED dir
         ELSE dir' = With(to, dir[Step.at]) /\ job' = Instead(Discard(Step.at) \o Tail(job.steps))
  /\ UNCHANGED <<body, saved, others, used>>

(* The canonical file that a stage was linked to is removed like any other. *)
RemoveInner ==
  /\ Doing("remove")
  /\ job' = Instead(Removal(Step.at, {}, FALSE) \o Tail(job.steps))
  /\ used' = [used EXCEPT !.names = @ + (IF Owned(Step.at) THEN 1 ELSE 0)]
  /\ UNCHANGED <<disk, saved, others>>

Gone ==
  /\ Doing("gone")
  /\ job' = IF Present(Step.at) THEN Instead(<< S("fail", Step.at) >>) ELSE Onward
  /\ UNCHANGED <<disk, saved, others, used>>

VerifyPublished ==
  /\ Doing("current")
  /\ job' = IF Owned(Step.at) /\ body[dir[Step.at]] = "current" THEN Onward
            ELSE Instead(Step.otherwise)
  /\ UNCHANGED <<disk, saved, others, used>>

(* Blocked.  A cleanup journals the path where it got stuck and goes on;   *)
(* a plugin that could not be relocated takes the new one back.            *)
StepFails ==
  /\ Doing("fail")
  /\ LET task == job.now
         stuck == Step.at
     IN  CASE task.task = "clean" ->
                /\ journal' = IF stuck = task.path THEN Journaled(stuck)
                              ELSE Dropping(Journaled(stuck), {task.path})
                /\ job' = [job EXCEPT !.steps = <<>>, !.failed = TRUE]
           [] task.task # "clean" /\ task.failing = "retain" ->
                journal' = Journaled(stuck) /\ job' = [job EXCEPT !.steps = <<>>]
           [] task.task # "clean" /\ task.failing = "undo" ->
                /\ UNCHANGED journal
                /\ job' = Then(<<>>, << [task |-> "remove", path |-> Here, failing |-> "stop"] >>)
           [] OTHER -> UNCHANGED journal /\ job' = Then(<<>>, <<>>)
  /\ UNCHANGED <<disk, install, connection, others, used>>

-----------------------------------------------------------------------------
(* Deaths and the user *)

Die ==
  /\ ~NoCommand /\ used.deaths < MaxDeaths
  /\ used' = [used EXCEPT !.deaths = @ + 1]
  /\ job' = NoJob
  /\ UNCHANGED <<disk, saved, others>>

Edits == used.edits < MaxUserEdits /\ used' = [used EXCEPT !.edits = @ + 1]

(* A file of the user's own in the plugin's place. *)
PutFile(path) ==
  /\ Edits
  /\ body' = Append(body, "foreign")
  /\ dir' = With(path, NewFile)
  /\ users' = (users \cup {NewFile}) \ (IF Present(path) THEN {dir[path]} ELSE {})
  /\ UNCHANGED <<saved, job, home, trusted>>

(* The plugin is edited in place, with or without its first line. *)
EditInPlace(path) ==
  /\ Edits /\ Present(path) /\ body[dir[path]] \in Ours
  /\ \E to \in {"older", "foreign"} :
       /\ body' = [body EXCEPT ![dir[path]] = to]
       /\ users' = IF to = "foreign" THEN users \cup {dir[path]} ELSE users
  /\ UNCHANGED <<dir, saved, job, home, trusted>>

DeleteFile(path) ==
  /\ Edits /\ Present(path)
  /\ dir' = Without(path)
  /\ users' = users \ {dir[path]}
  /\ UNCHANGED <<body, saved, job, home, trusted>>

MoveHome ==
  /\ Edits /\ NoCommand
  /\ home' \in Home \ {home}
  /\ UNCHANGED <<disk, saved, job, users, trusted>>

User == MoveHome \/ \E h \in Home : PutFile(<<h>>) \/ EditInPlace(<<h>>) \/ DeleteFile(<<h>>)

PluginStep ==
  \/ Prepare \/ Configure \/ Unconfigure \/ RemoveIdentity \/ Forget
  \/ CollectTargets \/ CleanTarget \/ CheckCleanup \/ ReconcilePlugin \/ Ensure
  \/ RemoveTask \/ Record \/ CommandEnds
  \/ Retain \/ Release \/ Create \/ WriteStage \/ UnlinkFile \/ DropLink
  \/ LinkFile \/ RenameFile \/ Verify \/ RestoreFile
  \/ RemoveInner \/ Gone \/ VerifyPublished \/ StepFails

PluginNext ==
  \/ \E cmd \in {"connect", "unsource", "repair", "disconnect", "uninstall"} : Command(cmd)
  \/ PluginStep \/ RecordFails \/ Die \/ User

(* A command runs to its end, and whoever has uninstalled without success  *)
(* tries again.                                                            *)
PluginFair == PluginStep \/ Command("uninstall")

PluginSpec == PluginInit /\ [][PluginNext]_pluginVars /\ WF_pluginVars(PluginFair)

-----------------------------------------------------------------------------
(* Properties *)

PluginTypeOK ==
  /\ \A p \in DOMAIN dir \cup ToSet(journal) :
       /\ p[1] \in Home
       /\ Kind(p) \in {"canonical", "stage", "probe", "quarantine"}
  /\ \A p \in DOMAIN dir : dir[p] \in DOMAIN body
  /\ \A n \in DOMAIN body : body[n] \in {"torn", "current", "older", "foreign"}
  /\ connection \in {NoPath, "plain", "wants"} /\ home \in Home
  /\ users \subseteq DOMAIN body

(* Nothing of the user's is overwritten or deleted, whatever the commands  *)
(* do between looking at a file and moving it.                             *)
UserFilesKept == \A n \in users : Names(n) # {}

(* No file is forgotten: whatever has a name of the connector's making is  *)
(* in the journal, also after a death, and a plugin of ours is recorded or *)
(* journaled, or linked to a journaled stage.  A plugin whose journal      *)
(* entry went because it was the committed one is let off.                 *)
LeftoversAreKnown ==
  \A p \in DOMAIN dir :
    \/ p \in ToSet(journal)
    \/ Kind(p) = "canonical" /\ body[dir[p]] = "foreign"
    \/ Kind(p) = "canonical" /\ (p = install \/ p \in trusted)
    \/ \E q \in Names(dir[p]) : q \in ToSet(journal)

(* Uninstalling until it succeeds leaves nothing of ours behind. *)
EventuallyUninstalled ==
  <>[](\A p \in DOMAIN dir : body[dir[p]] = "foreign" \/ p \in trusted)

=============================================================================
