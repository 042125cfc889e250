----------------------------- MODULE AgentHooks -----------------------------
(***************************************************************************)
(* The hooks in the settings of the coding agents, and the installed copy  *)
(* of the connector that they start (packages/connector/lib/config.mjs,    *)
(* updateHook to removeHooks and installRuntime; the commands connect,     *)
(* doctor --repair, source remove, disconnect, reset-installation and      *)
(* uninstall of bin/viberacing.mjs).  A settings file belongs to the user, *)
(* who may edit it at any time; the connector changes only its own         *)
(* handlers in it, but it reads the file and replaces it later.            *)
(*                                                                         *)
(* Commands change settings under the lifecycle lock; they run in several  *)
(* terminals, wait for one another, fail and die.                          *)
(***************************************************************************)
EXTENDS Naturals, FiniteSets

CONSTANTS
  Console,    \* where commands are entered
  Hooked,       \* the sources that have a hook, each with its settings file
  Codex,       \* the one of them whose hook starts the launcher
  Foreign,     \* handlers of the user's own
  LastVersion, \* the newest version of the connector
  Unlocked,    \* nobody holds the lifecycle lock
  MaxCommands, MaxTouches \* bounds

Version == 1..LastVersion

(* A handler of the connector's: it carries the mark of this source, of an *)
(* old connector without sources, or of a source of an installation that   *)
(* is no more; it starts the launcher (0) or the copy of a version.        *)
Handler == [mark : {"mine", "legacy", "former"}, script : 0..LastVersion]
OwnHook(s, v) == [mark |-> "mine", script |-> IF s = Codex THEN 0 ELSE v]

VARIABLES
  settingsFile, \* Hooked -> [state, theirs, ours]
  copies,   \* Version -> the installed copy: "absent", "whole", "broken"
  launcher, \* the version it starts, 0: none
  paired,   \* config.json: the sources that are connected
  listed,   \* sources.json
  attempt,  \* the terminal whose pairing is under way
  lifeLock, \* the lifecycle lock
  shell,    \* Console -> the command that runs
  commands, touches, \* counters of the bounds
  meant,    \* Hooked -> the handlers that the user wants
  raced,    \* sources whose settings the user changed between read and replace
  damaged,  \* versions whose copy was damaged, or whose repair died half-way
  unsettled, stale \* sources a command has yet to bring in line; those that an
                   \* overtaken repair has treated by an old configuration

agentVars == <<settingsFile, copies, launcher, paired, listed, attempt, lifeLock, shell,
               commands, touches, meant, raced, damaged, unsettled, stale>>

NoSettings == [state |-> "none", theirs |-> {}, ours |-> {}]
NoCommand == [pc |-> "idle", kind |-> "none", version |-> 1, conf |-> {}, todo |-> {}, put |-> {},
              at |-> Codex, copy |-> NoSettings, moved |-> "absent", failed |-> FALSE]

(* Nothing is installed, except hooks that an older connector or another   *)
(* installation may have left; or version 1 is, and connected.             *)
AgentInit ==
  /\ \/ /\ paired = {} /\ copies = [v \in Version |-> "absent"] /\ launcher = 0
        /\ settingsFile \in [Hooked -> {NoSettings} \cup
             [state : {"ok"}, theirs : {Foreign}, ours : {{[mark |-> m, script |-> 1]} : m \in {"legacy", "former"}}]]
     \/ /\ paired = Hooked /\ copies = [v \in Version |-> IF v = 1 THEN "whole" ELSE "absent"]
        /\ launcher = 1
        /\ settingsFile = [s \in Hooked |-> [state |-> "ok", theirs |-> Foreign, ours |-> {OwnHook(s, 1)}]]
  /\ listed = paired /\ attempt = Unlocked /\ lifeLock = Unlocked
  /\ shell = [t \in Console |-> NoCommand]
  /\ commands = 0 /\ touches = 0
  /\ meant = [s \in Hooked |-> settingsFile[s].theirs]
  /\ raced = {} /\ damaged = {} /\ stale = {}
  /\ unsettled = {s \in Hooked \ paired : settingsFile[s] # NoSettings}

-----------------------------------------------------------------------------
In(t, step) == shell[t].pc = step
Step(t, step) == shell' = [shell EXCEPT ![t].pc = step]
Ends(t) == shell' = [shell EXCEPT ![t] = NoCommand] /\ lifeLock' = Unlocked

Bounds == UNCHANGED <<commands, touches>>
Settings == UNCHANGED <<settingsFile, meant, raced, unsettled, stale>>
Installed == UNCHANGED <<copies, launcher, damaged>>
Connection == UNCHANGED <<paired, listed, attempt>>

(* Commands that take out every hook of the connector's. *)
Removals == {"disconnect", "uninstall", "reset"}

(* doctor --repair reads the configuration before it waits for the lock.   *)
CommandEntered(t) ==
  /\ In(t, "idle") /\ commands < MaxCommands /\ commands' = commands + 1
  /\ \E kind \in {"connect", "repair", "remove"} \cup Removals, v \in Version :
     \E conf \in SUBSET Hooked :
       /\ conf # {}
       /\ kind = "repair" => conf = paired
       /\ kind = "remove" => Cardinality(conf) = 1 /\ conf \subseteq listed
       /\ kind \in Removals => conf = Hooked
       /\ kind \in Removals \cup {"remove"} => v = 1
       /\ shell' = [shell EXCEPT ![t] =
                      [NoCommand EXCEPT !.pc = "wait", !.kind = kind, !.version = v, !.conf = conf]]
  /\ UNCHANGED <<lifeLock, touches>> /\ Settings /\ Installed /\ Connection

(* The command has the lifecycle lock.  Removals cancel a pairing that is  *)
(* under way; a disconnection first removes the configuration.             *)
LockTaken(t) ==
  LET kind == shell[t].kind IN
  /\ In(t, "wait") /\ lifeLock = Unlocked /\ lifeLock' = t
  /\ shell' = [shell EXCEPT ![t].pc = CASE kind = "connect" -> "verify" [] kind = "repair" -> "stage"
                                       [] OTHER -> "read",
                            ![t].todo = IF kind \in {"connect", "repair"} THEN {} ELSE @ \cup shell[t].conf]
  /\ attempt' = IF kind \in {"connect", "repair"} THEN attempt ELSE Unlocked
  /\ paired' = IF kind = "disconnect" THEN {} ELSE paired
  /\ unsettled' = IF kind \in {"connect", "repair"} THEN unsettled ELSE unsettled \cup shell[t].conf
  /\ UNCHANGED <<settingsFile, meant, raced, stale, listed>> /\ Installed /\ Bounds

-----------------------------------------------------------------------------
(* installRuntime.  A whole copy is kept, unless this is a repair; a new   *)
(* one is staged beside it, verified, and takes its name; a repair moves   *)
(* the old one aside first, and back when that fails.                      *)
Whole(v) == copies[v] = "whole"

(* Mutation: the launcher moves on although the version is not there. *)
VerifyNever(t) ==
  /\ In(t, "verify") /\ Step(t, "launch")
  /\ UNCHANGED lifeLock /\ Settings /\ Installed /\ Connection /\ Bounds

Verify(t) ==
  /\ In(t, "verify") /\ Step(t, IF Whole(shell[t].version) THEN "launch" ELSE "stage")
  /\ UNCHANGED lifeLock /\ Settings /\ Installed /\ Connection /\ Bounds

StageCopy(t) ==
  /\ In(t, "stage")
  /\ \/ Step(t, IF shell[t].kind = "repair" THEN "move" ELSE "place") /\ UNCHANGED lifeLock
     \/ Ends(t)
  /\ Settings /\ Installed /\ Connection /\ Bounds

MoveAside(t) ==
  LET v == shell[t].version IN
  /\ In(t, "move")
  /\ copies' = [copies EXCEPT ![v] = "absent"]
  /\ shell' = [shell EXCEPT ![t].pc = "place", ![t].moved = copies[v]]
  /\ UNCHANGED <<launcher, damaged, lifeLock>> /\ Settings /\ Connection /\ Bounds

(* Only a free name can be taken; when it is not free, the copy that is    *)
(* there may do.                                                           *)
Place(t) ==
  LET v == shell[t].version IN
  /\ In(t, "place")
  /\ \/ /\ copies[v] = "absent"
        /\ copies' = [copies EXCEPT ![v] = "whole"] /\ damaged' = damaged \ {v}
        /\ Step(t, "launch") /\ UNCHANGED lifeLock
     \/ /\ copies' = [copies EXCEPT ![v] = IF @ = "absent" THEN shell[t].moved ELSE @]
        /\ UNCHANGED damaged
        /\ IF shell[t].kind # "repair" /\ Whole(v) THEN Step(t, "launch") /\ UNCHANGED lifeLock ELSE Ends(t)
  /\ UNCHANGED launcher /\ Settings /\ Connection /\ Bounds

(* The launcher starts this version from now on.  A repair goes on to the  *)
(* hooks; connect gives the lock back and waits for the user's approval.   *)
Launch(t) ==
  LET repair == shell[t].kind = "repair" IN
  /\ In(t, "launch") /\ launcher' = shell[t].version
  /\ shell' = [shell EXCEPT ![t].pc = IF repair THEN "read" ELSE "pairing",
                            ![t].todo = IF repair THEN listed \ shell[t].conf ELSE {},
                            ![t].put = IF repair THEN shell[t].conf ELSE {}]
  /\ lifeLock' = IF repair THEN lifeLock ELSE Unlocked
  /\ attempt' = IF repair THEN attempt ELSE t
  /\ UNCHANGED <<copies, damaged, paired, listed>> /\ Settings /\ Bounds

(* The pairing is approved; it is stored if it is still the one under way. *)
Approved(t) ==
  /\ In(t, "pairing") /\ lifeLock = Unlocked
  /\ IF attempt = t
     THEN /\ lifeLock' = t /\ attempt' = Unlocked
          /\ paired' = shell[t].conf /\ listed' = listed \cup shell[t].conf
          /\ unsettled' = unsettled \cup listed'
          /\ shell' = [shell EXCEPT ![t].pc = "read", ![t].todo = listed \ shell[t].conf,
                                    ![t].put = shell[t].conf]
     ELSE Ends(t) /\ Connection /\ UNCHANGED unsettled
  /\ UNCHANGED <<settingsFile, meant, raced, stale>> /\ Installed /\ Bounds

-----------------------------------------------------------------------------
(* Mutation: handlers of old connectors stay beside the new one. *)
UpdatedBeside(t, s, file) ==
  LET me == shell[t]
      kept == {h \in file.ours : h.mark # "mine" /\ me.kind \notin Removals}
  IN IF s \in me.todo THEN [file EXCEPT !.ours = kept]
     ELSE [file EXCEPT !.state = "ok", !.ours = kept \cup {OwnHook(s, me.version)}]

(* updateHook: handlers of this source, and of no source, are replaced by  *)
(* one of the installed version or taken out; a disconnection takes out    *)
(* all that are the connector's.                                           *)
Updated(t, s, file) ==
  LET me == shell[t]
      kept == {h \in file.ours : h.mark = "former" /\ me.kind \notin Removals}
  IN IF s \in me.todo THEN [file EXCEPT !.ours = kept]
     ELSE [file EXCEPT !.state = "ok", !.ours = kept \cup {OwnHook(s, me.version)}]

(* The settings of a source are as this command wants them.  An overtaken  *)
(* repair may want what the configuration no longer says.                  *)
InLine(t, s) ==
  /\ unsettled' = unsettled \ {s}
  /\ stale' = IF shell[t].kind = "repair" /\ (s \in shell[t].put) # (s \in paired)
              THEN stale \cup {s} ELSE stale \ {s}

Done(t, s, failed) ==
  shell' = [shell EXCEPT ![t].pc = "read", ![t].todo = @ \ {s}, ![t].put = @ \ {s},
                         ![t].copy = NoSettings, ![t].failed = @ \/ failed]

NextAgents(t) == IF shell[t].todo # {} THEN shell[t].todo ELSE shell[t].put

(* Settings that cannot be parsed stay as they are; so do those in which   *)
(* there is nothing to change.                                             *)
ReadSettings(t) ==
  /\ In(t, "read")
  /\ \E s \in NextAgents(t) :
       LET file == settingsFile[s] IN
       IF file.state = "bad" THEN Done(t, s, TRUE) /\ UNCHANGED <<unsettled, stale>>
       ELSE IF Updated(t, s, file) = file THEN Done(t, s, FALSE) /\ InLine(t, s)
       ELSE /\ shell' = [shell EXCEPT ![t].pc = "write", ![t].at = s, ![t].copy = file]
            /\ UNCHANGED <<unsettled, stale>>
  /\ UNCHANGED <<lifeLock, settingsFile, meant, raced>> /\ Installed /\ Connection /\ Bounds

WriteSettings(t) ==
  LET s == shell[t].at IN
  /\ In(t, "write")
  /\ \/ /\ settingsFile' = [settingsFile EXCEPT ![s] = Updated(t, s, shell[t].copy)]
        /\ raced' = IF settingsFile[s] # shell[t].copy THEN raced \cup {s} ELSE raced
        /\ Done(t, s, FALSE) /\ InLine(t, s)
     \/ Done(t, s, TRUE) /\ UNCHANGED <<settingsFile, raced, unsettled, stale>>
  /\ UNCHANGED <<lifeLock, meant>> /\ Installed /\ Connection /\ Bounds

(* The end of a command that leaves what is installed and listed.          *)
HooksDone(t) == In(t, "read") /\ NextAgents(t) = {} /\ Ends(t)

CommandEnds(t) ==
  /\ HooksDone(t) /\ shell[t].kind \in {"connect", "repair", "disconnect"}
  /\ Settings /\ Installed /\ Connection /\ Bounds

(* source remove: the source goes when its hook is gone. *)
SourceRemoved(t) ==
  LET gone == IF shell[t].failed THEN {} ELSE shell[t].conf IN
  /\ HooksDone(t) /\ shell[t].kind = "remove"
  /\ paired' = paired \ gone /\ listed' = listed \ gone
  /\ UNCHANGED attempt /\ Settings /\ Installed /\ Bounds

(* uninstall removes the copies when no hook is left that might start one; *)
(* reset-installation, and an uninstall that could not clean up, keep them *)
(* and the list of sources.                                                *)
Uninstalled(t) ==
  /\ HooksDone(t) /\ shell[t].kind = "uninstall" /\ ~shell[t].failed
  /\ paired' = {} /\ listed' = {} /\ copies' = [v \in Version |-> "absent"] /\ launcher' = 0
  /\ UNCHANGED <<attempt, damaged>> /\ Settings /\ Bounds

InstallationReset(t) ==
  /\ HooksDone(t)
  /\ shell[t].kind = "reset" \/ (shell[t].kind = "uninstall" /\ shell[t].failed)
  /\ paired' = {} /\ UNCHANGED <<listed, attempt>>
  /\ Settings /\ Installed /\ Bounds

(* The process dies; a lock it held can be taken from it. *)
CommandDies(t) ==
  LET me == shell[t] IN
  /\ ~In(t, "idle")
  /\ shell' = [shell EXCEPT ![t] = NoCommand]
  /\ lifeLock' = IF lifeLock = t THEN Unlocked ELSE lifeLock
  /\ damaged' = IF me.pc = "place" /\ me.moved # "absent" THEN damaged \cup {me.version} ELSE damaged
  /\ unsettled' = IF lifeLock = t /\ me.kind \in {"remove", "uninstall", "reset"}
                  THEN unsettled \cup me.conf ELSE unsettled
  /\ UNCHANGED <<settingsFile, meant, raced, stale, copies, launcher>> /\ Connection /\ Bounds

-----------------------------------------------------------------------------
(* The user edits settings, with all their handlers or without, and with   *)
(* or without the connector's; saves them in a form that does not parse,   *)
(* or mends them; or damages a copy.                                       *)
UserEdits(s) ==
  /\ touches < MaxTouches /\ touches' = touches + 1
  /\ \E theirs \in {{}, Foreign}, form \in {"ok", "bad"}, ours \in {{}, settingsFile[s].ours} :
       /\ settingsFile' = [settingsFile EXCEPT ![s] = [state |-> form, theirs |-> theirs, ours |-> ours]]
       /\ meant' = [meant EXCEPT ![s] = theirs]
       /\ unsettled' = IF ours # settingsFile[s].ours THEN unsettled \cup {s} ELSE unsettled
  /\ UNCHANGED <<raced, stale, lifeLock, shell, commands>> /\ Installed /\ Connection

CopyDamaged(v) ==
  /\ touches < MaxTouches /\ touches' = touches + 1
  /\ Whole(v)
  /\ copies' = [copies EXCEPT ![v] = "broken"] /\ damaged' = damaged \cup {v}
  /\ UNCHANGED <<launcher, lifeLock, shell, commands>> /\ Settings /\ Connection

AgentNext ==
  \/ \E t \in Console :
       \/ CommandEntered(t) \/ LockTaken(t) \/ Verify(t) \/ StageCopy(t) \/ MoveAside(t) \/ Place(t)
       \/ Launch(t) \/ Approved(t) \/ ReadSettings(t) \/ WriteSettings(t) \/ CommandEnds(t)
       \/ SourceRemoved(t) \/ Uninstalled(t) \/ InstallationReset(t) \/ CommandDies(t)
  \/ \E s \in Hooked : UserEdits(s)
  \/ \E v \in Version : CopyDamaged(v)

AgentSpec == AgentInit /\ [][AgentNext]_agentVars

-----------------------------------------------------------------------------
SettingsType == [state : {"none", "ok", "bad"}, theirs : SUBSET Foreign, ours : SUBSET Handler]

AgentTypeOK ==
  /\ settingsFile \in [Hooked -> SettingsType]
  /\ copies \in [Version -> {"absent", "whole", "broken"}] /\ launcher \in 0..LastVersion
  /\ paired \subseteq listed /\ listed \subseteq Hooked
  /\ {attempt, lifeLock} \subseteq Console \cup {Unlocked}
  /\ \A t \in Console :
       /\ shell[t].pc \in {"idle", "wait", "verify", "stage", "move", "place", "launch", "pairing",
                           "read", "write"}
       /\ shell[t].version \in Version /\ shell[t].copy \in SettingsType
       /\ shell[t].pc \notin {"idle", "wait", "pairing"} <=> lifeLock = t
  /\ commands \in 0..MaxCommands /\ touches \in 0..MaxTouches
  /\ raced \cup unsettled \cup stale \subseteq Hooked /\ damaged \subseteq Version

(* The handlers of the user's are as they left them, unless they edited    *)
(* the file between a command's reading and replacing it.                  *)
TheirsKept == \A s \in Hooked \ raced : settingsFile[s].theirs = meant[s]

(* A hook starts a whole copy, except while a repair has the copy aside,   *)
(* and when it was damaged or such a repair died.                          *)
Aside(v) == \E t \in Console : In(t, "place") /\ shell[t].version = v /\ shell[t].moved # "absent"

HooksStart ==
  \A s \in Hooked : \A h \in settingsFile[s].ours :
    LET v == IF h.script = 0 THEN launcher ELSE h.script IN
    h.mark = "mine" => v # 0 /\ (Whole(v) \/ v \in damaged \/ Aside(v))

(* When no command is at work, a connected source has one hook and another *)
(* none, except where a command failed or died, where the user took hooks  *)
(* out, and where a repair was overtaken by a change of the configuration. *)
AsConfigured ==
  lifeLock = Unlocked =>
    \A s \in Hooked \ (unsettled \cup stale) :
      LET ours == {h \in settingsFile[s].ours : h.mark # "former"} IN
      IF s \in paired THEN \E v \in Version : ours = {OwnHook(s, v)} ELSE ours = {}

=============================================================================
