------------------------------ MODULE Pairing ------------------------------
(***************************************************************************)
(* Connecting a computer: the pairing routes of the web application        *)
(* (apps/web/app/api/pairing, installations/current, connections, sources) *)
(* and the lifecycle commands of the connector that call them (connect,    *)
(* source add, source remove, disconnect, reset-installation, and the      *)
(* cleanup after a 401), with the files they keep: the installation        *)
(* identity, the configuration, the source registry, the connect attempt   *)
(* and the journal of a configuration commit.                              *)
(*                                                                         *)
(* A start makes one fresh token stand for the pairing code, the poll      *)
(* token and the device token derived from it: the three are made together *)
(* and told apart only by the column that holds them.  Every route is one  *)
(* transaction and so one step; a command's request may be answered,       *)
(* refused, or answered to nobody.  Blocks of a command under the          *)
(* lifecycle lock exclude each other; a dead process loses the lock.  Two  *)
(* files are written by two steps, and a crash may come between them.      *)
(***************************************************************************)
EXTENDS Naturals, FiniteSets

CONSTANTS
  Inst,       \* installation identities that may be created
  Client,     \* client source ids
  Token,      \* tokens that starts may draw; bounds the number of starts
  Conn,       \* processes running `viberacing connect`
  Cmd,        \* processes running another lifecycle command
  None,       \* no value
  MaxCmds,    \* bound: other lifecycle commands, and decisions in the browser
  PairFaults  \* what may go wrong: a subset of {"lost", "crash"}

ASSUME PairingAssumption ==
  /\ None \notin Inst \cup Token \cup Conn \cup Cmd
  /\ Conn \cap Cmd = {}
  /\ MaxCmds \in Nat
  /\ PairFaults \subseteq {"lost", "crash"}

VARIABLES
  inst,      \* server: the row of each installation
  source,    \* server: the rows of its sources
  identity,  \* installation.json
  config,    \* config.json
  journal,   \* connection-commit.json
  attempt,   \* connect-attempt.json
  registry,  \* sources.json
  lock,      \* who runs a block under the lifecycle lock
  pc,        \* what each process is about to do
  my,        \* what each process has read
  shown,     \* the codes shown to the user
  drawn,     \* the tokens starts have drawn
  cmds,      \* commands and decisions so far
  unsure     \* tokens whose revocation was tried and never confirmed

server == <<inst, source>>
files == <<identity, config, journal, attempt, registry>>
pairVars == <<server, files, lock, pc, my, shown, drawn, cmds, unsure>>

Proc == Conn \cup Cmd
TokenOr == Token \cup {None}

InstRow ==
  [status : {"none", "pending", "active", "revoked"},
   code : TokenOr, poll : TokenOr, pend : TokenOr, device : TokenOr, fresh : BOOLEAN]
SourceRow ==
  [status : {"none", "pending", "active", "disconnected"}, code : TokenOr, drop : BOOLEAN,
   used : BOOLEAN]   \* has it rows in daily_usage?
Config == [inst : Inst, token : Token, srcs : SUBSET Client]
Attempt == [by : Conn, inst : Inst, poll : TokenOr]
Journal == [attempt : Attempt, config : Config, registry : SUBSET Client]

(* What a missing file is read as is no file's contents. *)
ASSUME AbsentAssumption == None \notin Config \cup Attempt \cup Journal

Memory ==
  [snap : Config \cup {None}, expected : SUBSET Client, local : SUBSET Client,
   want : SUBSET Client, id : Inst \cup {None}, tok : TokenOr, began : BOOLEAN,
   which : Client \cup {None}]

PCs ==
  {"off", "detect", "prepare", "cancelOld", "identify", "begin", "start", "record",
   "poll", "commit", "writeConfig", "writeSources", "unlinkJournal", "unlinkAttempt",
   "hooks", "abort", "clear",
   "disconnect", "revoke", "disable", "add", "addSource", "remove", "deleteSource",
   "writeWithout", "forget", "dropSource", "reset", "resetLocal"}

PairingTypeOK ==
  /\ inst \in [Inst -> InstRow]
  /\ source \in [Inst -> [Client -> SourceRow]]
  /\ identity \in Inst \cup {None}
  /\ config \in Config \cup {None}
  /\ journal \in Journal \cup {None}
  /\ attempt \in Attempt \cup {None}
  /\ registry \subseteq Client
  /\ lock \in Proc \cup {None}
  /\ pc \in [Proc -> PCs]
  /\ my \in [Proc -> Memory]
  /\ shown \subseteq Token /\ drawn \subseteq Token /\ unsure \subseteq Token
  /\ cmds \in 0 .. MaxCmds

NoInst ==
  [status |-> "none", code |-> None, poll |-> None, pend |-> None, device |-> None,
   fresh |-> FALSE]
NoSource == [status |-> "none", code |-> None, drop |-> FALSE, used |-> FALSE]
Blank ==
  [snap |-> None, expected |-> {}, local |-> {}, want |-> {}, id |-> None, tok |-> None,
   began |-> FALSE, which |-> None]

PairingInit ==
  /\ inst = [i \in Inst |-> NoInst]
  /\ source = [i \in Inst |-> [c \in Client |-> NoSource]]
  /\ identity = None /\ config = None /\ journal = None /\ attempt = None
  /\ registry = {} /\ lock = None
  /\ pc = [p \in Proc |-> "off"]
  /\ my = [p \in Proc |-> Blank]
  /\ shown = {} /\ drawn = {} /\ cmds = 0 /\ unsure = {}

----------------------------------------------------------------------------
(* The routes: each gives the rows of one installation after its transaction. *)

SourcesAfter(i, Row(_)) == [source EXCEPT ![i] = [c \in Client |-> Row(source[i][c])]]

Unpaired(row) == [row EXCEPT !.code = None, !.drop = FALSE]

(* Mutant: the rows of an earlier start keep its code. *)
PairedRowKeepingCodes(i, t, want, dropped, c) ==
  LET old == source[i][c]
  IN  CASE c \in want ->
             [old EXCEPT !.status = IF @ = "none" THEN "pending" ELSE @, !.code = t]
        [] c \in dropped /\ old.status = "active" -> [old EXCEPT !.code = t, !.drop = TRUE]
        [] OTHER -> old

(* POST /api/pairing/start.  Expired pending installations are deleted; the *)
(* rows an earlier start left behind go, and the new attempt is written     *)
(* beside whatever is active.                                               *)
Purged == [i \in Inst |-> IF inst[i].status = "pending" /\ ~inst[i].fresh THEN NoInst ELSE inst[i]]

PairedRow(i, t, want, dropped, c) ==
  LET old == source[i][c]
      kept == IF old.status = "pending" \/ Purged[i].status = "none"
              THEN NoSource ELSE Unpaired(old)
  IN  CASE c \in want ->
             [kept EXCEPT !.status = IF @ = "none" THEN "pending" ELSE @, !.code = t]
        [] c \in dropped /\ kept.status = "active" -> [kept EXCEPT !.code = t, !.drop = TRUE]
        [] OTHER -> kept

StartRoute(i, t, want, dropped) ==
  /\ inst' = [Purged EXCEPT ![i] =
                [status |-> IF @.status = "active" THEN "active" ELSE "pending",
                 code |-> t, poll |-> t, pend |-> t, device |-> @.device, fresh |-> TRUE]]
  /\ source' =
       [j \in Inst |->
         [c \in Client |->
           IF j = i THEN PairedRow(i, t, want, dropped, c)
           ELSE IF Purged[j].status = "none" THEN NoSource ELSE source[j][c]]]

(* POST /api/pairing/approve, in the browser: the code's sources become     *)
(* active and its token becomes the device token; superseded sources are    *)
(* disconnected and their usage is deleted.                                 *)
ApproveRoute(i, t) ==
  /\ inst[i].code = t /\ inst[i].fresh /\ inst[i].status \in {"pending", "active"}
  /\ \E c \in Client : source[i][c].code = t /\ ~source[i][c].drop
  /\ inst' = [inst EXCEPT ![i].status = "active", ![i].device = inst[i].pend,
                          ![i].pend = None, ![i].code = None]
  /\ source' = SourcesAfter(i, LAMBDA row :
       IF row.code # t THEN row
       ELSE [status |-> IF row.drop THEN "disconnected" ELSE "active",
             code |-> None, drop |-> FALSE, used |-> row.used /\ ~row.drop])

(* Mutant: a cancelled attempt takes the installation with it. *)
CancelRouteRevoking(i, t) ==
  /\ inst[i].poll = t
  /\ inst' = [inst EXCEPT ![i] = [NoInst EXCEPT !.status = "revoked"]]
  /\ source' = SourcesAfter(i, LAMBDA row :
       IF row.status = "pending" THEN NoSource
       ELSE IF row.status = "active" THEN [Unpaired(row) EXCEPT !.status = "disconnected"]
       ELSE Unpaired(row))

(* POST /api/pairing/cancel, and the token given to it.  It revokes the     *)
(* installation unless the token belongs to an attempt that was never       *)
(* approved on an installation that is active without it.                   *)
CancelRoute(i, t) ==
  /\ inst[i].poll = t
  /\ LET revoke == inst[i].status # "active" \/ inst[i].device = t
     IN  /\ inst' = [inst EXCEPT
                ![i] = [inst[i] EXCEPT !.status = IF revoke THEN "revoked" ELSE @,
                                       !.device = IF revoke THEN None ELSE @,
                                       !.code = None, !.poll = None, !.pend = None,
                                       !.fresh = FALSE]]
         /\ source' = SourcesAfter(i, LAMBDA row :
              IF row.status = "pending" THEN NoSource
              ELSE IF revoke /\ row.status = "active"
                   THEN [Unpaired(row) EXCEPT !.status = "disconnected"]
                   ELSE Unpaired(row))

CancelOrIgnore(t) ==
  IF \E i \in Inst : inst[i].poll = t
  THEN \E i \in Inst : CancelRoute(i, t)
  ELSE UNCHANGED server

Authorized(i, t) == t # None /\ inst[i].device = t /\ inst[i].status = "active"

(* DELETE /api/installations/current, by the holder of the device token. *)
RevokeSelf(i) ==
  /\ inst' = [inst EXCEPT ![i] = [NoInst EXCEPT !.status = "revoked"]]
  /\ source' = SourcesAfter(i, LAMBDA row :
       IF row.status = "pending" THEN NoSource
       ELSE IF row.status = "active" THEN [Unpaired(row) EXCEPT !.status = "disconnected"]
       ELSE Unpaired(row))

(* DELETE /api/sources/<id>, by the holder of the device token. *)
DeleteSource(i, c) ==
  /\ source' = IF source[i][c].status = "active"
               THEN [source EXCEPT ![i][c].status = "disconnected"] ELSE source
  /\ UNCHANGED inst

(* POST /api/usage, by the holder of the device token. *)
UploadRoute(i, c) ==
  /\ source[i][c].status = "active"
  /\ source' = [source EXCEPT ![i][c].used = TRUE]
  /\ UNCHANGED inst

(* What POST /api/pairing/poll answers; the token is the caller's. *)
PollAnswer(i, t) ==
  CASE inst[i].poll # t \/ ~inst[i].fresh -> "missing"
    [] inst[i].status = "revoked" -> "revoked"
    [] inst[i].status # "active" \/ inst[i].pend # None -> "pending"
    [] inst[i].device # t -> "missing"
    [] OTHER -> "active"

Mapped(i) == {c \in Client : source[i][c].status = "active"}

----------------------------------------------------------------------------
(* The user's decisions in the browser, and the pairing's ten minutes. *)

Approve ==
  /\ \E i \in Inst, t \in shown : ApproveRoute(i, t)
  /\ UNCHANGED <<files, lock, pc, my, shown, drawn, cmds, unsure>>

(* POST /api/connections/revoke leaves the pairing columns as they are. *)
RevokeInBrowser ==
  /\ cmds < MaxCmds /\ cmds' = cmds + 1
  /\ \E i \in Inst :
       /\ inst[i].status = "active"
       /\ inst' = [inst EXCEPT ![i].status = "revoked", ![i].device = None]
       /\ source' = SourcesAfter(i, LAMBDA row :
            IF row.status = "active" THEN [row EXCEPT !.status = "disconnected"] ELSE row)
  /\ UNCHANGED <<files, lock, pc, my, shown, drawn, unsure>>

DisconnectInBrowser ==
  /\ cmds < MaxCmds /\ cmds' = cmds + 1
  /\ \E i \in Inst, c \in Client : source[i][c].status = "active" /\ DeleteSource(i, c)
  /\ UNCHANGED <<files, lock, pc, my, shown, drawn, unsure>>

Expire ==
  /\ \E i \in Inst : inst[i].fresh /\ inst' = [inst EXCEPT ![i].fresh = FALSE]
  /\ UNCHANGED <<source, files, lock, pc, my, shown, drawn, cmds, unsure>>

----------------------------------------------------------------------------
(* The connector's files. *)

Goto(p, from, to) == pc[p] = from /\ pc' = [pc EXCEPT ![p] = to]
Committing == {"writeConfig", "writeSources", "unlinkJournal", "unlinkAttempt"}
Enter(p) == lock = None /\ lock' = p /\ journal = None
Block(p) == lock = None /\ journal = None /\ UNCHANGED lock
Within(p) == lock = p /\ UNCHANGED lock
Leave(p) == lock = p /\ lock' = None

SameAttempt(a, p) ==
  a # None /\ my[p].began /\ a = [by |-> p, inst |-> my[p].id, poll |-> my[p].tok]
CurrentAttempt(p) == SameAttempt(attempt, p) /\ identity = attempt.inst

(* A commit interrupted by a crash is finished, or dropped when its attempt *)
(* is no longer the current one, by whoever next reads the configuration:   *)
(* every block of a command waits for this step.                            *)
RecoverCommit ==
  /\ journal # None
  /\ lock = None
  /\ journal' = None
  /\ IF attempt = journal.attempt /\ identity = attempt.inst
     THEN /\ config' = journal.config /\ registry' = journal.registry
          /\ attempt' = None
     ELSE config' = None /\ UNCHANGED <<registry, attempt>>
  /\ UNCHANGED <<server, identity, lock, pc, my, shown, drawn, cmds, unsure>>

(* disableLocalConnection: the configuration first, the identity last; it    *)
(* stays when the process dies in between, or when a plugin could not be     *)
(* cleaned up.  An attempt file that goes with them is not cancelled.        *)
RemoveConfig == config' = None /\ journal' = None /\ attempt' = None
DisableLocal == RemoveConfig /\ identity' \in {None, identity}
Dropped == IF attempt = None THEN {} ELSE {attempt.poll} \ {None}

(* Any command that is told 401 removes the local connection. *)
Rejected ==
  /\ lock = None /\ journal = None
  /\ config # None /\ ~Authorized(config.inst, config.token)
  /\ DisableLocal /\ unsure' = unsure \cup Dropped
  /\ UNCHANGED <<server, registry, lock, pc, my, shown, drawn, cmds>>

Sync ==
  /\ lock = None /\ journal = None
  /\ config # None /\ Authorized(config.inst, config.token)
  /\ \E c \in config.srcs : UploadRoute(config.inst, c)
  /\ UNCHANGED <<files, lock, pc, my, shown, drawn, cmds, unsure>>

----------------------------------------------------------------------------
(* viberacing connect. *)

Remember(p, m) == my' = [my EXCEPT ![p] = m]

(* Reconcile with the previous connection: a refused token removes it, and  *)
(* sources the server has disconnected leave the configuration.  The command *)
(* fails when the identity is not the configuration's.                      *)
Reconcile(p) ==
  /\ Block(p) /\ Goto(p, "off", "detect")
  /\ IF config = None
     THEN Remember(p, Blank) /\ UNCHANGED <<files, unsure>>
     ELSE IF ~Authorized(config.inst, config.token)
     THEN /\ Remember(p, Blank) /\ DisableLocal /\ UNCHANGED registry
          /\ unsure' = unsure \cup Dropped
     ELSE LET kept == {c \in config.srcs : source[config.inst][c].status # "disconnected"}
              next == [config EXCEPT !.srcs = kept]
          IN  /\ identity = config.inst
              /\ config' = next
              /\ IF next = config THEN UNCHANGED <<attempt, unsure>>
                 ELSE attempt' = None /\ unsure' = unsure \cup Dropped
              /\ Remember(p, [Blank EXCEPT !.snap = next, !.id = identity])
              /\ UNCHANGED <<identity, journal, registry>>
  /\ UNCHANGED <<server, shown, drawn, cmds>>

(* The registry is read and the agents are looked for; what was found is    *)
(* written only by the commit.  The sources to pair are exact ones, and     *)
(* those of the previous configuration that are still here.                 *)
Detect(p) ==
  /\ journal = None /\ Goto(p, "detect", "prepare")
  /\ \E local \in SUBSET Client, exact \in SUBSET Client :
       /\ exact # {} /\ exact \subseteq local
       /\ Remember(p, [my[p] EXCEPT !.expected = registry, !.local = local, !.want = exact])
  /\ UNCHANGED <<server, files, lock, shown, drawn, cmds, unsure>>

(* The previous attempt's file goes first, then its pairing is cancelled. *)
Invalidate(p) ==
  /\ my' = [my EXCEPT ![p].tok = IF attempt = None THEN None ELSE attempt.poll]
  /\ attempt' = None
  /\ UNCHANGED <<identity, config, journal, registry>>

Prepare(p) ==
  /\ Enter(p) /\ Goto(p, "prepare", "cancelOld")
  /\ Invalidate(p)
  /\ UNCHANGED <<server, shown, drawn, cmds, unsure>>

(* A cancellation that is not answered leaves its outcome unknown. *)
SendCancel(t) ==
  IF t = None THEN UNCHANGED <<server, unsure>>
  ELSE \/ CancelOrIgnore(t) /\ UNCHANGED unsure
       \/ "lost" \in PairFaults /\ unsure' = unsure \cup {t} /\ UNCHANGED server

CancelOld(p) ==
  /\ Leave(p) /\ Goto(p, "cancelOld", "identify")
  /\ SendCancel(my[p].tok)
  /\ my' = [my EXCEPT ![p].tok = None]
  /\ UNCHANGED <<files, shown, drawn, cmds>>

(* readOrCreateInstallation, unless the previous connection named it. *)
Identify(p) ==
  /\ Block(p) /\ Goto(p, "identify", "begin")
  /\ IF my[p].id # None THEN UNCHANGED <<identity, my>>
     ELSE \E i \in Inst :
            /\ IF identity = None THEN inst[i].status = "none" ELSE i = identity
            /\ identity' = i
            /\ my' = [my EXCEPT ![p].id = i]
  /\ UNCHANGED <<server, config, journal, attempt, registry, shown, drawn, cmds, unsure>>

AsRead(p) == config = my[p].snap /\ identity = my[p].id /\ registry = my[p].expected

(* Mutant: the attempt begins whatever has changed meanwhile. *)
BeginUnchecked(p) ==
  /\ Block(p) /\ Goto(p, "begin", "start")
  /\ attempt' = [by |-> p, inst |-> identity, poll |-> None]
  /\ my' = [my EXCEPT ![p].began = TRUE]
  /\ unsure' = unsure \cup Dropped
  /\ UNCHANGED <<server, identity, config, journal, registry, shown, drawn, cmds>>

(* beginConnectAttempt: nothing may have changed since the reads above.  An *)
(* attempt of another connect is overwritten.                               *)
Begin(p) ==
  /\ Block(p) /\ AsRead(p) /\ Goto(p, "begin", "start")
  /\ attempt' = [by |-> p, inst |-> identity, poll |-> None]
  /\ my' = [my EXCEPT ![p].began = TRUE]
  /\ unsure' = unsure \cup Dropped
  /\ UNCHANGED <<server, identity, config, journal, registry, shown, drawn, cmds>>

BeginStale(p) ==
  /\ Block(p) /\ ~AsRead(p) /\ Goto(p, "begin", "off")
  /\ my' = [my EXCEPT ![p] = Blank]
  /\ UNCHANGED <<server, files, shown, drawn, cmds, unsure>>

(* The start and the record of its token are one block.  Superseded sources *)
(* are those of the registry that are no longer found.  The request is sent *)
(* before the attempt is looked at again: the start of a connect whose      *)
(* attempt another one has replaced takes the poll token of that one away.  *)
RequestStart(p, t) ==
  /\ t \in Token \ drawn
  /\ drawn' = drawn \cup {t}
  /\ StartRoute(my[p].id, t, my[p].want, my[p].expected \ my[p].local)
  /\ unsure' = unsure \cup (IF SameAttempt(attempt, p) THEN {} ELSE {inst[my[p].id].poll} \ {None})

Start(p) ==
  /\ Enter(p) /\ Goto(p, "start", "record")
  /\ \E t \in Token : RequestStart(p, t) /\ my' = [my EXCEPT ![p].tok = t]
  /\ UNCHANGED <<files, shown, cmds>>

(* Refused, unreachable, or answered to nobody: there is no token to cancel. *)
StartFails(p) ==
  /\ Block(p) /\ Goto(p, "start", "abort")
  /\ \/ UNCHANGED <<server, drawn, unsure>>
     \/ "lost" \in PairFaults /\ \E t \in Token : RequestStart(p, t)
  /\ UNCHANGED <<files, my, shown, cmds>>

Recorded(p) ==
  SameAttempt([attempt EXCEPT !.poll = my[p].tok], p) /\ attempt.poll = None
    /\ identity = attempt.inst

(* The code is shown only once its token is on disk. *)
Record(p) ==
  /\ Leave(p) /\ pc[p] = "record"
  /\ IF attempt # None /\ Recorded(p)
     THEN /\ attempt' = [attempt EXCEPT !.poll = my[p].tok]
          /\ shown' = shown \cup {my[p].tok}
          /\ pc' = [pc EXCEPT ![p] = "poll"] /\ UNCHANGED my
     ELSE /\ pc' = [pc EXCEPT ![p] = "abort"]
          /\ my' = [my EXCEPT ![p].tok = None]
          /\ UNCHANGED <<attempt, shown>>
  /\ UNCHANGED <<server, identity, config, journal, registry, drawn, cmds, unsure>>

(* What may be paired: the exact sources and the previous ones still here. *)
Pairable(p) ==
  my[p].want \cup (IF my[p].snap = None THEN {} ELSE my[p].snap.srcs \cap my[p].local)

(* The answer must name every source that is required and no other. *)
PollActive(p) ==
  /\ Goto(p, "poll", "commit")
  /\ PollAnswer(my[p].id, my[p].tok) = "active"
  /\ Mapped(my[p].id) = Pairable(p)
  /\ UNCHANGED <<server, files, lock, my, shown, drawn, cmds, unsure>>

(* Any other final answer, a failure, or the deadline. *)
PollFails(p) ==
  /\ Goto(p, "poll", "abort")
  /\ \/ PollAnswer(my[p].id, my[p].tok) \in {"missing", "revoked"}
     \/ PollAnswer(my[p].id, my[p].tok) = "active" /\ Mapped(my[p].id) # Pairable(p)
     \/ ~inst[my[p].id].fresh
     \/ "lost" \in PairFaults
  /\ UNCHANGED <<server, files, lock, my, shown, drawn, cmds, unsure>>

(* Mutant: the journal goes before the registry has been written. *)
WriteConfigUnlinking(p) ==
  /\ Within(p) /\ pc[p] = "writeConfig"
  /\ config' = journal.config /\ journal' = None
  /\ pc' = [pc EXCEPT ![p] = "unlinkAttempt"]
  /\ UNCHANGED <<server, identity, attempt, registry, my, shown, drawn, cmds, unsure>>

(* commitConnectionState: the journal, the configuration, the registry, and *)
(* the journal and the attempt removed.                                     *)
Commit(p) ==
  /\ pc[p] = "commit" /\ lock = None /\ journal = None
  /\ IF CurrentAttempt(p)
     THEN /\ lock' = p /\ pc' = [pc EXCEPT ![p] = "writeConfig"]
          /\ journal' = [attempt |-> attempt, registry |-> my[p].local,
                         config |-> [inst |-> my[p].id, token |-> my[p].tok,
                                     srcs |-> Pairable(p)]]
     ELSE pc' = [pc EXCEPT ![p] = "abort"] /\ UNCHANGED <<lock, journal>>
  /\ UNCHANGED <<server, identity, config, attempt, registry, my, shown, drawn, cmds, unsure>>

WriteConfig(p) ==
  /\ Within(p) /\ Goto(p, "writeConfig", "writeSources")
  /\ config' = journal.config
  /\ UNCHANGED <<server, identity, journal, attempt, registry, my, shown, drawn, cmds, unsure>>

WriteSources(p) ==
  /\ Within(p) /\ Goto(p, "writeSources", "unlinkJournal")
  /\ registry' = journal.registry
  /\ UNCHANGED <<server, identity, config, journal, attempt, my, shown, drawn, cmds, unsure>>

UnlinkJournal(p) ==
  /\ Within(p) /\ Goto(p, "unlinkJournal", "unlinkAttempt")
  /\ journal' = None
  /\ UNCHANGED <<server, identity, config, attempt, registry, my, shown, drawn, cmds, unsure>>

UnlinkAttempt(p) ==
  /\ Within(p) /\ Goto(p, "unlinkAttempt", "hooks")
  /\ attempt' = None
  /\ UNCHANGED <<server, identity, config, journal, registry, my, shown, drawn, cmds, unsure>>

(* Hooks and the plugin are installed before the block ends; a failure there *)
(* still leads to the cleanup below.                                        *)
Hooks(p) ==
  /\ Leave(p) /\ pc[p] = "hooks"
  /\ \/ pc' = [pc EXCEPT ![p] = "off"] /\ my' = [my EXCEPT ![p] = Blank]
     \/ pc' = [pc EXCEPT ![p] = "abort"] /\ UNCHANGED my
  /\ UNCHANGED <<server, files, shown, drawn, cmds, unsure>>

(* Mutant: the cleanup forgets the pairing on the server. *)
AbortSilently(p) ==
  /\ Goto(p, "abort", "clear")
  /\ UNCHANGED <<server, unsure, files, lock, my, shown, drawn, cmds>>

(* finally: a pairing that was not committed is cancelled, then its file. *)
Abort(p) ==
  /\ Goto(p, "abort", "clear")
  /\ SendCancel(my[p].tok)
  /\ UNCHANGED <<files, lock, my, shown, drawn, cmds>>

Clear(p) ==
  /\ Goto(p, "clear", "off")
  /\ attempt' = IF SameAttempt(attempt, p) THEN None ELSE attempt
  /\ my' = [my EXCEPT ![p] = Blank]
  /\ UNCHANGED <<server, identity, config, journal, registry, lock, shown, drawn, cmds, unsure>>

----------------------------------------------------------------------------
(* source add, source remove, disconnect and reset-installation: one block *)
(* each, which begins by invalidating and cancelling a connect attempt.     *)

Command(p) ==
  /\ Enter(p) /\ cmds < MaxCmds /\ cmds' = cmds + 1
  /\ \E what \in {"disconnect", "add", "remove", "reset"}, c \in Client :
       /\ what = "remove" => c \in registry
       /\ Goto(p, "off", what)
       /\ my' = [my EXCEPT ![p] =
                  [Blank EXCEPT !.which = c,
                                !.tok = IF attempt = None THEN None ELSE attempt.poll]]
  /\ attempt' = None
  /\ UNCHANGED <<server, identity, config, journal, registry, shown, drawn, unsure>>

CancelFirst(p) ==
  /\ Within(p)
  /\ \/ Goto(p, "disconnect", "revoke") \/ Goto(p, "add", "addSource")
     \/ Goto(p, "remove", "deleteSource") \/ Goto(p, "reset", "resetLocal")
  /\ SendCancel(my[p].tok)
  /\ my' = [my EXCEPT ![p].tok = None]
  /\ UNCHANGED <<files, shown, drawn, cmds>>

(* A request with the configuration's token; a 401 changes nothing. *)
Send(Effect(_)) ==
  IF config = None \/ ~Authorized(config.inst, config.token) THEN UNCHANGED <<server, unsure>>
  ELSE \/ Effect(config.inst) /\ UNCHANGED unsure
       \/ /\ "lost" \in PairFaults
          /\ unsure' = unsure \cup {config.token} /\ UNCHANGED server

Revoke(p) ==
  /\ Within(p) /\ Goto(p, "revoke", "disable")
  /\ Send(RevokeSelf)
  /\ UNCHANGED <<files, my, shown, drawn, cmds>>

Disable(p) ==
  /\ Leave(p) /\ Goto(p, "disable", "off")
  /\ DisableLocal
  /\ UNCHANGED <<server, registry, my, shown, drawn, cmds, unsure>>

(* The server's installation "must be disconnected separately". *)
ResetLocal(p) ==
  /\ Leave(p) /\ Goto(p, "resetLocal", "off")
  /\ DisableLocal
  /\ unsure' = IF config = None THEN unsure ELSE unsure \cup {config.token}
  /\ UNCHANGED <<server, registry, my, shown, drawn, cmds>>

AddSource(p) ==
  /\ Leave(p) /\ Goto(p, "addSource", "off")
  /\ registry' = registry \cup {my[p].which} /\ attempt' = None
  /\ UNCHANGED <<server, identity, config, journal, my, shown, drawn, cmds, unsure>>

RemoveRemote(p) ==
  /\ Within(p) /\ Goto(p, "deleteSource", "writeWithout")
  /\ IF config # None /\ my[p].which \in config.srcs
     THEN Send(LAMBDA i : DeleteSource(i, my[p].which))
     ELSE UNCHANGED <<server, unsure>>
  /\ UNCHANGED <<files, my, shown, drawn, cmds>>

(* The configuration is written without the source before the registry is. *)
WriteWithout(p) ==
  /\ Within(p) /\ Goto(p, "writeWithout", "dropSource")
  /\ IF config = None THEN UNCHANGED <<config, attempt>>
     ELSE config' = [config EXCEPT !.srcs = @ \ {my[p].which}] /\ attempt' = None
  /\ UNCHANGED <<server, identity, journal, registry, my, shown, drawn, cmds, unsure>>

DropSource(p) ==
  /\ Leave(p) /\ Goto(p, "dropSource", "off")
  /\ registry' = registry \ {my[p].which} /\ attempt' = None
  /\ UNCHANGED <<server, identity, config, journal, my, shown, drawn, cmds, unsure>>

----------------------------------------------------------------------------
(* A process dies.  What it had taken from the attempt file and not yet     *)
(* cancelled, and a token whose file another connect replaced, is lost.     *)
Crash(p) ==
  /\ "crash" \in PairFaults /\ pc[p] # "off"
  /\ pc' = [pc EXCEPT ![p] = "off"]
  /\ lock' = IF lock = p THEN None ELSE lock
  /\ my' = [my EXCEPT ![p] = Blank]
  /\ unsure' = IF my[p].tok # None /\ (pc[p] \in {"cancelOld", "disconnect", "add", "remove", "reset"}
                                        \/ ~SameAttempt(attempt, p))
               THEN unsure \cup {my[p].tok} ELSE unsure
  /\ UNCHANGED <<server, files, shown, drawn, cmds>>

ConnectStep(p) ==
  \/ Reconcile(p) \/ Detect(p) \/ Prepare(p) \/ CancelOld(p) \/ Identify(p)
  \/ Begin(p) \/ BeginStale(p) \/ Start(p) \/ StartFails(p) \/ Record(p)
  \/ PollActive(p) \/ PollFails(p) \/ Commit(p) \/ WriteConfig(p) \/ WriteSources(p)
  \/ UnlinkJournal(p) \/ UnlinkAttempt(p) \/ Hooks(p) \/ Abort(p) \/ Clear(p)

CommandStep(p) ==
  \/ Command(p) \/ CancelFirst(p) \/ Revoke(p) \/ Disable(p) \/ ResetLocal(p)
  \/ AddSource(p) \/ RemoveRemote(p) \/ WriteWithout(p) \/ DropSource(p)

PairingStep ==
  \/ Approve \/ RevokeInBrowser \/ DisconnectInBrowser \/ Expire
  \/ RecoverCommit \/ Rejected \/ Sync
  \/ \E p \in Conn : ConnectStep(p)
  \/ \E p \in Cmd : CommandStep(p)

PairingNext == PairingStep \/ \E p \in Proc : Crash(p)

PairingSpec == PairingInit /\ [][PairingNext]_pairVars

----------------------------------------------------------------------------
(* Properties. *)

(* An installation the server holds active can be used or revoked from the  *)
(* computer: its token is in the configuration, the journal, the attempt    *)
(* file or a live connect, unless a revocation of it was never confirmed.   *)
Held(t) ==
  \/ config # None /\ config.token = t
  \/ journal # None /\ journal.config.token = t
  \/ attempt # None /\ attempt.poll = t
  \/ \E p \in Conn : my[p].tok = t /\ pc[p] # "off"
  \/ \E p \in Cmd : my[p].tok = t /\ pc[p] # "off"

ActiveIsReachable ==
  \A i \in Inst : inst[i].status = "active" => Held(inst[i].device) \/ inst[i].device \in unsure

(* A source row waits for the code its installation shows, and no other:    *)
(* approving a later code never activates the rows of an earlier start.     *)
PendingBelongs ==
  \A i \in Inst, c \in Client :
    source[i][c].code # None => source[i][c].code = inst[i].code

(* Outside a commit that is under way or waits for recovery, the stored     *)
(* configuration is of the stored identity and names registered sources.    *)
ConfigIsUsable ==
  config # None /\ journal = None =>
    config.inst = identity /\ config.srcs \subseteq registry

(* Approvals, polls, cancellations, restarted pairings and the files of the *)
(* connector stay together, in any order: an active installation can be     *)
(* reached, a source row waits for the code shown, a stored configuration   *)
(* can be used.                                                             *)
PairingConsistent == ActiveIsReachable /\ PendingBelongs /\ ConfigIsUsable

(* Usage once accepted stays until its source is superseded by an approval: *)
(* neither revocation nor an abandoned pairing removes it.                  *)
HistoryRetained ==
  [][\A i \in Inst, c \in Client :
       source[i][c].used /\ ~source'[i][c].used => source[i][c].drop /\ inst[i].code \in shown]_pairVars

(* "An abandoned or expired browser approval cannot interrupt the current   *)
(* connector": a device token changes by the approval of the code shown,    *)
(* in the browser, by the holder of that token, or by cancelling the very   *)
(* attempt that set it.                                                     *)
AbandonedIsHarmless ==
  [][\A i \in Inst :
       inst[i].status = "active" /\ inst'[i].device # inst[i].device =>
         \/ inst'[i].status = "active" /\ inst[i].code \in shown
              /\ inst'[i].device = inst[i].code
         \/ inst'[i].status = "revoked" /\ cmds' # cmds
         \/ inst'[i].status = "revoked" /\ inst[i].poll = inst[i].device
         \/ inst'[i].status = "revoked" /\ config # None /\ config.token = inst[i].device
              /\ \E p \in Cmd : pc[p] = "revoke"]_pairVars
=============================================================================
