---------------------------- MODULE CodexAccounts ----------------------------
(***************************************************************************)
(* Several provider accounts in one Codex profile (the Codex part of       *)
(* syncRange in packages/connector/bin/viberacing.mjs, the collector in    *)
(* adapters/codex.mjs and the account binding in config.mjs).  The profile *)
(* shows the usage of the account that is signed in; a sync learns which   *)
(* one that was, binds it to a local source, registers that source with    *)
(* the server when it is new, and uploads the totals for it.  Totals whose *)
(* registration failed are noted in the state file for a later sync.       *)
(*                                                                         *)
(* Syncs run one at a time (Scheduler); the user switches accounts         *)
(* whenever they like, requests fail, and the process may die.             *)
(***************************************************************************)
EXTENDS Naturals, FiniteSets, Sequences, SequencesExt

CONSTANTS
  Login,        \* provider accounts the user can sign in to
  Unbound,      \* the key of a source that is bound to none
  MaxAccounts,  \* providerAccountPolicy: sources of one profile
  MaxSwitches, MaxReadings, MaxTroubles  \* bounds

(* A source: 1 is the profile's own (primary), the others were added for   *)
(* further accounts.                                                       *)
Client == 1..MaxAccounts

VARIABLES
  active,   \* the account that is signed in
  sources,    \* sources.json: Seq of the sources' account keys and executables
  registered,   \* config.json: the sources the server has registered
  noted,    \* state.json, pendingAccountRegistrations: Client -> reading, 0: none
  queue,    \* payloads that wait, Seq of [client, at, parts, over]
  served,   \* Client -> the reading the server shows, 0: none
  readings, \* what was read: Seq of [owner, sure]
  codexSync,    \* the sync that runs
  appAt,    \* where Codex is installed (it moves once)
  switches, troubles, \* counters of the bounds
  newest, owed        \* Client -> the newest reading accepted; the newest one noted

codexVars == <<active, sources, registered, noted, queue, served, readings, codexSync, appAt,
               switches, troubles, newest, owed>>

NoCodexSync == [pc |-> "idle", asked |-> {}, todo |-> {}, noted |-> [c \in Client |-> 0], backfill |-> {},
            auth |-> Unbound, email |-> Unbound, owner |-> Unbound, late |-> Unbound, swaps |-> 0,
            again |-> FALSE, client |-> 0, parts |-> FALSE]

CodexInit ==
  /\ active \in Login
  /\ \E key \in {Unbound} \cup {<<a, a>> : a \in Login} : sources = <<[key |-> key, exe |-> 0]>>
  /\ registered = {1}
  /\ noted = [c \in Client |-> 0] /\ owed = noted /\ served = noted /\ newest = noted
  /\ queue = <<>> /\ readings = <<>>
  /\ codexSync = NoCodexSync
  /\ appAt = 0 /\ switches = 0 /\ troubles = 0

-----------------------------------------------------------------------------
SyncAt(step) == codexSync.pc = step
Trouble == troubles < MaxTroubles /\ troubles' = troubles + 1
Stored == UNCHANGED <<sources, registered, noted, queue, served, newest, owed>>
Outside == UNCHANGED <<active, switches, appAt>>

(* The sync ends early; what it had only in memory is forgotten. *)
SyncFails == codexSync' = NoCodexSync

(* Mutation: notes stay, although newer totals were stored. *)
SupersededNone == {}

(* applyDurablePendingRegistrationSupersessions: a note is dropped when a  *)
(* payload on disk was made in its place.                                  *)
Superseded == {queue[i].client : i \in {j \in DOMAIN queue : queue[j].over}}
Drop(notes, clients) == [c \in Client |-> IF c \in clients THEN 0 ELSE notes[c]]

(* A sync of everything, or of one source (a browser sync names them).     *)
SyncStarts ==
  /\ SyncAt("idle") /\ Len(readings) < MaxReadings
  /\ \E asked \in {Client} \cup {{c} : c \in registered} : codexSync' = [NoCodexSync EXCEPT !.pc = "drain", !.asked = asked]
  /\ noted' = Drop(noted, Superseded)
  /\ UNCHANGED <<sources, registered, queue, served, newest, owed, readings, troubles>> /\ Outside

(* drainPending, before and after the collection: payloads of the sources  *)
(* that were asked for leave in order.  An answer may be lost.             *)
Asked == {i \in DOMAIN queue : queue[i].client \in codexSync.asked}
NextUp == CHOOSE i \in Asked : \A j \in Asked : i <= j

Shown(p) ==
  /\ served' = [served EXCEPT ![p.client] = p.at]
  /\ newest' = [newest EXCEPT ![p.client] = IF p.at > @ THEN p.at ELSE @]

DrainOne ==
  /\ SyncAt("drain") \/ SyncAt("deliver")
  /\ Asked # {}
  /\ Shown(queue[NextUp]) /\ queue' = RemoveAt(queue, NextUp)
  /\ UNCHANGED <<codexSync, sources, registered, noted, owed, readings, troubles>> /\ Outside

DrainFails ==
  /\ SyncAt("drain") \/ SyncAt("deliver")
  /\ Asked # {} /\ Trouble /\ SyncFails
  /\ Shown(queue[NextUp]) \/ UNCHANGED <<served, newest>>
  /\ UNCHANGED <<sources, registered, noted, queue, owed, readings>> /\ Outside

Drained ==
  /\ Asked = {}
  /\ \/ /\ SyncAt("drain")
        /\ codexSync' = [codexSync EXCEPT !.pc = "retry", !.noted = noted,
                           !.todo = {c \in Client : noted[c] # 0}]
     \/ SyncAt("deliver") /\ SyncFails
  /\ Stored /\ UNCHANGED <<readings, troubles>> /\ Outside

-----------------------------------------------------------------------------
(* Registrations that are noted are tried again, one by one; a registered  *)
(* source that is asked for may get the noted totals.                      *)
RetryRegistration ==
  /\ SyncAt("retry")
  /\ \E c \in codexSync.todo :
       \/ /\ registered' = registered \cup {c} /\ UNCHANGED troubles
          /\ codexSync' = [codexSync EXCEPT !.todo = @ \ {c}, !.backfill = @ \cup ({c} \cap codexSync.asked)]
       \/ /\ Trouble /\ UNCHANGED registered
          /\ codexSync' = [codexSync EXCEPT !.todo = @ \ {c}]
  /\ UNCHANGED <<sources, noted, queue, served, newest, owed, readings>> /\ Outside

(* collectStableCodexAccount: the identity is in a file and, with the      *)
(* e-mail address, in the App Server; both are read before the usage and   *)
(* once more after it.                                                     *)
Look(step, next, field) ==
  /\ SyncAt(step)
  /\ codexSync' = [codexSync EXCEPT !.pc = next, ![field] = active]
  /\ Stored /\ UNCHANGED <<readings, troubles>> /\ Outside

ReadAuth == codexSync.todo = {} /\ Look("retry", "account", "auth")
AskAccount == Look("account", "usage", "email")
AskUsage == Look("usage", "again", "owner")
AskAgain == Look("again", "compare", "late")

(* Mutation: the usage is taken as that of the account seen before it. *)
ReadOnce ==
  /\ SyncAt("compare")
  /\ codexSync' = [codexSync EXCEPT !.pc = "bind"]
  /\ readings' = Append(readings, [owner |-> codexSync.owner, sure |-> codexSync.swaps < 2])
  /\ Stored /\ UNCHANGED troubles /\ Outside

(* The two identities differ: it is all read once more, but only once.     *)
ReadAgain ==
  /\ SyncAt("compare")
  /\ IF <<codexSync.auth, codexSync.email>> = <<active, codexSync.late>>
     THEN /\ codexSync' = [codexSync EXCEPT !.pc = "bind"]
          /\ readings' = Append(readings, [owner |-> codexSync.owner, sure |-> codexSync.swaps < 2])
     ELSE /\ codexSync' =
               IF codexSync.again THEN [codexSync EXCEPT !.pc = "assemble"]
               ELSE [codexSync EXCEPT !.pc = "retry", !.again = TRUE, !.swaps = 0,
                       !.auth = Unbound, !.email = Unbound, !.owner = Unbound, !.late = Unbound]
          /\ UNCHANGED readings
  /\ Stored /\ UNCHANGED troubles /\ Outside

(* No executable, no answer, no observation token: nothing is collected.   *)
CollectionFails ==
  /\ codexSync.pc \in {"retry", "account", "usage", "again", "compare"} /\ codexSync.todo = {}
  /\ Trouble
  /\ codexSync' = [codexSync EXCEPT !.pc = "assemble"]
  /\ Stored /\ UNCHANGED readings /\ Outside

(* bindProviderAccount: the source of that key; the profile's own if it    *)
(* has no key yet; a new one while there is room.  Parts of the totals,    *)
(* which come from files that name no account, are sent only while the     *)
(* profile has one source.                                                 *)
LoginKey == <<codexSync.auth, codexSync.email>>
SourcesOf(key) == {c \in DOMAIN sources : sources[c].key = key}

Bind ==
  /\ SyncAt("bind")
  /\ LET found == SourcesOf(LoginKey) # {}
         client == IF found THEN CHOOSE c \in SourcesOf(LoginKey) : TRUE
                   ELSE IF sources[1].key = Unbound THEN 1 ELSE Len(sources) + 1
         full == client > MaxAccounts
     IN /\ codexSync' = [codexSync EXCEPT !.pc = IF full THEN "assemble" ELSE "register",
                           !.client = IF full THEN 0 ELSE client,
                           !.parts = ~full /\ client = 1 /\ Len(sources) = 1]
        /\ sources' = IF found \/ full THEN sources
                    ELSE IF client = 1 THEN [sources EXCEPT ![1].key = LoginKey]
                    ELSE Append(sources, [sources[1] EXCEPT !.key = LoginKey])
  /\ UNCHANGED <<registered, noted, queue, served, newest, owed, readings, troubles>> /\ Outside

(* registerProviderLogicalSource for a source the server does not know; if *)
(* that fails, the totals are noted.                                       *)
Register ==
  LET me == codexSync.client
      kept == me \in codexSync.asked  \* the totals of a source nobody asked for are not
  IN
  /\ SyncAt("register")
  /\ \/ /\ registered' = registered \cup {me} /\ UNCHANGED troubles
        /\ codexSync' = [codexSync EXCEPT !.pc = "assemble", !.client = IF kept THEN me ELSE 0]
     \/ /\ me \notin registered /\ Trouble /\ UNCHANGED registered
        /\ codexSync' = [codexSync EXCEPT !.pc = "assemble", !.client = 0,
                           !.noted[me] = Len(readings)]
  /\ UNCHANGED <<sources, noted, queue, served, newest, owed, readings>> /\ Outside

(* The payloads of a sync: the totals just read, and noted ones for        *)
(* sources that have no newer.  They are stored with the state, at once.   *)
Assemble ==
  LET me == codexSync.client
      Payload(c, reading, parts, over) == [client |-> c, at |-> reading, parts |-> parts, over |-> over]
      fresh == IF me = 0 THEN <<>> ELSE <<Payload(me, Len(readings), codexSync.parts, codexSync.noted[me] # 0)>>
      old == {Payload(c, codexSync.noted[c], FALSE, TRUE) : c \in codexSync.backfill \ {me}}
  IN
  /\ SyncAt("assemble")
  /\ queue' = queue \o fresh \o SetToSeq(old)
  /\ noted' = codexSync.noted
  /\ owed' = [c \in Client |-> IF noted'[c] > owed[c] THEN noted'[c] ELSE owed[c]]
  /\ codexSync' = [NoCodexSync EXCEPT !.pc = "apply", !.asked = codexSync.asked]
  /\ UNCHANGED <<sources, registered, served, newest, readings, troubles>> /\ Outside

Apply ==
  /\ SyncAt("apply")
  /\ noted' = Drop(noted, Superseded)
  /\ codexSync' = [codexSync EXCEPT !.pc = "deliver"]
  /\ UNCHANGED <<sources, registered, queue, served, newest, owed, readings, troubles>> /\ Outside

(* The process dies, or stops for a local command before it stores.        *)
CodexSyncDies ==
  /\ ~SyncAt("idle") /\ Trouble /\ SyncFails
  /\ Stored /\ UNCHANGED readings /\ Outside

-----------------------------------------------------------------------------
Switch ==
  /\ switches < MaxSwitches /\ switches' = switches + 1
  /\ \E a \in Login \ {active} : active' = a
  /\ codexSync' = [codexSync EXCEPT !.swaps =
       IF codexSync.pc \in {"account", "usage", "again", "compare"} THEN @ + 1 ELSE @]
  /\ Stored /\ UNCHANGED <<readings, troubles, appAt>>

AppMoves == SyncAt("idle") /\ appAt = 0 /\ appAt' = 1
            /\ Stored /\ UNCHANGED <<active, switches, codexSync, readings, troubles>>

(* normalizedSources refuses to store sources of one profile that name     *)
(* different executables.                                                  *)
Storable(list) == \A c, d \in DOMAIN list : list[c].exe = list[d].exe

(* rememberSourceExecutable and reconcileDetectedSources change the        *)
(* profile's own source.                                                   *)
RememberExecutable ==
  /\ SyncAt("idle") /\ sources[1].exe # appAt
  /\ sources' = [sources EXCEPT ![1].exe = appAt] /\ Storable(sources')
  /\ UNCHANGED <<registered, noted, queue, served, newest, owed, readings, codexSync, troubles>> /\ Outside

CodexNext ==
  \/ SyncStarts \/ DrainOne \/ DrainFails \/ Drained \/ RetryRegistration
  \/ ReadAuth \/ AskAccount \/ AskUsage \/ AskAgain \/ ReadAgain \/ CollectionFails
  \/ Bind \/ Register \/ Assemble \/ Apply \/ CodexSyncDies
  \/ Switch \/ AppMoves \/ RememberExecutable

CodexSpec == CodexInit /\ [][CodexNext]_codexVars

-----------------------------------------------------------------------------
Reading == 0..MaxReadings
CodexTypeOK ==
  /\ active \in Login /\ appAt \in {0, 1}
  /\ Len(sources) \in 1..MaxAccounts
  /\ \A c \in DOMAIN sources : sources[c].exe \in {0, 1} /\ sources[c].key \in {Unbound} \cup (Login \X Login)
  /\ registered \subseteq DOMAIN sources
  /\ {noted, served, newest, owed, codexSync.noted} \subseteq [Client -> Reading]
  /\ \A i \in DOMAIN queue :
       queue[i] \in [client : registered, at : 1..MaxReadings, parts : BOOLEAN, over : BOOLEAN]
  /\ \A i \in DOMAIN readings : readings[i] \in [owner : Login, sure : BOOLEAN]
  /\ codexSync.pc \in {"idle", "drain", "retry", "account", "usage", "again", "compare", "bind",
                       "register", "assemble", "apply", "deliver"}
  /\ {codexSync.asked, codexSync.todo, codexSync.backfill} \subseteq SUBSET Client
  /\ {codexSync.auth, codexSync.email, codexSync.owner, codexSync.late} \subseteq Login \cup {Unbound}
  /\ codexSync.client \in {0} \cup Client

(* A source stands for one account, and what is queued, noted or shown for *)
(* it was read while that account was signed in, unless the user switched  *)
(* twice within that one reading.  Only the profile's own source has parts. *)
Holds(c, reading) ==
  reading # 0 /\ readings[reading].sure => sources[c].key = <<readings[reading].owner, readings[reading].owner>>

AttributedToOwner ==
  /\ \A c, d \in DOMAIN sources : c # d => sources[c].key # sources[d].key /\ sources[c].exe = sources[d].exe
  /\ \A c \in Client : Holds(c, served[c]) /\ Holds(c, noted[c])
  /\ \A i \in DOMAIN queue : Holds(queue[i].client, queue[i].at) /\ (queue[i].parts => queue[i].client = 1)

(* Noted totals never replace newer ones at the server.                    *)
NoOlderTotals == served = newest

(* And they are not lost: once noted, they, or newer ones of that source,  *)
(* are noted, queued or accepted.                                          *)
NotedIsKept ==
  \A c \in Client : owed[c] # 0 =>
    \/ noted[c] >= owed[c] \/ newest[c] >= owed[c]
    \/ \E i \in DOMAIN queue : queue[i].client = c /\ queue[i].at >= owed[c]

=============================================================================
