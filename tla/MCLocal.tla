------------------------------- MODULE MCLocal -------------------------------
(***************************************************************************)
(* Instances for TLC of what happens on the computer around a delivery:    *)
(* the state directory is opened, the accounts of a Codex profile are told *)
(* apart, its session files are collected, hooks are installed and         *)
(* removed, and usage is delivered.  The five share no state, so a         *)
(* behaviour has one of them; the others do not exist in it.               *)
(***************************************************************************)
EXTENDS MCDelivery, StateRoot, CodexAccounts, CodexRollouts, AgentHooks

CONSTANTS
  Absent,         \* the value of a variable of a component that is not there
  o1, o2,         \* processes that open the state directory
  l1,             \* the account that is signed in to Codex at first
  c1, c2          \* terminals

VARIABLE part     \* the component of this behaviour

localVars == <<part, vars, rootVars, codexVars, rolloutVars, agentVars>>

Parts == {"delivery", "root", "accounts", "rollouts", "agents"}

(* A delivery that has yet to begin. *)
NoDelivery == Init /\ usage = [s \in Source |-> CHOOSE c \in Content : TRUE]

NoRoot ==
  /\ place = Absent /\ root = Absent /\ entries = Absent /\ marker = Absent /\ born = Absent
  /\ stages = Absent /\ migLock = Absent /\ opener = Absent /\ edits = Absent

NoAccounts ==
  /\ active = Absent /\ sources = Absent /\ registered = Absent /\ noted = Absent
  /\ queue = Absent /\ served = Absent /\ readings = Absent /\ codexSync = Absent
  /\ appAt = Absent /\ switches = Absent /\ troubles = Absent /\ newest = Absent /\ owed = Absent

NoRollouts ==
  /\ rollouts = Absent /\ disk = Absent /\ codexDay = Absent /\ fileStates = Absent
  /\ walk = Absent /\ report = Absent /\ late = Absent
  /\ odd = Absent /\ collections = Absent /\ skips = Absent

NoAgents ==
  /\ settingsFile = Absent /\ copies = Absent /\ launcher = Absent /\ paired = Absent
  /\ listed = Absent /\ attempt = Absent /\ lifeLock = Absent /\ shell = Absent
  /\ commands = Absent /\ touches = Absent /\ meant = Absent /\ raced = Absent
  /\ damaged = Absent /\ unsettled = Absent /\ stale = Absent

(* Before a connection the agents have the same kind of old hooks, or none. *)
AlikeAtFirst == paired = {} => \A d, e \in Hooked : settingsFile[d] = settingsFile[e]

LocalInit ==
  /\ part \in Parts
  /\ IF part = "delivery" THEN Init ELSE NoDelivery
  /\ IF part = "root" THEN RootInit ELSE NoRoot
  /\ IF part = "accounts" THEN CodexInit /\ active = l1 ELSE NoAccounts
  /\ IF part = "rollouts" THEN RolloutInit ELSE NoRollouts
  /\ IF part = "agents" THEN AgentInit /\ AlikeAtFirst ELSE NoAgents

(* The processes that open the directory are alike, and so are the         *)
(* terminals: the first of them is the first to do something.              *)
RootOrder == OpenerAt(o1, "idle") => opener'[o2].pc = "idle"
AgentOrder == In(c1, "idle") /\ In(c2, "idle") /\ attempt = Unlocked => shell'[c2].pc = "idle"

LocalNext ==
  /\ part' = part
  /\ \/ part = "delivery" /\ Next /\ UNCHANGED <<compact, rootVars, codexVars, rolloutVars, agentVars>>
     \/ part = "root" /\ RootNext /\ RootOrder /\ UNCHANGED <<vars, codexVars, rolloutVars, agentVars>>
     \/ part = "accounts" /\ CodexNext /\ UNCHANGED <<vars, rootVars, rolloutVars, agentVars>>
     \/ part = "rollouts" /\ RolloutNext /\ UNCHANGED <<vars, rootVars, codexVars, agentVars>>
     \/ part = "agents" /\ AgentNext /\ AgentOrder
        /\ UNCHANGED <<vars, rootVars, codexVars, rolloutVars>>

LocalSpec == LocalInit /\ [][LocalNext]_localVars

(* What each of them promises, and its types: a process uses a directory   *)
(* that is its own and private; totals go to the account that was signed   *)
(* in, and never back; a turn counts once, on its day; hooks are as the    *)
(* configuration says and start a whole copy, and those of the user's stay.*)
LocalInvariant ==
  /\ TypeOK
  /\ part = "root" => RootTypeOK /\ NothingAdopted /\ MarkedAsSeen /\ ReadyIsPrivate
  /\ part = "accounts" => CodexTypeOK /\ AttributedToOwner /\ NoOlderTotals /\ NotedIsKept
  /\ part = "rollouts" => RolloutTypeOK /\ ComponentsExact
  /\ part = "agents" => AgentTypeOK /\ TheirsKept /\ HooksStart /\ AsConfigured

=============================================================================
