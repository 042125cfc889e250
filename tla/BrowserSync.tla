---------------------------- MODULE BrowserSync ----------------------------
(***************************************************************************)
(* A sync asked for in the browser: the dashboard draws a grant, opens a   *)
(* viberacing:// link, and the operating system starts a handler for it,   *)
(* which claims a run on the server with the grant, syncs under the local  *)
(* sync lock, and reports the result.  The server refuses grants and runs  *)
(* while one is running or recent.  Any request of the handler may be lost *)
(* before or after the server has answered it, and a handler may die.      *)
(*                                                                         *)
(* The link of a grant carries one request id, so runs are named by grants.*)
(***************************************************************************)
EXTENDS Naturals, FiniteSets

CONSTANTS
  Grant,    \* grants drawn; bounds the number of runs
  Handler,  \* handler processes
  NoGrant   \* no grant

ASSUME BrowserSyncAssumption == NoGrant \notin Grant

VARIABLES
  grant,    \* browser_sync_grants: none, live, gone (used or expired)
  runs,      \* browser_sync_runs of the computer
  served,   \* is the computer connected, with an active source?
  held,     \* the sync lock: a handler, or another sync
  doing,    \* what each handler does
  link,     \* the link it was started with
  outcome   \* the result its sync had

browserVars == <<grant, runs, served, held, doing, link, outcome>>

Statuses == {"succeeded", "partial", "failed", "busy"}
NoRun == [status |-> "none", fresh |-> FALSE, recent |-> FALSE]

BrowserTypeOK ==
  /\ grant \in [Grant -> {"none", "live", "gone"}]
  /\ runs \in [Grant -> [status : {"none", "running"} \cup Statuses,
                        fresh : BOOLEAN,     \* running, and updated within ten minutes
                        recent : BOOLEAN]]   \* created within a minute, and not busy
  /\ served \in BOOLEAN
  /\ held \in Handler \cup {"free", "other"}
  /\ doing \in [Handler -> {"off", "claim", "claiming", "wait", "sync", "report", "again"}]
  /\ link \in [Handler -> Grant \cup {NoGrant}]
  /\ outcome \in [Handler -> Statuses]

BrowserInit ==
  /\ grant = [g \in Grant |-> "none"]
  /\ runs = [g \in Grant |-> NoRun]
  /\ served = TRUE
  /\ held = "free"
  /\ doing = [h \in Handler |-> "off"]
  /\ link = [h \in Handler |-> NoGrant]
  /\ outcome = [h \in Handler |-> "failed"]

----------------------------------------------------------------------------
(* The server *)

(* Mutant: a run that is running blocks, however old. *)
BlockingForever(r) == r.status = "running" \/ r.recent

(* Does a run keep others from starting? *)
Blocking(r) == r.fresh \/ r.recent

Blocked == \E g \in Grant : Blocking(runs[g])

(* POST /api/accounts/sync/grant *)
DrawGrant(g) ==
  /\ grant[g] = "none" /\ served /\ ~Blocked
  /\ grant' = [grant EXCEPT ![g] = "live"]
  /\ UNCHANGED <<runs, served, held, doing, link, outcome>>

GrantExpires(g) ==
  /\ grant[g] = "live"
  /\ grant' = [grant EXCEPT ![g] = "gone"]
  /\ UNCHANGED <<runs, served, held, doing, link, outcome>>

(* A minute after its start, and ten minutes after its last update. *)
RunAges(g) ==
  /\ runs[g].recent \/ runs[g].fresh
  /\ runs' = [runs EXCEPT ![g].fresh = @ /\ runs[g].recent, ![g].recent = FALSE]
  /\ UNCHANGED <<grant, served, held, doing, link, outcome>>

Running == [status |-> "running", fresh |-> TRUE, recent |-> TRUE]
Ended(r, status) == [status |-> status, fresh |-> FALSE, recent |-> r.recent /\ status # "busy"]

(* Mutant: the run starts although another one is running. *)
ClaimedUnchecked(g) == Running

(* POST /api/installations/current/sync/claim with a live grant: the run is *)
(* running, or refused because of another one.                              *)
Claimed(g) == IF Blocked THEN Ended(runs[g], "busy") ELSE Running

(* POST /api/installations/current/sync/result *)
Finished(g, status) ==
  IF served /\ runs[g].status = "running" THEN [runs EXCEPT ![g] = Ended(@, status)] ELSE runs

Disconnected ==
  /\ served
  /\ served' = FALSE
  /\ UNCHANGED <<grant, runs, held, doing, link, outcome>>

----------------------------------------------------------------------------
(* The handlers: browserSync *)

(* The browser opens the link; a second click starts a second handler. *)
Launch(h, g) ==
  /\ doing[h] = "off" /\ grant[g] # "none"
  /\ doing' = [doing EXCEPT ![h] = "claim"]
  /\ link' = [link EXCEPT ![h] = g]
  /\ UNCHANGED <<grant, runs, served, held, outcome>>

LockForClaim(h) ==
  /\ doing[h] = "claim" /\ held = "free"
  /\ held' = h
  /\ doing' = [doing EXCEPT ![h] = "claiming"]
  /\ UNCHANGED <<grant, runs, served, link, outcome>>

Quit(h) ==
  /\ doing' = [doing EXCEPT ![h] = "off"]
  /\ link' = [link EXCEPT ![h] = NoGrant]
  /\ outcome' = [outcome EXCEPT ![h] = "failed"]

(* The lock was not free in time. *)
ClaimGivesUp(h) ==
  /\ doing[h] = "claim" /\ held # "free"
  /\ Quit(h)
  /\ UNCHANGED <<grant, runs, served, held>>

(* The claim is sent once, under the sync lock.  Unless it is granted and   *)
(* answered, the handler quits; a claim the server granted stays running.   *)
Claim(h) ==
  LET g == link[h]
  IN  /\ doing[h] = "claiming"
      /\ held' = "free"
      /\ \/ Quit(h) /\ UNCHANGED <<grant, runs>>
         \/ /\ served /\ grant[g] = "live"
            /\ grant' = [grant EXCEPT ![g] = "gone"]
            /\ runs' = [runs EXCEPT ![g] = Claimed(g)]
            /\ \/ /\ Claimed(g) = Running
                  /\ doing' = [doing EXCEPT ![h] = "wait"]
                  /\ UNCHANGED <<link, outcome>>
               \/ Quit(h)
      /\ UNCHANGED served

(* The mapping of sources has changed since: nothing is synced. *)
MappingChanged(h) ==
  /\ doing[h] = "wait"
  /\ Quit(h)
  /\ \/ runs' = Finished(link[h], "failed")
     \/ UNCHANGED runs
  /\ UNCHANGED <<grant, served, held>>

LockForSync(h) ==
  /\ doing[h] = "wait" /\ held = "free"
  /\ held' = h
  /\ doing' = [doing EXCEPT ![h] = "sync"]
  /\ UNCHANGED <<grant, runs, served, link, outcome>>

(* Another sync keeps the lock. *)
SyncGivesUp(h) ==
  /\ doing[h] = "wait" /\ held # "free"
  /\ doing' = [doing EXCEPT ![h] = "report"]
  /\ outcome' = [outcome EXCEPT ![h] = "busy"]
  /\ UNCHANGED <<grant, runs, served, held, link>>

BrowserSyncEnds(h) ==
  /\ doing[h] = "sync"
  /\ held' = "free"
  /\ \E status \in Statuses \ {"busy"} :
       /\ outcome' = [outcome EXCEPT ![h] = status]
       /\ doing' = [doing EXCEPT ![h] = IF status = "failed" THEN "again" ELSE "report"]
  /\ UNCHANGED <<grant, runs, served, link>>

(* The result is reported; when that fails, as it also does for a run that  *)
(* is not running any more, a failure is reported, and that is all.         *)
Report(h) ==
  /\ doing[h] = "report"
  /\ \/ /\ runs' = Finished(link[h], outcome[h])
        /\ Quit(h)
     \/ /\ \/ runs' = Finished(link[h], outcome[h])
           \/ UNCHANGED runs
        /\ doing' = [doing EXCEPT ![h] = "again"]
        /\ UNCHANGED <<link, outcome>>
  /\ UNCHANGED <<grant, served, held>>

ReportFailure(h) ==
  /\ doing[h] = "again"
  /\ Quit(h)
  /\ \/ runs' = Finished(link[h], "failed")
     \/ UNCHANGED runs
  /\ UNCHANGED <<grant, served, held>>

HandlerDies(h) ==
  /\ doing[h] # "off"
  /\ Quit(h)
  /\ held' = IF held = h THEN "free" ELSE held
  /\ UNCHANGED <<grant, runs, served>>

(* Other syncs of the computer. *)
OtherSync ==
  /\ \/ held = "free" /\ held' = "other"
     \/ held = "other" /\ held' = "free"
  /\ UNCHANGED <<grant, runs, served, doing, link, outcome>>

HandlerStep(h) ==
  \/ LockForClaim(h) \/ ClaimGivesUp(h) \/ Claim(h) \/ MappingChanged(h) \/ LockForSync(h)
  \/ SyncGivesUp(h) \/ BrowserSyncEnds(h) \/ Report(h) \/ ReportFailure(h)

BrowserNext ==
  \/ \E g \in Grant : DrawGrant(g) \/ GrantExpires(g) \/ RunAges(g)
  \/ \E h \in Handler : \/ \E g \in Grant : Launch(h, g)
                        \/ HandlerStep(h) \/ HandlerDies(h)
  \/ OtherSync \/ Disconnected

BrowserFairness == \A g \in Grant : WF_browserVars(RunAges(g))

BrowserSpec == BrowserInit /\ [][BrowserNext]_browserVars /\ BrowserFairness

----------------------------------------------------------------------------
(* Properties *)

(* Links opened twice, grants drawn in parallel and lost answers never make *)
(* two handlers sync for the browser at the same time, unless the server    *)
(* had not heard of the first for ten minutes; and no two of them for the   *)
(* same request.                                                            *)
OneBrowserSync ==
  \A h, k \in Handler :
    h # k /\ {doing[h], doing[k]} \subseteq {"wait", "sync"} =>
      /\ link[h] # link[k]
      /\ ~runs[link[h]].fresh \/ ~runs[link[k]].fresh

(* A handler that dies after its claim, or whose report is lost, leaves a   *)
(* run that is running for ever; it does not keep the user from syncing for *)
(* ever.                                                                    *)
EventuallyUnblocked == Blocked ~> ~Blocked
=============================================================================
