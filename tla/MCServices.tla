----------------------------- MODULE MCServices -----------------------------
(***************************************************************************)
(* Parts of the system in which something must eventually happen, each run *)
(* on its own: a behaviour takes steps of one part, and the others stay as *)
(* they begin.  One run checks them all, under the fairness of each.       *)
(***************************************************************************)
EXTENDS Delivery, BrowserSync, Diagnostics, Admission, HooksFile, History, OpenCodePlugin, TLC

CONSTANTS r1, r2, c1, c2  \* requests and their clients

MCClientOf == r1 :> c1 @@ r2 :> c2
MCPhaseOf == <<"collect">>

(* The batch once more, with sources that are disconnected meanwhile.      *)
Cut == INSTANCE Delivery WITH Faults <- {"disconnect", "collector"}

VARIABLE part  \* the part that runs

servicesVars == <<part, vars, browserVars, diagVars, admVars, hooksVars, historyVars,
                  pluginVars>>

ServicesInit ==
  /\ part \in {"delivery", "disconnect", "browser", "diagnostics", "admission", "hooks", "history",
              "plugin"}
  /\ Init /\ BrowserInit /\ DiagnosticsInit /\ AdmissionInit /\ HooksInit /\ HistoryInit /\ PluginInit
  \* Of the parts that do not run, one initial state, in which there is nothing to do.
  /\ part \notin {"delivery", "disconnect"} => \A s, t \in Source : usage[s] = usage[t] /\ usage[s] \notin Bad
  /\ part # "hooks" => goal = "remove" /\ file["hooks"] = NoFile
  /\ part # "history" => spoiled = {}
  /\ home = IF part = "plugin" THEN home ELSE CHOOSE h \in Home : TRUE

(* The part that runs is this one, and the others stay. *)
Only(name) ==
  /\ part = name /\ part' = part
  /\ IF name \in {"delivery", "disconnect"} THEN TRUE ELSE UNCHANGED vars
  /\ IF name = "browser" THEN TRUE ELSE UNCHANGED browserVars
  /\ IF name = "diagnostics" THEN TRUE ELSE UNCHANGED diagVars
  /\ IF name = "admission" THEN TRUE ELSE UNCHANGED admVars
  /\ IF name = "hooks" THEN TRUE ELSE UNCHANGED hooksVars
  /\ IF name = "history" THEN TRUE ELSE UNCHANGED historyVars
  /\ IF name = "plugin" THEN TRUE ELSE UNCHANGED pluginVars

ServicesNext ==
  \/ Only("delivery") /\ Next
  \/ Only("disconnect") /\ Cut!Next
  \/ Only("browser") /\ BrowserNext
  \/ Only("diagnostics") /\ DiagnosticsNext
  \/ Only("admission") /\ AdmissionNext
  \/ Only("hooks") /\ HooksNext
  \/ Only("history") /\ HistoryNext
  \/ Only("plugin") /\ PluginNext

(* The steps that each part is sure to go on with. *)
FairStep ==
  \/ Only("delivery") /\ (RangeStep \/ Deliver)
  \/ Only("disconnect") /\ (Cut!RangeStep \/ Cut!Deliver)
  \/ Only("browser") /\ \E g \in Grant : RunAges(g)
  \/ Only("admission") /\ JobStep
  \/ Only("hooks") /\ Connector
  \/ Only("history") /\ SyncStep
  \/ Only("plugin") /\ PluginFair

ServicesSpec == ServicesInit /\ [][ServicesNext]_servicesVars /\ WF_servicesVars(FairStep)

-----------------------------------------------------------------------------
(* The state of every part is well typed, and the parts' own bookkeeping   *)
(* is true: no two handlers sync for one request or one computer, the      *)
(* diagnostics outbox ends in the present status, buckets count what was   *)
(* admitted, and no file of the OpenCode plugin is out of the connector's  *)
(* sight.                                                                  *)
ServicesInvariant ==
  /\ BrowserTypeOK /\ OneBrowserSync
  /\ DiagnosticsTypeOK /\ OutboxTellsTruth
  /\ AdmissionTypeOK /\ AdmittedIsCounted
  /\ HooksTypeOK /\ HistoryTypeOK
  /\ PluginTypeOK /\ LeftoversAreKnown

(* What the user keeps where the connector writes is never lost: foreign   *)
(* hooks in Cursor's file, foreign files in OpenCode's plugin directory.   *)
NothingForeignLost == ForeignHooksKept /\ UserFilesKept

(* Once nobody interferes any more the files are as they should be: the    *)
(* hooks file holds what the connector wants there, and after an uninstall *)
(* no plugin is left.                                                      *)
EventuallySettled == HooksSettle /\ EventuallyUninstalled

=============================================================================
