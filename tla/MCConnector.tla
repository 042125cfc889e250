---------------------------- MODULE MCConnector ----------------------------
(***************************************************************************)
(* What the connector keeps on disk besides the outbox, each part of it on *)
(* its own: the Cursor ledger (in four casts of hooks and runs) and its    *)
(* file, the reading of JSONL stores, the captured records and the history *)
(* passes.  A behaviour takes steps of one part; the others stay as they   *)
(* begin.                                                                  *)
(***************************************************************************)
EXTENDS CursorLedger, CursorFile, Reader, Capture, History, TLC

CONSTANTS
  g1, g2, g3, g4, \* stop hooks; g1 belongs to the headless run h1, g4 repeats g2
  h1,
  k1, k2, k3,     \* the generations of the stops
  session,        \* the one session of all of them
  acctA, acctB,   \* the accounts they are sent to
  r1, r2, x1      \* usage records; x1 repeats the identity of r1 a day earlier

MCKeyOf == g1 :> k1 @@ g2 :> k2 @@ g3 :> k3 @@ g4 :> k2
MCRunOf == g1 :> h1 @@ g2 :> Absent @@ g3 :> Absent @@ g4 :> Absent
MCSessionOf == [e \in Stop \cup Run |-> session]
MCAccountOf == [e \in Stop \cup Run |-> IF e = g3 THEN acctB ELSE acctA]
MCTokensOf == g1 :> 5 @@ h1 :> 5 @@ g2 :> 3 @@ g3 :> 3 @@ g4 :> 4
MCEndSession == h1 :> session

MCIdOf == r1 :> "a" @@ r2 :> "b" @@ x1 :> "a"
MCDayOf == r1 :> 1 @@ r2 :> 2 @@ x1 :> 0

VARIABLE part

connectorVars == <<part, cursorVars, fileVars, readerVars, captureVars, historyVars>>

(* The casts of the Cursor ledger: a headless run whose stop repeats it; a *)
(* stop of the same session beside a run; a session whose next stop has    *)
(* another account; a generation told twice.                               *)
Cast == [twin |-> {g1, h1}, other |-> {g2, h1}, switch |-> {g2, g3}, replay |-> {g2, g4}]
LastTick == [twin |-> 3, other |-> 2, switch |-> 3, replay |-> 3]

ConnectorInit ==
  /\ part \in DOMAIN Cast \cup {"file", "reader", "capture", "history"}
  /\ CursorInit /\ FileInit /\ ReaderInit /\ CaptureInit /\ HistoryInit
  \* At most one day is spoiled; of the parts that do not run, one initial state.
  /\ Cardinality(spoiled) <= IF part = "history" THEN 1 ELSE 0

(* The part that runs is this one, and the others stay. *)
Only(name) ==
  /\ part = name /\ part' = part
  /\ IF name \in DOMAIN Cast THEN TRUE ELSE UNCHANGED cursorVars
  /\ IF name = "file" THEN TRUE ELSE UNCHANGED fileVars
  /\ IF name = "reader" THEN TRUE ELSE UNCHANGED readerVars
  /\ IF name = "capture" THEN TRUE ELSE UNCHANGED captureVars
  /\ IF name = "history" THEN TRUE ELSE UNCHANGED historyVars

(* Refusals belong to "twin", an empty collection to "other", resets to    *)
(* the two casts without a run.                                            *)
CursorStep(name) ==
  \/ \E x \in Hook :
       /\ (IF x \in Stop THEN x ELSE x[1]) \in Cast[name]
       /\ \/ HookBegins(x) \/ HookCompletes(x)
          \/ HookWrites(x) /\ (name # "twin" => refusals' = 0)
          \/ HookDies(x) /\ name \in {"twin", "switch"}
  \/ \E r \in Run \cap Cast[name] :
       WrapperBegins(r) \/ WrapperCloses(r) \/ WrapperEnds(r) \/ WrapperDies(r)
  \/ \E a \in IF name = "switch" THEN {acctA, acctB} ELSE {acctA} :
       \/ Reserve(a) \/ Send(a) \/ AcknowledgeCursor(a)
       \/ CollectCursor(a) /\ (name # "other" => snapshot'[a].keys # {})
  \/ Compact
  \/ Reset /\ name \in {"switch", "replay"}
  \/ CursorTick /\ now < LastTick[name]

ConnectorNext ==
  \/ \E name \in DOMAIN Cast : Only(name) /\ CursorStep(name)
  \/ Only("file") /\ FileNext
  \/ Only("reader") /\ ReaderNext
  \/ Only("capture") /\ CaptureNext
  \/ Only("history") /\ HistoryNext

ConnectorSpec == ConnectorInit /\ [][ConnectorNext]_connectorVars

Symmetry == Permutations(Path)

-----------------------------------------------------------------------------
(* The state of every part is well typed; the fold of the Cursor ledger    *)
(* accepts whatever its operations have written, in any order; and what it *)
(* calls acknowledged was sent.                                            *)
ConnectorInvariant ==
  /\ part \in DOMAIN Cast => CursorTypeOK /\ StaysReadable /\ AcknowledgedWasSent
  /\ part = "file" => FileTypeOK
  /\ part = "reader" => ReaderTypeOK
  /\ part = "capture" => CaptureTypeOK
  /\ part = "history" => HistoryTypeOK

=============================================================================
