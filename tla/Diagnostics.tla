---------------------------- MODULE Diagnostics ----------------------------
(***************************************************************************)
(* The diagnostics outbox of the connector.  Every phase of a sync is      *)
(* reconciled with what it observed; a code that opens or is resolved      *)
(* leaves a transition in the outbox of its source, of which at most two   *)
(* are kept.  A request takes the first few transitions to the server; if  *)
(* its answer is lost they are sent again, and they are only removed from  *)
(* the state file, read again after the request, while they are still the  *)
(* first ones of their key.  The model does not rely on the sync lock: the *)
(* outbox may change while a request is on its way.                        *)
(***************************************************************************)
EXTENDS Naturals, Sequences, SequencesExt

CONSTANTS
  NSources,   \* sources 1 .. NSources, in the order of their ids
  NCodes,     \* codes 1 .. NCodes, in the order of their keys
  PhaseOf,    \* the phase of each code
  EventLimit, \* transitions of a request (maximum 32)
  KeyLimit    \* transitions kept for a key (maximumTransitionsPerKey)

ASSUME DiagnosticsAssumption ==
  /\ NSources \in Nat /\ NCodes \in Nat
  /\ EventLimit \in Nat \ {0} /\ KeyLimit \in Nat \ {0}
  /\ DOMAIN PhaseOf = 1 .. NCodes

DSource == 1 .. NSources
Code == 1 .. NCodes
EventStates == {"opened", "resolved"}

VARIABLES
  configured, \* sources of the configuration
  recognized, \* sources the server takes events of
  opened,     \* activeBySource
  outbox,     \* outboxBySource
  heard,      \* the last transition the server has logged for each key
  request     \* the transitions on their way; <<>> when there is no request

diagVars == <<configured, recognized, opened, outbox, heard, request>>

Transition == [source : DSource, code : Code, state : EventStates]

DiagnosticsTypeOK ==
  /\ configured \in SUBSET DSource /\ recognized \in SUBSET DSource
  /\ opened \in [DSource -> SUBSET Code]
  /\ outbox \in [DSource -> [Code -> BoundedSeq(EventStates, KeyLimit)]]
  /\ heard \in [DSource -> [Code -> EventStates]]
  /\ request \in BoundedSeq(Transition, EventLimit)

DiagnosticsInit ==
  /\ configured = DSource /\ recognized = DSource
  /\ opened = [s \in DSource |-> {}]
  /\ outbox = [s \in DSource |-> [c \in Code |-> <<>>]]
  /\ heard = [s \in DSource |-> [c \in Code |-> "resolved"]]
  /\ request = <<>>

----------------------------------------------------------------------------

(* Mutant: a transition that finds the key full is dropped. *)
EnqueuedFirst(transitions, state) ==
  IF (transitions # <<>> /\ Last(transitions) = state) \/ Len(transitions) = KeyLimit
  THEN transitions
  ELSE Append(transitions, state)

(* enqueueTransition: a full key starts again with the new transition. *)
Enqueued(transitions, state) ==
  IF transitions # <<>> /\ Last(transitions) = state THEN transitions
  ELSE IF Len(transitions) < KeyLimit THEN Append(transitions, state)
  ELSE <<state>>

(* reconcileDiagnosticPhase *)
Reconcile(s, phase, observed) ==
  LET before == {c \in opened[s] : PhaseOf[c] = phase}
  IN  /\ s \in configured
      /\ before # observed
      /\ opened' = [opened EXCEPT ![s] = (@ \ before) \cup observed]
      /\ outbox' = [outbox EXCEPT ![s] = [c \in Code |->
           IF c \in observed \ before THEN Enqueued(@[c], "opened")
           ELSE IF c \in before \ observed THEN Enqueued(@[c], "resolved")
           ELSE @[c]]]
      /\ UNCHANGED <<configured, recognized, heard, request>>

(* The transitions of some sources, in the order of sources and keys. *)
Events(sources) ==
  LET key == [i \in 1 .. NSources * NCodes |->
                [source |-> ((i - 1) \div NCodes) + 1, code |-> ((i - 1) % NCodes) + 1]]
      ofKey(k) == IF k.source \notin sources THEN <<>>
                  ELSE [j \in 1 .. Len(outbox[k.source][k.code]) |->
                          [source |-> k.source, code |-> k.code,
                           state |-> outbox[k.source][k.code][j]]]
      all == FlattenSeq([i \in DOMAIN key |-> ofKey(key[i])])
  IN  SubSeq(all, 1, IF Len(all) < EventLimit THEN Len(all) ELSE EventLimit)

(* deliverDiagnosticOutbox, up to its request: pendingDiagnosticEvents *)
(* forgets the sources that are not configured any more.               *)
SendOutbox(allowed) ==
  /\ request = <<>>
  /\ opened' = [s \in DSource |-> IF s \in configured THEN opened[s] ELSE {}]
  /\ outbox' = [s \in DSource |->
       IF s \in configured THEN outbox[s] ELSE [c \in Code |-> <<>>]]
  /\ request' = Events(configured \cap allowed)
  /\ UNCHANGED <<configured, recognized, heard>>

(* The last transition of a request for a key, or what was heard before. *)
Logged(s, c) ==
  LET of == SelectSeq(request, LAMBDA e : e.source = s /\ e.code = c)
  IN  IF of = <<>> THEN heard[s][c] ELSE Last(of).state

(* POST /api/installations/current/diagnostics: all of them, or none. *)
AllRecognized == \A i \in DOMAIN request : request[i].source \in recognized

Log == heard' = [s \in DSource |-> [c \in Code |-> Logged(s, c)]]

(* The transitions of a request for a key. *)
Sent(s, c) ==
  LET of == SelectSeq(request, LAMBDA e : e.source = s /\ e.code = c)
  IN  [i \in DOMAIN of |-> of[i].state]

(* acknowledgeDiagnosticEvents: nothing is written unless every transition *)
(* is the first one of its key when its turn comes.                        *)
Acknowledgeable == \A s \in DSource, c \in Code : IsPrefix(Sent(s, c), outbox[s][c])

(* Mutant: the transitions of an acknowledged key are removed, whatever they are. *)
AcknowledgedKey(s, c) == IF Sent(s, c) = <<>> THEN outbox[s][c] ELSE <<>>

Acknowledged(s, c) ==
  SubSeq(outbox[s][c], Len(Sent(s, c)) + 1, Len(outbox[s][c]))

(* The request is accepted and its answer arrives. *)
Answered ==
  /\ request # <<>> /\ AllRecognized
  /\ Log
  /\ outbox' = IF Acknowledgeable
               THEN [s \in DSource |-> [c \in Code |-> Acknowledged(s, c)]]
               ELSE outbox
  /\ request' = <<>>
  /\ UNCHANGED <<configured, recognized, opened>>

(* The request or its answer is lost, or it is refused. *)
Unanswered ==
  /\ request # <<>>
  /\ (AllRecognized /\ Log) \/ UNCHANGED heard
  /\ request' = <<>>
  /\ UNCHANGED <<configured, recognized, opened, outbox>>

(* A source is disconnected on the server. *)
Unrecognize(s) ==
  /\ s \in recognized
  /\ recognized' = recognized \ {s}
  /\ UNCHANGED <<configured, opened, outbox, heard, request>>

(* retireMappedSources, forgetSourceDiagnostics *)
RetireSource(s) ==
  /\ s \in configured \ recognized
  /\ configured' = configured \ {s}
  /\ opened' = [opened EXCEPT ![s] = {}]
  /\ outbox' = [outbox EXCEPT ![s] = [c \in Code |-> <<>>]]
  /\ UNCHANGED <<recognized, heard, request>>

DiagnosticsNext ==
  \/ \E s \in DSource, p \in {PhaseOf[c] : c \in Code} :
       \E observed \in SUBSET {c \in Code : PhaseOf[c] = p} : Reconcile(s, p, observed)
  \/ \E allowed \in SUBSET DSource : SendOutbox(allowed)
  \/ Answered \/ Unanswered
  \/ \E s \in DSource : Unrecognize(s) \/ RetireSource(s)

DiagnosticsSpec == DiagnosticsInit /\ [][DiagnosticsNext]_diagVars

----------------------------------------------------------------------------
(* Properties *)

StatusOf(s, c) == IF c \in opened[s] THEN "opened" ELSE "resolved"

(* Whatever is compacted, lost, sent twice or acknowledged late: once the   *)
(* outbox of a key is empty, the last the server has heard is how things    *)
(* stand, and else the last transition that waits says so.                  *)
OutboxTellsTruth ==
  \A s \in configured, c \in Code :
    StatusOf(s, c) = IF outbox[s][c] = <<>> THEN heard[s][c] ELSE Last(outbox[s][c])

=============================================================================
