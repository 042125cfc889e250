----------------------------- MODULE Admission -----------------------------
(***************************************************************************)
(* How a request of an endpoint is admitted: the negative cache of the     *)
(* process (RejectionBackoff), a slot for database work (ConcurrencyLimit, *)
(* with a bounded queue and a bounded wait), and one transaction that      *)
(* counts the request in three buckets, of all endpoints, of the endpoint  *)
(* and of the client, for the window in which it began, and is rolled back *)
(* when one of them is full.  Expired buckets are deleted by a job that    *)
(* takes a slot as well.                                                   *)
(***************************************************************************)
EXTENDS Naturals, FiniteSets, SequencesExt

CONSTANTS
  Request,     \* requests, each used again once it is answered
  ClientOf,    \* the client of each request
  Cleaner,     \* the job that deletes expired buckets
  MaxActive,   \* database slots
  MaxWaiting,  \* length of the queue for them
  PublicLimit, GlobalLimit, ClientLimit,
  WindowSize,  \* ticks of a window
  TTL,         \* ticks a rejection is remembered
  MaxKeys,     \* rejections remembered
  MaxTime      \* ticks; bounds the model

ASSUME AdmissionAssumption ==
  /\ DOMAIN ClientOf = Request /\ Cleaner \notin Request
  /\ MaxActive \in Nat \ {0} /\ MaxWaiting \in Nat
  /\ {PublicLimit, GlobalLimit, ClientLimit, WindowSize, TTL} \subseteq Nat \ {0}
  /\ MaxKeys \in Nat /\ MaxTime \in Nat
  /\ Range(ClientOf) \cap {"public", "endpoint"} = {}

Caller == Range(ClientOf)
Job == Request \cup {Cleaner}
WindowAt(t) == t \div WindowSize
Windows == 0 .. WindowAt(MaxTime)
Bucket == {"public", "endpoint"} \cup Caller

VARIABLES
  now,
  stage,     \* of each job: idle, asked (for a slot, or using it), decided
  began,     \* when its transaction began
  verdict,   \* of a decided request
  active,    \* slots counted as taken
  working,   \* jobs that were given one
  waiting,   \* the queue
  count,     \* rate_limit_buckets
  backoff,   \* the negative cache, in insertion order
  admitted   \* the requests that were admitted in each window, by client

admVars == <<now, stage, began, verdict, active, working, waiting, count, backoff, admitted>>

NotBegun == MaxTime + 1

AdmissionTypeOK ==
  /\ now \in 0 .. MaxTime
  /\ stage \in [Job -> {"idle", "asked", "decided"}]
  /\ began \in [Job -> 0 .. NotBegun]
  /\ verdict \in [Request -> {"admitted", "endpoint", "client"}]
  /\ active \in Nat /\ working \in SUBSET Job
  /\ waiting \in BoundedSeq(Job, MaxWaiting)
  /\ count \in [Bucket -> [Windows -> Nat]]
  /\ admitted \in [Caller -> [Windows -> Nat]]
  /\ Len(backoff) <= MaxKeys

AdmissionInit ==
  /\ now = 0
  /\ stage = [j \in Job |-> "idle"]
  /\ began = [j \in Job |-> NotBegun]
  /\ verdict = [r \in Request |-> "admitted"]
  /\ active = 0 /\ working = {} /\ waiting = <<>>
  /\ count = [b \in Bucket |-> [w \in Windows |-> 0]]
  /\ backoff = <<>>
  /\ admitted = [c \in Caller |-> [w \in Windows |-> 0]]

----------------------------------------------------------------------------
(* ConcurrencyLimit *)

Slots == [active |-> active, working |-> working, waiting |-> waiting]

Full(p) == p.active >= MaxActive /\ Len(p.waiting) >= MaxWaiting

(* The first part of run: a slot, a place in the queue, or neither. *)
Entered(p, j) ==
  IF p.active < MaxActive THEN [p EXCEPT !.active = @ + 1, !.working = @ \cup {j}]
  ELSE IF Full(p) THEN p
  ELSE [p EXCEPT !.waiting = Append(@, j)]

(* Mutant: the slot is handed over without being counted again. *)
LeftUncounted(p, j) ==
  IF p.waiting = <<>> THEN [p EXCEPT !.active = @ - 1, !.working = @ \ {j}]
  ELSE [p EXCEPT !.active = @ - 1, !.working = (@ \ {j}) \cup {Head(p.waiting)},
                 !.waiting = Tail(@)]

(* Mutant: the newest waiter is resumed. *)
LeftToNewest(p, j) ==
  LET q == [p EXCEPT !.active = @ - 1, !.working = @ \ {j}]
  IN  IF q.waiting = <<>> THEN q
      ELSE [q EXCEPT !.active = @ + 1, !.working = @ \cup {Last(q.waiting)},
                     !.waiting = Front(@)]

(* Its finally: the slot is given up, or taken again by the first in the queue. *)
Left(p, j) ==
  LET q == [p EXCEPT !.active = @ - 1, !.working = @ \ {j}]
  IN  IF q.waiting = <<>> THEN q
      ELSE [q EXCEPT !.active = @ + 1, !.working = @ \cup {Head(q.waiting)},
                     !.waiting = Tail(@)]

SlotsBecome(p) ==
  active' = p.active /\ working' = p.working /\ waiting' = p.waiting

(* The timer of a waiter; the release that resumes it clears the timer. *)
WaitExpires(j) ==
  /\ \E i \in DOMAIN waiting : waiting[i] = j /\ waiting' = RemoveAt(waiting, i)
  /\ stage' = [stage EXCEPT ![j] = "idle"]
  /\ UNCHANGED <<now, began, verdict, active, working, count, backoff, admitted>>

----------------------------------------------------------------------------
(* RejectionBackoff *)

Remembered(key) == \E i \in DOMAIN backoff : backoff[i].key = key /\ backoff[i].until > now

(* Entries are dropped from the front until one is alive. *)
Pruned ==
  LET alive == {i \in DOMAIN backoff : backoff[i].until > now}
  IN  IF alive = {} THEN <<>>
      ELSE SubSeq(backoff, CHOOSE i \in alive : \A j \in alive : i <= j, Len(backoff))

NextWindow == (WindowAt(now) + 1) * WindowSize

Entry(key) ==
  [key |-> key, until |-> IF now + TTL < NextWindow THEN now + TTL ELSE NextWindow]

(* Mutant: a repeated rejection is remembered for longer. *)
AddedAgain(key) ==
  Append(SelectSeq(Pruned, LAMBDA e : e.key # key), Entry(key))

Added(key) ==
  IF Len(Pruned) >= MaxKeys \/ \E i \in DOMAIN Pruned : Pruned[i].key = key THEN Pruned
  ELSE Append(Pruned, Entry(key))

----------------------------------------------------------------------------
(* consumeAdmissionRateLimit *)

(* The cache does not know a rejection, so the request asks for a slot; the *)
(* cleanup of buckets may be due, and asks first.                           *)
Ask(r) ==
  /\ stage[r] = "idle"
  /\ ~Remembered("endpoint") /\ ~Remembered(ClientOf[r])
  /\ \E due \in BOOLEAN :
       /\ due => stage[Cleaner] = "idle"
       /\ LET p == IF due THEN Entered(Slots, Cleaner) ELSE Slots
              asks == (IF due /\ ~Full(Slots) THEN {Cleaner} ELSE {})
                      \cup (IF ~Full(p) THEN {r} ELSE {})
          IN  /\ SlotsBecome(Entered(p, r))
              /\ stage' = [j \in Job |-> IF j \in asks THEN "asked" ELSE stage[j]]
  /\ UNCHANGED <<now, began, verdict, count, backoff, admitted>>

BeginWork(j) ==
  /\ j \in working /\ began[j] = NotBegun
  /\ began' = [began EXCEPT ![j] = now]
  /\ UNCHANGED <<now, stage, verdict, active, working, waiting, count, backoff, admitted>>

(* The buckets are taken in this order, all of them or none. *)
Verdict(c, w) ==
  IF count["public"][w] >= PublicLimit \/ count["endpoint"][w] >= GlobalLimit THEN "endpoint"
  ELSE IF count[c][w] >= ClientLimit THEN "client"
  ELSE "admitted"

(* Mutant: the transaction of a rejected client is committed. *)
CountedRejected(c, w) ==
  [b \in Bucket |-> IF b \in {"public", "endpoint", c} /\ Verdict(c, w) # "endpoint"
                    THEN [count[b] EXCEPT ![w] = @ + 1] ELSE count[b]]

Counted(c, w) ==
  [b \in Bucket |-> IF b \in {"public", "endpoint", c} /\ Verdict(c, w) = "admitted"
                    THEN [count[b] EXCEPT ![w] = @ + 1] ELSE count[b]]

(* The transaction ends, and the slot is given up. *)
Decide(r) ==
  LET c == ClientOf[r]
      w == WindowAt(began[r])
  IN  /\ began[r] # NotBegun
      /\ count' = Counted(c, w)
      /\ verdict' = [verdict EXCEPT ![r] = Verdict(c, w)]
      /\ admitted' = IF Verdict(c, w) = "admitted"
                     THEN [admitted EXCEPT ![c][w] = @ + 1] ELSE admitted
      /\ stage' = [stage EXCEPT ![r] = "decided"]
      /\ began' = [began EXCEPT ![r] = NotBegun]
      /\ SlotsBecome(Left(Slots, r))
      /\ UNCHANGED <<now, backoff>>

(* The database fails, or its connection. *)
Fails(j) ==
  /\ j \in working
  /\ stage' = [stage EXCEPT ![j] = "idle"]
  /\ began' = [began EXCEPT ![j] = NotBegun]
  /\ SlotsBecome(Left(Slots, j))
  /\ UNCHANGED <<now, verdict, count, backoff, admitted>>

Answer(r) ==
  /\ stage[r] = "decided"
  /\ stage' = [stage EXCEPT ![r] = "idle"]
  /\ backoff' = IF verdict[r] = "admitted" THEN backoff
                ELSE Added(IF verdict[r] = "client" THEN ClientOf[r] ELSE "endpoint")
  /\ verdict' = [verdict EXCEPT ![r] = "admitted"]
  /\ UNCHANGED <<now, began, active, working, waiting, count, admitted>>

(* deleteExpiredRateLimitBuckets *)
Clean ==
  /\ began[Cleaner] # NotBegun
  /\ count' = [b \in Bucket |-> [w \in Windows |->
                 IF w < WindowAt(began[Cleaner]) THEN 0 ELSE count[b][w]]]
  /\ stage' = [stage EXCEPT ![Cleaner] = "idle"]
  /\ began' = [began EXCEPT ![Cleaner] = NotBegun]
  /\ SlotsBecome(Left(Slots, Cleaner))
  /\ UNCHANGED <<now, verdict, backoff, admitted>>

Tick ==
  /\ now < MaxTime
  /\ now' = now + 1
  /\ UNCHANGED <<stage, began, verdict, active, working, waiting, count, backoff, admitted>>

AdmissionNext ==
  \/ \E r \in Request : Ask(r) \/ Decide(r) \/ Answer(r)
  \/ \E j \in Job : WaitExpires(j) \/ BeginWork(j) \/ Fails(j)
  \/ Clean \/ Tick

JobStep == Clean \/ (\E r \in Request : Decide(r)) \/ (\E j \in Job : BeginWork(j) \/ Fails(j))

(* Statements end or time out; nothing is assumed of the waiters' timers. *)
AdmissionFairness ==
  /\ \A j \in Job : WF_admVars(BeginWork(j))
  /\ \A r \in Request : WF_admVars(Decide(r) \/ Fails(r))
  /\ WF_admVars(Clean \/ Fails(Cleaner))

AdmissionSpec == AdmissionInit /\ [][AdmissionNext]_admVars /\ AdmissionFairness

----------------------------------------------------------------------------
(* Properties *)

(* Resumes, expired waits and failures keep the counter of slots true, and  *)
(* no job waits while a slot is free.                                       *)
SlotsAccounted ==
  /\ active = Cardinality(working) /\ active <= MaxActive
  /\ waiting # <<>> => active = MaxActive

(* What a bucket of the current window counts is what was admitted: neither *)
(* a rejected nor a failed request uses up the budget of the others, and    *)
(* none is admitted beyond it.                                              *)
AdmittedIsCounted ==
  LET w == WindowAt(now)
      total == FoldFunction(+, 0, [c \in Caller |-> admitted[c][w]])
  IN  /\ \A c \in Caller : count[c][w] = admitted[c][w] /\ admitted[c][w] <= ClientLimit
      /\ count["public"][w] = total /\ count["endpoint"][w] = total
      /\ total <= PublicLimit /\ total <= GlobalLimit

(* A rejection that is remembered is not remembered for longer because the  *)
(* client comes back meanwhile, or late rejections are still decided.       *)
RejectionsFade ==
  [][\A i \in DOMAIN backoff : backoff[i].until > now' =>
       \E j \in DOMAIN backoff' : backoff'[j] = backoff[i]]_admVars

(* Nobody stays in the queue or in a slot, even if its timer never fires. *)
EveryoneLeaves == \A j \in Job : stage[j] = "asked" ~> stage[j] # "asked"
=============================================================================
