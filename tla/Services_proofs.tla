--------------------------- MODULE Services_proofs --------------------------
(***************************************************************************)
(* Theorems about the services: browser syncs, the hooks file of Cursor    *)
(* and the plugin of OpenCode, each on its own, and the last two as parts of *)
(* MCServices.                                                             *)
(***************************************************************************)
EXTENDS MCServices, TLAPS, SequenceTheorems, FiniteSetTheorems,
  NaturalsInduction, WellFoundedInduction

-----------------------------------------------------------------------------
(***************************************************************************)
(* Browser syncs (BrowserSync).                                            *)
(***************************************************************************)

(* A handler that is at work was started with a link.                      *)
Invited == \A h \in Handler : doing[h] # "off" => link[h] \in Grant

(* Who waits for the lock or syncs has used its grant up, alone.           *)
Granted ==
  \A h \in Handler : doing[h] \in {"wait", "sync"} =>
    /\ grant[link[h]] = "gone"
    /\ \A k \in Handler \ {h} : doing[k] \in {"wait", "sync"} => link[k] # link[h]

(* The server starts no run beside a fresh one.                            *)
FewFresh == \A g, k \in Grant : runs[g].fresh /\ runs[k].fresh => g = k

BrowserInv == BrowserTypeOK /\ Invited /\ Granted /\ FewFresh

(* At first there are no grants, runs or handlers.                         *)
LEMMA BrowserInitInv ==
  ASSUME BrowserInit
  PROVE  BrowserInv
BY DEF BrowserInit, BrowserInv, BrowserTypeOK, Invited, Granted, FewFresh, Statuses, NoRun

RunRow == [status : {"none", "running"} \cup Statuses, fresh : BOOLEAN, recent : BOOLEAN]

(* A result that is taken in keeps the rows typed and makes none fresh.    *)
LEMMA FinishedKeeps ==
  ASSUME runs \in [Grant -> RunRow], NEW g \in Grant, NEW status \in Statuses
  PROVE  /\ Finished(g, status) \in [Grant -> RunRow]
         /\ \A k \in Grant : Finished(g, status)[k].fresh => runs[k].fresh
<1>1. runs[g] \in RunRow
  OBVIOUS
<1>2. Ended(runs[g], status) \in RunRow /\ ~Ended(runs[g], status).fresh
  BY <1>1 DEF Ended, RunRow
<1> HIDE DEF RunRow
<1> QED  BY <1>2 DEF Finished

(* Every step keeps the invariant.                                         *)
LEMMA BrowserStep ==
  ASSUME BrowserInv, BrowserNext
  PROVE  BrowserInv'
<1> USE DEF BrowserInv
<1>0. runs \in [Grant -> RunRow] /\ BrowserTypeOK
  BY DEF BrowserTypeOK, RunRow
<1>1. ASSUME NEW g \in Grant, DrawGrant(g) PROVE BrowserInv'
  BY <1>1 DEF DrawGrant, BrowserTypeOK, Invited, Granted, FewFresh
<1>2. ASSUME NEW g \in Grant, GrantExpires(g) PROVE BrowserInv'
  BY <1>2 DEF GrantExpires, BrowserTypeOK, Invited, Granted, FewFresh
<1>3. ASSUME NEW g \in Grant, RunAges(g) PROVE BrowserInv'
  <2>1. runs[g] \in RunRow
    BY <1>0
  <2>2. runs' = [runs EXCEPT ![g] = [runs[g] EXCEPT !.fresh = runs[g].fresh /\ runs[g].recent, !.recent = FALSE]]
    BY <1>3, <2>1 DEF RunAges, RunRow
  <2>3. [runs[g] EXCEPT !.fresh = runs[g].fresh /\ runs[g].recent, !.recent = FALSE] \in RunRow
        /\ ([runs[g] EXCEPT !.fresh = runs[g].fresh /\ runs[g].recent, !.recent = FALSE].fresh => runs[g].fresh)
    BY <2>1 DEF RunRow
  <2>4. runs' \in [Grant -> RunRow] /\ \A k \in Grant : runs'[k].fresh => runs[k].fresh
    BY <1>0, <2>2, <2>3
  <2> QED  BY <1>3, <2>4 DEF RunAges, BrowserTypeOK, RunRow, Invited, Granted, FewFresh
<1>4. ASSUME NEW h \in Handler, NEW g \in Grant, Launch(h, g) PROVE BrowserInv'
  BY <1>4 DEF Launch, BrowserTypeOK, Invited, Granted, FewFresh
<1>5. ASSUME NEW h \in Handler, HandlerStep(h) PROVE BrowserInv'
  <2>1. CASE LockForClaim(h)
    BY <2>1 DEF LockForClaim, BrowserTypeOK, Invited, Granted, FewFresh
  <2>2. CASE ClaimGivesUp(h)
    BY <2>2 DEF ClaimGivesUp, Quit, BrowserTypeOK, Invited, Granted, FewFresh, Statuses
  <2>3. CASE Claim(h)
    <3> DEFINE g == link[h]
    <3>1. g \in Grant /\ doing[h] = "claiming"
      BY <2>3 DEF Claim, Invited
    <3>2. CASE Quit(h) /\ UNCHANGED <<grant, runs>>
      BY <2>3, <3>2 DEF Claim, Quit, BrowserTypeOK, Invited, Granted, FewFresh, Statuses
    <3>3. CASE /\ served /\ grant[g] = "live"
               /\ grant' = [grant EXCEPT ![g] = "gone"]
               /\ runs' = [runs EXCEPT ![g] = Claimed(g)]
               /\ \/ /\ Claimed(g) = Running
                     /\ doing' = [doing EXCEPT ![h] = "wait"]
                     /\ UNCHANGED <<link, outcome>>
                  \/ Quit(h)
      <4>1. runs[g] \in RunRow
        BY <1>0, <3>1
      <4>2. Claimed(g) \in RunRow
        BY <4>1 DEF Claimed, Running, Ended, RunRow, Statuses
      <4>3. runs' \in [Grant -> RunRow]
        BY <1>0, <3>3, <4>2
      <4>4. FewFresh'
        <5>1. CASE Blocked
          <6>1. \A k \in Grant : runs'[k].fresh => runs[k].fresh
            BY <1>0, <3>1, <3>3, <5>1 DEF Claimed, Ended
          <6> QED  BY <6>1 DEF FewFresh
        <5>2. CASE ~Blocked
          <6>1. \A k \in Grant : ~runs[k].fresh
            BY <5>2 DEF Blocked, Blocking
          <6> QED  BY <1>0, <3>1, <3>3, <6>1 DEF FewFresh
        <5> QED  BY <5>1, <5>2
      <4>5. BrowserTypeOK'
        BY <2>3, <3>1, <3>3, <4>3 DEF Claim, Quit, BrowserTypeOK, Statuses, RunRow
      <4>6. Invited'
        BY <2>3, <3>1, <3>3 DEF Quit, BrowserTypeOK, Invited
      <4>7. Granted'
        <5>1. \A k \in Handler : doing[k] \in {"wait", "sync"} => link[k] \in Grant /\ link[k] # g
          BY <3>1, <3>3 DEF Invited, Granted
        <5>2. \A k \in Handler : doing'[k] \in {"wait", "sync"} => link'[k] = link[k] /\ (k = h \/ doing[k] \in {"wait", "sync"})
          BY <3>1, <3>3 DEF Quit, BrowserTypeOK
        <5> QED  BY <3>1, <3>3, <5>1, <5>2 DEF Granted, BrowserTypeOK
      <4> QED  BY <4>4, <4>5, <4>6, <4>7
    <3> QED  BY <2>3, <3>2, <3>3 DEF Claim
  <2>4. CASE MappingChanged(h)
    <3>1. link[h] \in Grant /\ "failed" \in Statuses
      BY <2>4 DEF MappingChanged, Invited, Statuses
    <3>2. runs' \in [Grant -> RunRow] /\ \A k \in Grant : runs'[k].fresh => runs[k].fresh
      BY <1>0, <2>4, <3>1, FinishedKeeps DEF MappingChanged
    <3> QED  BY <2>4, <3>2 DEF MappingChanged, Quit, BrowserTypeOK, RunRow, Invited, Granted, FewFresh, Statuses
  <2>5. CASE LockForSync(h)
    BY <2>5 DEF LockForSync, BrowserTypeOK, Invited, Granted, FewFresh
  <2>6. CASE SyncGivesUp(h)
    BY <2>6 DEF SyncGivesUp, BrowserTypeOK, Invited, Granted, FewFresh, Statuses
  <2>7. CASE BrowserSyncEnds(h)
    BY <2>7 DEF BrowserSyncEnds, BrowserTypeOK, Invited, Granted, FewFresh, Statuses
  <2>8. CASE Report(h)
    <3>1. link[h] \in Grant /\ outcome[h] \in Statuses
      BY <2>8 DEF Report, Invited, BrowserTypeOK
    <3>2. runs' \in [Grant -> RunRow] /\ \A k \in Grant : runs'[k].fresh => runs[k].fresh
      BY <1>0, <2>8, <3>1, FinishedKeeps DEF Report
    <3>3. CASE Quit(h)
      BY <2>8, <3>2, <3>3 DEF Report, Quit, BrowserTypeOK, RunRow, Invited, Granted, FewFresh, Statuses
    <3>4. CASE doing' = [doing EXCEPT ![h] = "again"] /\ UNCHANGED <<link, outcome>>
      BY <2>8, <3>2, <3>4 DEF Report, BrowserTypeOK, RunRow, Invited, Granted, FewFresh
    <3> QED  BY <2>8, <3>3, <3>4 DEF Report
  <2>9. CASE ReportFailure(h)
    <3>1. link[h] \in Grant /\ "failed" \in Statuses
      BY <2>9 DEF ReportFailure, Invited, Statuses
    <3>2. runs' \in [Grant -> RunRow] /\ \A k \in Grant : runs'[k].fresh => runs[k].fresh
      BY <1>0, <2>9, <3>1, FinishedKeeps DEF ReportFailure
    <3> QED  BY <2>9, <3>2 DEF ReportFailure, Quit, BrowserTypeOK, RunRow, Invited, Granted, FewFresh, Statuses
  <2> QED  BY <1>5, <2>1, <2>2, <2>3, <2>4, <2>5, <2>6, <2>7, <2>8, <2>9 DEF HandlerStep
<1>6. ASSUME NEW h \in Handler, HandlerDies(h) PROVE BrowserInv'
  BY <1>6 DEF HandlerDies, Quit, BrowserTypeOK, Invited, Granted, FewFresh, Statuses
<1>7. CASE OtherSync
  BY <1>7 DEF OtherSync, BrowserTypeOK, Invited, Granted, FewFresh
<1>8. CASE Disconnected
  BY <1>8 DEF Disconnected, BrowserTypeOK, Invited, Granted, FewFresh
<1> QED  BY <1>1, <1>2, <1>3, <1>4, <1>5, <1>6, <1>7, <1>8 DEF BrowserNext

(* Two handlers that wait for the lock or sync for the browser work for    *)
(* different requests, and at most one of them for a run the server still  *)
(* takes for fresh (browserSync, accounts/sync/route.ts).                  *)
THEOREM OneSync == BrowserSpec => [](BrowserTypeOK /\ OneBrowserSync)
<1>1. ASSUME BrowserInv, UNCHANGED browserVars PROVE BrowserInv'
  BY <1>1 DEF BrowserInv, BrowserTypeOK, Invited, Granted, FewFresh, browserVars
<1>2. ASSUME BrowserInv PROVE BrowserTypeOK /\ OneBrowserSync
  BY <1>2 DEF BrowserInv, Invited, Granted, FewFresh, OneBrowserSync, BrowserTypeOK
<1> QED  BY BrowserInitInv, BrowserStep, <1>1, <1>2, PTL DEF BrowserSpec

-----------------------------------------------------------------------------
(***************************************************************************)
(* The hooks file of Cursor (HooksFile).  HooksInv says where a hook of the *)
(* user's may be: whatever a mutation has written or moved aside, some file *)
(* that a recovery will read holds it.                                     *)
(***************************************************************************)

(* A nonempty set of numbers has a least element. *)
LEMMA LeastOf ==
  ASSUME NEW U, U \subseteq Nat, U # {}
  PROVE  \E x \in U : \A y \in U : x <= y
<1>1. PICK x \in U : \A y \in U : ~(<<y, x>> \in OpToRel(<, Nat))
  BY WFMin, NatLessThanWellFounded
<1>2. \A y \in U : ~(y < x) /\ y \in Nat /\ x \in Nat
  BY <1>1 DEF OpToRel
<1> QED  BY <1>2

-----------------------------------------------------------------------------
(* What Dropping goes through: the first m entries without these. *)
Partial(doc, these, U, m, g) ==
  /\ g \in [0 .. m -> Seq(U)]
  /\ g[0] = <<>>
  /\ \A n \in 1 .. m : g[n] = IF doc[n] \in these THEN g[n - 1] ELSE Append(g[n - 1], doc[n])

(* Each prefix of a document has such a sequence. *)
LEMMA PartialExists ==
  ASSUME NEW U, NEW doc \in Seq(U), NEW these, NEW m \in 0 .. Len(doc)
  PROVE  \E g : Partial(doc, these, U, m, g)
<1> DEFINE Lacking == {k \in 0 .. Len(doc) : ~\E g : Partial(doc, these, U, k, g)}
<1>1. SUFFICES ASSUME Lacking # {} PROVE FALSE
  OBVIOUS
<1>0. Len(doc) \in Nat
  OBVIOUS
<1>2. PICK k \in Lacking : \A y \in Lacking : k <= y
  <2>1. Lacking \subseteq Nat
    OBVIOUS
  <2> QED  BY <1>1, <2>1, LeastOf
<1>3. k \in 0 .. Len(doc) /\ ~\E g : Partial(doc, these, U, k, g)
  OBVIOUS
<1>4. CASE k = 0
  <2> DEFINE h == [n \in 0 .. 0 |-> <<>>]
  <2>1. h \in [0 .. 0 -> Seq(U)] /\ h[0] = <<>>
    OBVIOUS
  <2>2. Partial(doc, these, U, 0, h)
    BY <2>1 DEF Partial
  <2> QED  BY <1>3, <1>4, <2>2
<1>5. CASE k # 0
  <2>1. k - 1 \in 0 .. Len(doc) /\ k - 1 \notin Lacking /\ k \in 1 .. Len(doc)
    BY <1>0, <1>2, <1>3, <1>5
  <2>2. PICK g : Partial(doc, these, U, k - 1, g)
    BY <2>1
  <2> DEFINE next == IF doc[k] \in these THEN g[k - 1] ELSE Append(g[k - 1], doc[k])
             h == [n \in 0 .. k |-> IF n = k THEN next ELSE g[n]]
  <2>3. /\ g \in [0 .. k - 1 -> Seq(U)] /\ g[0] = <<>>
        /\ \A n \in 1 .. k - 1 : g[n] = IF doc[n] \in these THEN g[n - 1] ELSE Append(g[n - 1], doc[n])
    BY <2>2 DEF Partial
  <2>4. next \in Seq(U)
    <3>1. g[k - 1] \in Seq(U) /\ doc[k] \in U
      BY <2>1, <2>3
    <3> QED  BY <3>1
  <2> HIDE DEF next
  <2>5. h \in [0 .. k -> Seq(U)]
    BY <1>0, <2>1, <2>3, <2>4
  <2>6. h[0] = <<>>
    BY <1>5, <2>1, <2>3
  <2>7. ASSUME NEW n \in 1 .. k
        PROVE  h[n] = IF doc[n] \in these THEN h[n - 1] ELSE Append(h[n - 1], doc[n])
    <3>1. CASE n = k
      <4>1. h[n] = next /\ h[n - 1] = g[k - 1]
        BY <1>0, <2>1, <3>1
      <4> QED  BY <3>1, <4>1 DEF next
    <3>2. CASE n # k
      <4>1. h[n] = g[n] /\ h[n - 1] = g[n - 1] /\ n \in 1 .. k - 1
        BY <1>0, <2>1, <3>2
      <4> QED  BY <2>3, <4>1
    <3> QED  BY <3>1, <3>2
  <2>8. Partial(doc, these, U, k, h)
    <3> HIDE DEF h
    <3> QED  BY <2>5, <2>6, <2>7 DEF Partial
  <2> QED  BY <1>3, <2>8
<1> QED  BY <1>4, <1>5

(* It holds the entries of the prefix besides these. *)
LEMMA PartialHolds ==
  ASSUME NEW U, NEW doc \in Seq(U), NEW these, NEW g, Partial(doc, these, U, Len(doc), g)
  PROVE  \A m \in 0 .. Len(doc) : Range(g[m]) = {doc[i] : i \in 1 .. m} \ these
<1> DEFINE Is(m) == Range(g[m]) = {doc[i] : i \in 1 .. m} \ these
           Lacking == {k \in 0 .. Len(doc) : ~Is(k)}
<1>1. SUFFICES ASSUME Lacking # {} PROVE FALSE
  OBVIOUS
<1>0. Len(doc) \in Nat
  OBVIOUS
<1>2. PICK k \in Lacking : \A y \in Lacking : k <= y
  <2>1. Lacking \subseteq Nat
    OBVIOUS
  <2> QED  BY <1>1, <2>1, LeastOf
<1>3. k \in 0 .. Len(doc) /\ ~Is(k)
  OBVIOUS
<1>6. \A y \in 0 .. Len(doc) : Is(y) \/ k <= y
  BY <1>2
<1> HIDE DEF Lacking
<1>4. CASE k = 0
  <2>1. g[0] = <<>> /\ {doc[i] : i \in 1 .. 0} = {}
    BY DEF Partial
  <2>2. Range(<<>>) = {}
    BY DEF Range
  <2> QED  BY <1>3, <1>4, <2>1, <2>2
<1>5. CASE k # 0
  <2>0. k - 1 \in 0 .. Len(doc) /\ ~(k <= k - 1) /\ k \in 1 .. Len(doc)
    BY <1>0, <1>3, <1>5
  <2>1. k - 1 \in 0 .. Len(doc) /\ Is(k - 1) /\ k \in 1 .. Len(doc)
    <3> HIDE DEF Is
    <3> QED  BY <1>6, <2>0
  <2>2. Range(g[k - 1]) = {doc[i] : i \in 1 .. k - 1} \ these
    BY <2>1
  <2>3. g[k - 1] \in Seq(U) /\ doc[k] \in U
    BY <2>1 DEF Partial
  <2>4. {doc[i] : i \in 1 .. k} = {doc[i] : i \in 1 .. k - 1} \cup {doc[k]}
    <3>1. 1 .. k = (1 .. k - 1) \cup {k}
      BY <1>0, <2>1
    <3> QED  BY <3>1
  <2>5. CASE doc[k] \in these
    <3>1. g[k] = g[k - 1]
      BY <2>1, <2>5 DEF Partial
    <3> QED  BY <1>3, <2>2, <2>4, <2>5, <3>1
  <2>6. CASE doc[k] \notin these
    <3>1. g[k] = Append(g[k - 1], doc[k])
      BY <2>1, <2>6 DEF Partial
    <3>2. Range(g[k]) = Range(g[k - 1]) \cup {doc[k]}
      <4> DEFINE s == g[k - 1]
                 e == doc[k]
                 r == Append(s, e)
      <4>2. s \in Seq(U) /\ e \in U
        BY <2>3
      <4> HIDE DEF s, e
      <4>3. Len(s) \in Nat /\ DOMAIN s = 1 .. Len(s) /\ DOMAIN r = 1 .. Len(s) + 1
        BY <4>2
      <4>4. r[Len(s) + 1] = e /\ \A i \in 1 .. Len(s) : r[i] = s[i]
        BY <4>2
      <4> HIDE DEF r
      <4>5. Range(r) = Range(s) \cup {e}
        BY <4>3, <4>4 DEF Range
      <4> QED  BY <3>1, <4>5 DEF s, e, r
    <3> QED  BY <1>3, <2>2, <2>4, <2>6, <3>2
  <2> QED  BY <2>5, <2>6
<1> QED  BY <1>4, <1>5

(* Dropping leaves what a document holds besides these. *)
LEMMA DroppingHolds ==
  ASSUME NEW U, NEW doc \in Seq(U), NEW these
  PROVE  Dropping(doc, these) \in Seq(U) /\ Range(Dropping(doc, these)) = Range(doc) \ these
<1>0. Len(doc) \in 0 .. Len(doc)
  OBVIOUS
<1>1. PICK g : Partial(doc, these, U, Len(doc), g)
  BY <1>0, PartialExists
<1>2. g = [n \in 0 .. Len(doc) |->
             IF n = 0 THEN <<>>
             ELSE IF doc[n] \in these THEN g[n - 1] ELSE Append(g[n - 1], doc[n])]
  <2>1. g = [n \in 0 .. Len(doc) |-> g[n]]
    BY <1>1 DEF Partial
  <2>2. ASSUME NEW n \in 0 .. Len(doc), n # 0
        PROVE  g[n] = IF doc[n] \in these THEN g[n - 1] ELSE Append(g[n - 1], doc[n])
    <3>1. n \in 1 .. Len(doc)
      BY <2>2
    <3> QED  BY <1>1, <3>1 DEF Partial
  <2>3. g[0] = <<>>
    BY <1>1 DEF Partial
  <2>4. \A n \in 0 .. Len(doc) :
          g[n] = IF n = 0 THEN <<>>
                 ELSE IF doc[n] \in these THEN g[n - 1] ELSE Append(g[n - 1], doc[n])
    BY <2>2, <2>3
  <2> QED  BY <2>1, <2>4
<1> DEFINE f == CHOOSE f : f = [n \in 0 .. Len(doc) |->
             IF n = 0 THEN <<>>
             ELSE IF doc[n] \in these THEN f[n - 1] ELSE Append(f[n - 1], doc[n])]
<1>3. f = [n \in 0 .. Len(doc) |->
             IF n = 0 THEN <<>>
             ELSE IF doc[n] \in these THEN f[n - 1] ELSE Append(f[n - 1], doc[n])]
  BY <1>2
<1>4. Dropping(doc, these) = f[Len(doc)]
  BY DEF Dropping
<1> HIDE DEF f
<1>5. Len(doc) \in Nat
  OBVIOUS
<1> DEFINE Lacking == {k \in 0 .. Len(doc) : f[k] # g[k]}
<1>6. Lacking = {}
  <2>1. SUFFICES ASSUME Lacking # {} PROVE FALSE
    OBVIOUS
  <2>2. PICK k \in Lacking : \A y \in Lacking : k <= y
    <3>1. Lacking \subseteq Nat
      OBVIOUS
    <3> QED  BY <2>1, <3>1, LeastOf
  <2>3. k # 0
    BY <1>3, <1>2, <1>5
  <2>4. k - 1 \in 0 .. Len(doc) /\ k - 1 \notin Lacking /\ k \in 0 .. Len(doc)
    BY <1>5, <2>2, <2>3
  <2>5. f[k - 1] = g[k - 1]
    BY <2>4
  <2>6. f[k] = IF doc[k] \in these THEN f[k - 1] ELSE Append(f[k - 1], doc[k])
    BY <1>3, <2>3, <2>4
  <2>7. g[k] = IF doc[k] \in these THEN g[k - 1] ELSE Append(g[k - 1], doc[k])
    BY <1>2, <2>3, <2>4
  <2> QED  BY <2>5, <2>6, <2>7
<1>7. f[Len(doc)] = g[Len(doc)] /\ g[Len(doc)] \in Seq(U)
  BY <1>1, <1>5, <1>6 DEF Partial
<1>8. Range(g[Len(doc)]) = {doc[i] : i \in 1 .. Len(doc)} \ these
  <2>1. \A m \in 0 .. Len(doc) : Range(g[m]) = {doc[i] : i \in 1 .. m} \ these
    BY <1>1, PartialHolds
  <2> QED  BY <1>0, <2>1
<1>9. Range(doc) = {doc[i] : i \in 1 .. Len(doc)}
  BY DEF Range
<1> QED  BY <1>4, <1>7, <1>8, <1>9

-----------------------------------------------------------------------------
(* Foreign hooks (HooksFile).  What a name holds, and what is to be kept. *)
Docs == Seq(Entries) \cup {NoFile}
In(d) == Range(Doc(d))
Alive == (1 .. edits) \ deleted

HooksTyped ==
  /\ file \in [Name -> Docs] /\ memory \in [Name \cup {"seen"} -> Docs]
  /\ linked \subseteq Name \ {"hooks"}
  /\ edits \in 0 .. MaxEdits /\ deleted \subseteq 1 .. MaxEdits

(* The entries that others have not deleted are in one of the files, and   *)
(* the names of the same file hold the same.                               *)
AliveKept == Alive \subseteq In(file["hooks"]) \cup In(file["recovery"]) \cup In(file["reconcile"])
LinksAgree == \A n \in linked : file[n] # NoFile /\ file[n] = file["hooks"]

(* The stage is the connector's alone until it is published. *)
StagePrivate ==
  /\ step \in {"classify", "restore", "restored", "displace", "displaced", "publish", "give back",
               "check reconcile", "drop reconcile", "check recovery", "drop recovery", "read",
               "swap", "rename", "renamed", "link", "put back"} => "stage" \notin linked
  /\ step \in {"displace", "displaced", "publish", "swap", "rename", "renamed", "link"} =>
       file["stage"] # NoFile

(* The name that is published from exists, the one to displace to does not.*)
NamesReady ==
  /\ step = "restore" => file[Journal] # NoFile
  /\ step \in {"give back", "displaced"} => file["reconcile"] # NoFile
  /\ step \in {"put back", "renamed"} => file["recovery"] # NoFile
  /\ step = "displace" => file["reconcile"] = NoFile /\ memory["hooks"] # NoFile
  /\ step = "rename" => file["recovery"] = NoFile

(* What the connector remembers: the document to publish holds all that    *)
(* was read, and the one that was published all that is in the journals.   *)
MemoryTrue ==
  /\ step \in {"displace", "displaced"} =>
       In(memory["recovery"]) \cup In(memory["hooks"]) \subseteq In(memory["stage"])
  /\ step \in {"publish", "published"} =>
       In(memory["recovery"]) \cup In(memory["reconcile"]) \subseteq In(memory["stage"])
  /\ step \in {"check reconcile", "drop reconcile"} => In(memory["reconcile"]) \subseteq In(memory["hooks"])
  /\ step \in {"check reconcile", "drop reconcile", "check recovery", "drop recovery"} =>
       In(memory["recovery"]) \subseteq In(memory["hooks"])

(* What is about to be dropped is in hooks.json, or its editors have       *)
(* deleted it there.                                                       *)
Replaced ==
  /\ step \in {"swap", "rename", "renamed", "link"} => In(memory["seen"]) \ {Own} \subseteq In(file["stage"])
  /\ step \in {"linked", "compare"} => Alive \cap In(memory["seen"]) \subseteq In(file["hooks"])
  /\ step = "drop reconcile" => Alive \cap In(file["reconcile"]) \subseteq In(file["hooks"])
  /\ step \in {"drop recovery", "drop old"} => Alive \cap In(file["recovery"]) \subseteq In(file["hooks"])

HooksInv ==
  HooksTyped /\ AliveKept /\ LinksAgree /\ StagePrivate /\ NamesReady /\ MemoryTrue /\ Replaced

(* A missing document holds nothing, a document what it lists. *)
LEMMA InIs ==
  ASSUME NEW d \in Docs
  PROVE  Doc(d) \in Seq(Entries) /\ (d = NoFile => In(d) = {}) /\ (d # NoFile => In(d) = Range(d))
<1>1. Range(<<>>) = {}
  BY DEF Range
<1> QED  BY <1>1 DEF Docs, Doc, In

(* An empty document is none that is missing, and NoFile is no document. *)
LEMMA NoFileIs == NoFile \notin Seq(Entries) /\ NoFile \in Docs /\ In(NoFile) = {}
BY HooksFileAssumption, InIs DEF Entries, Docs

(* The elements of a sequence. *)
LEMMA RangeIs ==
  ASSUME NEW U, NEW s \in Seq(U)
  PROVE  Len(s) \in Nat /\ \A e : e \in Range(s) <=> \E i \in 1 .. Len(s) : s[i] = e
BY DEF Range

(* What the merge, an added entry and a removed one hold. *)
LEMMA MergedHolds ==
  ASSUME NEW left \in Seq(Entries), NEW right \in Seq(Entries)
  PROVE  Merged(left, right) \in Seq(Entries) /\ Range(Merged(left, right)) = Range(left) \cup Range(right)
<1> DEFINE rest == Dropping(right, Range(left))
<1>1. rest \in Seq(Entries) /\ Range(rest) = Range(right) \ Range(left)
  BY DroppingHolds
<1> HIDE DEF rest
<1>2. left \o rest \in Seq(Entries) /\ Range(left \o rest) = Range(left) \cup Range(rest)
  <2> DEFINE s == left \o rest
  <2>1. s \in Seq(Entries) /\ Len(s) = Len(left) + Len(rest)
    BY <1>1
  <2>2. \A i \in 1 .. Len(left) : i \in 1 .. Len(s) /\ s[i] = left[i]
    BY <1>1, <2>1
  <2>3. \A i \in 1 .. Len(rest) : i + Len(left) \in 1 .. Len(s) /\ s[i + Len(left)] = rest[i]
    BY <1>1, <2>1
  <2>4. \A i \in 1 .. Len(s) : i \in 1 .. Len(left) \/ \E j \in 1 .. Len(rest) : i = j + Len(left)
    <3> SUFFICES ASSUME NEW i \in 1 .. Len(s), i \notin 1 .. Len(left)
                 PROVE  \E j \in 1 .. Len(rest) : i = j + Len(left)
      OBVIOUS
    <3>1. i - Len(left) \in 1 .. Len(rest) /\ i = (i - Len(left)) + Len(left)
      BY <1>1, <2>1
    <3> QED  BY <3>1
  <2> HIDE DEF s
  <2>5. /\ \A e : e \in Range(s) <=> \E i \in 1 .. Len(s) : s[i] = e
        /\ \A e : e \in Range(left) <=> \E i \in 1 .. Len(left) : left[i] = e
        /\ \A e : e \in Range(rest) <=> \E i \in 1 .. Len(rest) : rest[i] = e
    BY <1>1, <2>1, RangeIs
  <2>6. \A e : e \in Range(s) <=> e \in Range(left) \/ e \in Range(rest)
    <3>1. ASSUME NEW e, e \in Range(s) PROVE e \in Range(left) \/ e \in Range(rest)
      <4>1. PICK i \in 1 .. Len(s) : s[i] = e
        BY <2>5, <3>1
      <4>2. CASE i \in 1 .. Len(left)
        BY <2>2, <2>5, <4>1, <4>2
      <4>3. CASE i \notin 1 .. Len(left)
        <5>1. PICK j \in 1 .. Len(rest) : i = j + Len(left)
          BY <2>4, <4>3
        <5>2. rest[j] = e
          BY <2>3, <4>1, <5>1
        <5> QED  BY <2>5, <5>2
      <4> QED  BY <4>2, <4>3
    <3>2. ASSUME NEW e, e \in Range(left) PROVE e \in Range(s)
      BY <2>2, <2>5, <3>2
    <3>3. ASSUME NEW e, e \in Range(rest) PROVE e \in Range(s)
      BY <2>3, <2>5, <3>3
    <3> QED  BY <3>1, <3>2, <3>3
  <2> QED  BY <2>1, <2>6 DEF s
<1> QED  BY <1>1, <1>2 DEF Merged, rest

(* Appending an entry adds that one.                                       *)
LEMMA AppendHolds ==
  ASSUME NEW doc \in Seq(Entries), NEW e \in Entries
  PROVE  /\ Append(doc, e) \in Seq(Entries) /\ Range(Append(doc, e)) = Range(doc) \cup {e}
         /\ <<e>> \o doc \in Seq(Entries) /\ Range(<<e>> \o doc) = Range(doc) \cup {e}
<1> DEFINE r == Append(doc, e)
           p == <<e>> \o doc
<1>1. /\ r \in Seq(Entries) /\ Len(r) = Len(doc) + 1 /\ r[Len(doc) + 1] = e
      /\ \A i \in 1 .. Len(doc) : r[i] = doc[i]
  OBVIOUS
<1>2. /\ p \in Seq(Entries) /\ Len(p) = Len(doc) + 1 /\ p[1] = e
      /\ \A i \in 1 .. Len(doc) : p[i + 1] = doc[i]
  OBVIOUS
<1>3. Len(doc) \in Nat /\ \A x : x \in Range(doc) <=> \E i \in 1 .. Len(doc) : doc[i] = x
  BY RangeIs
<1> HIDE DEF r, p
<1>4. /\ \A x : x \in Range(r) <=> \E i \in 1 .. Len(r) : r[i] = x
      /\ \A x : x \in Range(p) <=> \E i \in 1 .. Len(p) : p[i] = x
  BY <1>1, <1>2, RangeIs
<1>5. Range(r) = Range(doc) \cup {e}
  <2>1. 1 .. Len(r) = 1 .. Len(doc) \cup {Len(doc) + 1}
    BY <1>1, <1>3
  <2> QED  BY <1>1, <1>3, <1>4, <2>1
<1>6. Range(p) = Range(doc) \cup {e}
  <2>1. \A i \in 1 .. Len(p) : i = 1 \/ (i - 1 \in 1 .. Len(doc) /\ p[i] = doc[i - 1])
    <3> SUFFICES ASSUME NEW i \in 1 .. Len(p), i # 1
                 PROVE  i - 1 \in 1 .. Len(doc) /\ p[i] = doc[i - 1]
      OBVIOUS
    <3>1. i - 1 \in 1 .. Len(doc) /\ (i - 1) + 1 = i
      BY <1>2, <1>3
    <3> QED  BY <1>2, <3>1
  <2>2. \A i \in 1 .. Len(doc) : i + 1 \in 1 .. Len(p)
    BY <1>2, <1>3
  <2>3. 1 \in 1 .. Len(p)
    BY <1>2, <1>3
  <2>4. ASSUME NEW x, x \in Range(p) PROVE x = e \/ x \in Range(doc)
    <3>1. PICK i \in 1 .. Len(p) : p[i] = x
      BY <1>4, <2>4
    <3> QED  BY <1>2, <1>3, <2>1, <3>1
  <2>5. ASSUME NEW x, x \in Range(doc) PROVE x \in Range(p)
    <3>1. PICK i \in 1 .. Len(doc) : doc[i] = x
      BY <1>3, <2>5
    <3> QED  BY <1>2, <1>4, <2>2, <3>1
  <2>6. e \in Range(p)
    BY <1>2, <1>4, <2>3
  <2> QED  BY <2>4, <2>5, <2>6
<1> QED  BY <1>1, <1>2, <1>5, <1>6 DEF r, p

(* The connector changes only its own entry. *)
LEMMA DesiredHolds ==
  ASSUME NEW doc \in Seq(Entries)
  PROVE  Desired(doc) \in Seq(Entries) /\ Range(doc) \ {Own} \subseteq Range(Desired(doc))
<1> DEFINE rest == Dropping(doc, {Own})
<1>1. rest \in Seq(Entries) /\ Range(rest) = Range(doc) \ {Own}
  BY DroppingHolds
<1>2. Own \in Entries
  BY DEF Entries
<1> HIDE DEF rest
<1>3. Append(rest, Own) \in Seq(Entries) /\ Range(Append(rest, Own)) = Range(rest) \cup {Own}
  BY <1>1, <1>2, AppendHolds
<1> QED  BY <1>1, <1>3 DEF Desired, rest

(* A document that subsumes the journals holds what they hold. *)
LEMMA SubsumesHolds ==
  ASSUME NEW doc \in Seq(Entries), NEW r \in Docs, NEW q \in Docs, Subsumes(doc, r, q)
  PROVE  In(r) \cup In(q) \subseteq In(doc)
<1>1. Doc(r) \in Seq(Entries) /\ Doc(q) \in Seq(Entries) /\ doc \in Docs /\ In(doc) = Range(doc)
  BY InIs, NoFileIs DEF Docs
<1> DEFINE both == Merged(Doc(r), Doc(q))
<1>2. both \in Seq(Entries) /\ Range(both) = In(r) \cup In(q)
  BY <1>1, MergedHolds DEF In
<1> HIDE DEF both
<1>3. Range(Merged(both, doc)) = Range(both) \cup Range(doc)
  BY <1>2, MergedHolds
<1>4. Merged(both, doc) = doc
  BY DEF Subsumes, both
<1> QED  BY <1>1, <1>2, <1>3, <1>4

(* At first there is at most an empty document, or the connector's entry.  *)
LEMMA HooksInitInv ==
  ASSUME HooksInit
  PROVE  HooksInv
<1>1. <<>> \in Docs /\ <<Own>> \in Docs /\ NoFile \in Docs
  BY NoFileIs DEF Docs, Entries
<1>2. HooksTyped
  BY <1>1, HooksFileAssumption DEF HooksInit, HooksTyped, NoMemory, Name
<1>3. AliveKept
  BY DEF HooksInit, AliveKept, Alive
<1> QED  BY <1>2, <1>3 DEF HooksInit, HooksInv, LinksAgree, StagePrivate, NamesReady, MemoryTrue, Replaced

(* What the files of a step come to. *)
LEMMA HooksTypes ==
  ASSUME HooksTyped
  PROVE  /\ \A n \in Name : file[n] \in Docs
         /\ \A n \in Name \cup {"seen"} : memory[n] \in Docs
         /\ "hooks" \in Name /\ "recovery" \in Name /\ "reconcile" \in Name /\ "stage" \in Name
         /\ NoMemory \in [Name \cup {"seen"} -> Docs]
BY NoFileIs DEF HooksTyped, Name, NoMemory

(* An editor writes a document that keeps what is not deleted.             *)
LEMMA WriteKeeps ==
  ASSUME HooksInv, NEW doc \in Seq(Entries), Write(doc), UNCHANGED <<goal, step, memory, attempt, crashes>>,
         edits' \in 0 .. MaxEdits, deleted' \subseteq 1 .. MaxEdits,
         Alive' \subseteq Alive \cup Range(doc),
         Alive' \cap In(file["hooks"]) \subseteq Range(doc)
  PROVE  HooksInv'
<1> USE DEF HooksInv
<1>0. file \in [Name -> Docs] /\ linked \subseteq Name \ {"hooks"}
  BY DEF HooksTyped
<1>1. doc \in Docs /\ doc # NoFile /\ In(doc) = Range(doc)
  BY NoFileIs, InIs DEF Docs
<1>2. /\ file' \in [Name -> Docs]
      /\ linked' \subseteq linked
      /\ \A n \in Name : file'[n] = IF n = "hooks" \/ n \in linked' THEN doc ELSE file[n]
  <2>1. CASE /\ file' = [n \in Name |-> IF n = "hooks" \/ n \in linked THEN doc ELSE file[n]]
             /\ UNCHANGED linked
    BY <1>0, <1>1, <2>1
  <2>2. CASE file' = [file EXCEPT !["hooks"] = doc] /\ linked' = {}
    BY <1>0, <1>1, <2>2
  <2> QED  BY <2>1, <2>2 DEF Write
<1>3. \A n \in Name : \/ file'[n] = doc
                      \/ file'[n] = file[n] /\ n \notin linked' /\ n # "hooks"
  BY <1>2
<1>4. \A n \in Name : file[n] # NoFile => file'[n] # NoFile
  BY <1>1, <1>3
<1>5. "hooks" \in Name /\ "recovery" \in Name /\ "reconcile" \in Name /\ "stage" \in Name
  BY DEF Name
<1>6. file'["hooks"] = doc
  BY <1>2, <1>5
<1>7. ASSUME NEW X, Alive \cap X \subseteq In(file["hooks"]) PROVE Alive' \cap X \subseteq In(file["hooks"])'
  BY <1>1, <1>6, <1>7
<1>8. HooksTyped'
  BY <1>0, <1>2 DEF HooksTyped
<1>9. AliveKept'
  <2>1. ASSUME NEW e \in Alive', e \notin Range(doc), NEW n \in Name, e \in In(file[n]) PROVE e \in In(file[n])'
    <3>1. CASE file'[n] = file[n]
      BY <2>1, <3>1 DEF In, Doc
    <3>2. CASE n = "hooks" \/ n \in linked
      <4>1. file[n] = file["hooks"]
        BY <3>2 DEF LinksAgree
      <4> QED  BY <2>1, <4>1
    <3>3. CASE n # "hooks" /\ n \notin linked
      BY <1>2, <3>1, <3>3
    <3> QED  BY <3>2, <3>3
  <2>2. \A e \in Alive' : e \in Alive \/ e \in In(file["hooks"])'
    BY <1>1, <1>6
  <2>3. \A e \in Alive' : e \in Range(doc) => e \in In(file["hooks"])'
    BY <1>1, <1>6
  <2> QED  BY <1>5, <2>1, <2>2, <2>3 DEF AliveKept
<1>10. LinksAgree'
  BY <1>1, <1>0, <1>2, <1>6 DEF LinksAgree
<1>11. StagePrivate'
  BY <1>2, <1>4, <1>5 DEF StagePrivate
<1>12. NamesReady'
  <2>1. ASSUME NEW n \in Name \ {"hooks"}, file[n] = NoFile PROVE file'[n] = NoFile
    BY <1>2, <2>1 DEF LinksAgree
  <2>2. Journal' = Journal /\ Journal \in Name
    BY DEF Journal, Name
  <2> QED  BY <1>4, <1>5, <2>1, <2>2 DEF NamesReady
<1>13. MemoryTrue'
  BY DEF MemoryTrue
<1>14. Replaced'
  <2>1. step \in {"swap", "rename", "renamed", "link"} => (In(memory["seen"]) \ {Own} \subseteq In(file["stage"]))'
    BY <1>2, <1>5 DEF StagePrivate, Replaced
  <2>2. step \in {"linked", "compare"} => (Alive \cap In(memory["seen"]) \subseteq In(file["hooks"]))'
    BY <1>7 DEF Replaced
  <2>3. ASSUME NEW n \in Name, Alive \cap In(file[n]) \subseteq In(file["hooks"])
        PROVE  (Alive \cap In(file[n]) \subseteq In(file["hooks"]))'
    <3>1. CASE file'[n] = doc
      BY <1>6, <3>1
    <3>2. CASE file'[n] = file[n]
      BY <1>7, <2>3, <3>2
    <3> QED  BY <1>3, <3>1, <3>2
  <2>4. step = "drop reconcile" => (Alive \cap In(file["reconcile"]) \subseteq In(file["hooks"]))'
    BY <1>5, <2>3 DEF Replaced
  <2>5. step \in {"drop recovery", "drop old"} => (Alive \cap In(file["recovery"]) \subseteq In(file["hooks"]))'
    BY <1>5, <2>3 DEF Replaced
  <2> QED  BY <2>1, <2>2, <2>4, <2>5 DEF Replaced
<1> QED  BY <1>8, <1>9, <1>10, <1>11, <1>12, <1>13, <1>14

(* An edit adds its entry in hooks.json, or deletes one there.             *)
LEMMA EditInv ==
  ASSUME HooksInv, NEW kind, Edit(kind)
  PROVE  HooksInv'
<1> DEFINE doc == Doc(file["hooks"])
           new == edits + 1
<1>1. /\ edits < MaxEdits /\ edits' = edits + 1 /\ edits \in 0 .. MaxEdits /\ deleted \subseteq 1 .. MaxEdits
      /\ MaxEdits \in Nat /\ UNCHANGED <<goal, step, memory, attempt, crashes>>
  BY HooksFileAssumption DEF Edit, HooksInv, HooksTyped
<1>2. /\ doc \in Seq(Entries) /\ In(file["hooks"]) = Range(doc)
      /\ new \in Entries /\ new \in 1 .. MaxEdits /\ edits' \in 0 .. MaxEdits
  BY <1>1, HooksTypes, InIs DEF HooksInv, In, Entries
<1>3. 1 .. edits' = 1 .. edits \cup {new}
  BY <1>1
<1> HIDE DEF doc, new
<1>4. CASE Write(Append(doc, new)) /\ UNCHANGED deleted
  <2>1. Append(doc, new) \in Seq(Entries) /\ Range(Append(doc, new)) = Range(doc) \cup {new}
    BY <1>2, AppendHolds
  <2>2. Alive' \subseteq Alive \cup {new}
    BY <1>3, <1>4 DEF Alive
  <2> QED  BY <1>1, <1>2, <1>4, <2>1, <2>2, WriteKeeps
<1>5. CASE Write(<<new>> \o doc) /\ UNCHANGED deleted
  <2>1. <<new>> \o doc \in Seq(Entries) /\ Range(<<new>> \o doc) = Range(doc) \cup {new}
    BY <1>2, AppendHolds
  <2>2. Alive' \subseteq Alive \cup {new}
    BY <1>3, <1>5 DEF Alive
  <2> QED  BY <1>1, <1>2, <1>5, <2>1, <2>2, WriteKeeps
<1>6. ASSUME NEW e \in Range(doc), Write(Dropping(doc, {e})), deleted' = (deleted \cup {e, new}) \ {Own}
      PROVE  HooksInv'
  <2>1. Dropping(doc, {e}) \in Seq(Entries) /\ Range(Dropping(doc, {e})) = Range(doc) \ {e}
    BY <1>2, DroppingHolds
  <2>2. e \in Entries
    BY <1>2, RangeIs
  <2>3. deleted' \subseteq 1 .. MaxEdits
    BY <1>1, <1>2, <1>6, <2>2 DEF Entries
  <2>4. Own \notin 1 .. MaxEdits
    BY HooksFileAssumption
  <2>5. Alive' \subseteq Alive \ {e}
    <3>1. 1 .. edits' \subseteq 1 .. MaxEdits
      BY <1>1
    <3> QED  BY <1>2, <1>3, <1>6, <2>4, <3>1 DEF Alive
  <2> QED  BY <1>1, <1>2, <1>6, <2>1, <2>3, <2>5, WriteKeeps
<1> QED  BY <1>4, <1>5, <1>6 DEF Edit, doc, new

(* A step of the connector leaves alone what is to be kept.                *)
LEMMA ToKeeps ==
  ASSUME NEW next, To(next)
  PROVE  Alive' = Alive /\ step' = next /\ edits' = edits /\ deleted' = deleted
BY DEF To, Alive

(* Looking at the files does not change them. *)
LEMMA LookKeeps ==
  ASSUME HooksInv, NEW next, Look(next)
  PROVE  HooksTyped' /\ AliveKept' /\ LinksAgree' /\ Journal' = Journal
BY DEF Look, To, HooksInv, HooksTyped, AliveKept, LinksAgree, Alive, Journal

(* Where the stage is removed and the mutation ends. *)
LEMMA UnlinkKeeps ==
  ASSUME HooksInv, NEW names \in SUBSET {"recovery", "reconcile", "stage"}, Unlink(names),
         memory' \in [Name \cup {"seen"} -> Docs], UNCHANGED <<edits, deleted>>,
         "recovery" \in names => Alive \cap In(file["recovery"]) \subseteq In(file["hooks"]),
         "reconcile" \in names => Alive \cap In(file["reconcile"]) \subseteq In(file["hooks"])
  PROVE  /\ HooksTyped' /\ AliveKept' /\ LinksAgree' /\ linked' = linked \ names
         /\ \A n \in Name : file'[n] = IF n \in names THEN NoFile ELSE file[n]
<1>1. file \in [Name -> Docs] /\ linked \subseteq Name \ {"hooks"} /\ NoFile \in Docs
  BY NoFileIs DEF HooksInv, HooksTyped
<1>2. /\ \A n \in Name : file'[n] = IF n \in names THEN NoFile ELSE file[n]
      /\ file' \in [Name -> Docs] /\ linked' = linked \ names
  BY <1>1 DEF Unlink
<1>3. HooksTyped'
  BY <1>1, <1>2 DEF HooksInv, HooksTyped
<1>4. LinksAgree'
  BY <1>1, <1>2 DEF HooksInv, LinksAgree, Name
<1>5. AliveKept'
  <2>1. Alive' = Alive
    BY DEF Alive
  <2>2. file'["hooks"] = file["hooks"]
    BY <1>2 DEF Name
  <2>3. "recovery" \in names \/ file'["recovery"] = file["recovery"]
    BY <1>2 DEF Name
  <2>4. "reconcile" \in names \/ file'["reconcile"] = file["reconcile"]
    BY <1>2 DEF Name
  <2> QED  BY <2>1, <2>2, <2>3, <2>4 DEF HooksInv, AliveKept
<1> QED  BY <1>2, <1>3, <1>4, <1>5

(* A mutation that stops leaves only what it has staged behind,            *)
LEMMA StopInv ==
  ASSUME HooksInv, Stop
  PROVE  HooksInv'
<1>1. NoMemory \in [Name \cup {"seen"} -> Docs]
  BY HooksTypes DEF HooksInv
<1>2. /\ Unlink({"stage"}) /\ memory' = NoMemory /\ UNCHANGED <<edits, deleted>> /\ step' = "idle"
  BY DEF Stop, To
<1>3. HooksTyped' /\ AliveKept' /\ LinksAgree'
  BY <1>1, <1>2, UnlinkKeeps
<1> QED  BY <1>2, <1>3 DEF HooksInv, StagePrivate, NamesReady, MemoryTrue, Replaced

(* and so does one that fails.                                             *)
LEMMA FailInv ==
  ASSUME HooksInv, Fail
  PROVE  HooksInv'
<1>1. NoMemory \in [Name \cup {"seen"} -> Docs]
  BY HooksTypes DEF HooksInv
<1>2. /\ Unlink({"stage"}) /\ memory' = NoMemory /\ UNCHANGED <<edits, deleted>> /\ step' \in {"idle", "recover"}
  BY DEF Fail
<1>3. HooksTyped' /\ AliveKept' /\ LinksAgree'
  BY <1>1, <1>2, UnlinkKeeps
<1> QED  BY <1>2, <1>3 DEF HooksInv, StagePrivate, NamesReady, MemoryTrue, Replaced

(* hooks.json is linked to another name only when nobody has it.           *)
LEMMA PublishKeeps ==
  ASSUME HooksInv, NEW from \in Name \ {"hooks"}, Publish(from), Free("hooks"), file[from] # NoFile,
         UNCHANGED <<memory, edits, deleted>>
  PROVE  /\ HooksTyped' /\ AliveKept' /\ LinksAgree' /\ linked' = {from}
         /\ \A n \in Name : file'[n] = IF n = "hooks" THEN file[from] ELSE file[n]
<1>1. file \in [Name -> Docs] /\ "hooks" \in Name
  BY DEF HooksInv, HooksTyped, Name
<1>2. /\ \A n \in Name : file'[n] = IF n = "hooks" THEN file[from] ELSE file[n]
      /\ file' \in [Name -> Docs] /\ linked' = {from}
  BY <1>1 DEF Publish
<1>3. HooksTyped'
  BY <1>2 DEF HooksInv, HooksTyped
<1>4. LinksAgree'
  BY <1>1, <1>2 DEF LinksAgree
<1>5. AliveKept'
  <2>1. In(file["hooks"]) = {} /\ Alive' = Alive
    BY NoFileIs DEF Free, Alive
  <2>2. file'["recovery"] = file["recovery"] /\ file'["reconcile"] = file["reconcile"]
    BY <1>2 DEF Name
  <2> QED  BY <2>1, <2>2 DEF HooksInv, AliveKept
<1> QED  BY <1>2, <1>3, <1>4, <1>5

(* hooks.json is moved to a name that is free.                             *)
LEMMA DisplaceKeeps ==
  ASSUME HooksInv, NEW to \in {"recovery", "reconcile"}, Displace(to), Free(to),
         UNCHANGED <<memory, edits, deleted>>
  PROVE  /\ HooksTyped' /\ AliveKept' /\ LinksAgree' /\ linked' = {}
         /\ \A n \in Name : file'[n] = IF n = "hooks" THEN NoFile ELSE IF n = to THEN file["hooks"] ELSE file[n]
<1>1. file \in [Name -> Docs] /\ "hooks" \in Name /\ to \in Name /\ NoFile \in Docs
  BY NoFileIs DEF HooksInv, HooksTyped, Name
<1>2. /\ \A n \in Name : file'[n] = IF n = "hooks" THEN NoFile ELSE IF n = to THEN file["hooks"] ELSE file[n]
      /\ file' \in [Name -> Docs] /\ linked' = {}
  BY <1>1 DEF Displace
<1>3. HooksTyped'
  BY <1>2 DEF HooksInv, HooksTyped
<1>4. LinksAgree'
  BY <1>2 DEF LinksAgree
<1>5. AliveKept'
  <2>1. In(file[to]) = {} /\ Alive' = Alive
    BY NoFileIs DEF Free, Alive
  <2>2. /\ file'[to] = file["hooks"]
        /\ to = "recovery" => file'["reconcile"] = file["reconcile"]
        /\ to = "reconcile" => file'["recovery"] = file["recovery"]
    BY <1>2 DEF Name
  <2> QED  BY <2>1, <2>2 DEF HooksInv, AliveKept
<1> QED  BY <1>2, <1>3, <1>4, <1>5

(* The steps of a recovery keep the invariant. *)
LEMMA RecoveryInv ==
  ASSUME HooksInv,
         \/ Start \/ RemoveStage \/ Restore \/ Restored \/ DisplaceConcurrent \/ Displaced
         \/ GiveBack \/ PublishRecovered \/ Published \/ CheckReconcile \/ DropReconcile
         \/ CheckRecovery \/ DropRecovery
  PROVE  HooksInv'
<1> USE DEF HooksInv
<1>0. /\ \A n \in Name : file[n] \in Docs
      /\ \A n \in Name \cup {"seen"} : memory[n] \in Docs
      /\ "hooks" \in Name /\ "recovery" \in Name /\ "reconcile" \in Name /\ "stage" \in Name
      /\ memory \in [Name \cup {"seen"} -> Docs] /\ linked \subseteq Name \ {"hooks"}
  BY HooksTypes DEF HooksTyped
<1>1. CASE Start
  BY <1>1, LookKeeps DEF Start, Look, To, StagePrivate, NamesReady, MemoryTrue, Replaced
<1>2. CASE RemoveStage
  <2>1. Unlink({"stage"}) /\ To("classify") /\ UNCHANGED memory
    BY <1>2 DEF RemoveStage
  <2>2. HooksTyped' /\ AliveKept' /\ LinksAgree' /\ linked' = linked \ {"stage"}
    BY <1>0, <2>1, UnlinkKeeps DEF To
  <2> QED  BY <2>1, <2>2 DEF To, StagePrivate, NamesReady, MemoryTrue, Replaced
<1>3. CASE Restore
  <2>1. CASE ~Free("hooks")
    BY <1>3, <2>1, StopInv DEF Restore
  <2>2. CASE Free("hooks")
    <3>1. Publish(Journal) /\ To("restored") /\ UNCHANGED memory /\ step = "restore"
      BY <1>3, <2>2 DEF Restore
    <3>2. Journal \in {"recovery", "reconcile"} /\ file[Journal] # NoFile
      BY <3>1 DEF Journal, NamesReady
    <3>3. HooksTyped' /\ AliveKept' /\ LinksAgree' /\ linked' = {Journal}
      BY <1>0, <2>2, <3>1, <3>2, PublishKeeps DEF To
    <3> QED  BY <3>1, <3>2, <3>3 DEF To, StagePrivate, NamesReady, MemoryTrue, Replaced
  <2> QED  BY <2>1, <2>2
<1>4. CASE Restored
  <2>1. CASE file["hooks"] # memory[Journal]
    BY <1>4, <2>1, StopInv DEF Restored
  <2>2. CASE file["hooks"] = memory[Journal]
    <3>1. /\ step = "restored" /\ To(IF Journal = "recovery" THEN "check recovery" ELSE "check reconcile")
          /\ memory' = [memory EXCEPT !["hooks"] = file["hooks"]]
          /\ UNCHANGED <<file, linked>>
      BY <1>4, <2>2 DEF Restored
    <3>2. /\ memory' \in [Name \cup {"seen"} -> Docs] /\ memory'["hooks"] = memory[Journal]
          /\ memory'["recovery"] = memory["recovery"] /\ memory'["reconcile"] = memory["reconcile"]
      BY <1>0, <2>2, <3>1
    <3>3. HooksTyped' /\ AliveKept' /\ LinksAgree' /\ StagePrivate'
      BY <3>1, <3>2 DEF To, HooksTyped, AliveKept, Alive, LinksAgree, StagePrivate
    <3>4. MemoryTrue'
      <4>1. CASE memory["recovery"] # NoFile
        BY <3>1, <3>2, <4>1 DEF To, MemoryTrue, Journal
      <4>2. CASE memory["recovery"] = NoFile
        BY <3>1, <3>2, <4>2, NoFileIs DEF To, MemoryTrue, Journal
      <4> QED  BY <4>1, <4>2
    <3>5. NamesReady' /\ Replaced'
      BY <3>1 DEF To, NamesReady, Replaced
    <3> QED  BY <3>3, <3>4, <3>5
  <2> QED  BY <2>1, <2>2
<1>5. CASE DisplaceConcurrent
  <2>1. CASE file["hooks"] = NoFile \/ file["recovery"] # memory["recovery"]
    BY <1>5, <2>1, StopInv DEF DisplaceConcurrent
  <2>2. CASE ~(file["hooks"] = NoFile \/ file["recovery"] # memory["recovery"])
    <3>1. Displace("reconcile") /\ To("displaced") /\ UNCHANGED memory /\ step = "displace"
      BY <1>5, <2>2 DEF DisplaceConcurrent
    <3>2. Free("reconcile")
      BY <3>1 DEF NamesReady, Free
    <3>3. /\ HooksTyped' /\ AliveKept' /\ LinksAgree' /\ linked' = {}
          /\ file'["reconcile"] = file["hooks"] /\ file'["stage"] = file["stage"]
      BY <1>0, <3>1, <3>2, DisplaceKeeps DEF To
    <3> QED  BY <2>2, <3>1, <3>3 DEF To, StagePrivate, NamesReady, MemoryTrue, Replaced
  <2> QED  BY <2>1, <2>2
<1>6. CASE Displaced
  <2>1. CASE file["reconcile"] # memory["hooks"]
    <3>1. Look("give back") /\ step = "displaced"
      BY <1>6, <2>1 DEF Displaced
    <3> QED  BY <3>1, LookKeeps DEF Look, To, StagePrivate, NamesReady, MemoryTrue, Replaced
  <2>2. CASE file["reconcile"] = memory["hooks"]
    <3>1. /\ To("publish") /\ step = "displaced"
          /\ memory' = [memory EXCEPT !["reconcile"] = file["reconcile"]]
          /\ UNCHANGED <<file, linked>>
      BY <1>6, <2>2 DEF Displaced
    <3>2. /\ memory' \in [Name \cup {"seen"} -> Docs] /\ memory'["reconcile"] = memory["hooks"]
          /\ memory'["recovery"] = memory["recovery"] /\ memory'["stage"] = memory["stage"]
      BY <1>0, <2>2, <3>1
    <3>3. HooksTyped' /\ AliveKept' /\ LinksAgree' /\ StagePrivate'
      BY <3>1, <3>2 DEF To, HooksTyped, AliveKept, Alive, LinksAgree, StagePrivate
    <3> QED  BY <3>1, <3>2, <3>3 DEF To, NamesReady, MemoryTrue, Replaced
  <2> QED  BY <2>1, <2>2
<1>7. CASE GiveBack
  <2>0. step = "give back"
    BY <1>7 DEF GiveBack
  <2>1. CASE linked = {"reconcile"}
    <3>1. Unlink({"reconcile", "stage"}) /\ To("idle") /\ memory' = NoMemory
      BY <1>7, <2>1 DEF GiveBack
    <3>2. file["reconcile"] = file["hooks"]
      BY <2>1 DEF LinksAgree
    <3>3. HooksTyped' /\ AliveKept' /\ LinksAgree'
      BY <3>1, <3>2, UnlinkKeeps, HooksTypes DEF To
    <3> QED  BY <3>1, <3>3 DEF To, StagePrivate, NamesReady, MemoryTrue, Replaced
  <2>2. CASE linked # {"reconcile"} /\ Free("hooks")
    <3>1. Publish("reconcile") /\ To("give back") /\ UNCHANGED memory
      BY <1>7, <2>2 DEF GiveBack
    <3>2. /\ HooksTyped' /\ AliveKept' /\ LinksAgree' /\ linked' = {"reconcile"}
          /\ file'["reconcile"] = file["reconcile"]
      BY <1>0, <2>0, <2>2, <3>1, PublishKeeps DEF To, NamesReady
    <3> QED  BY <2>0, <3>1, <3>2 DEF To, StagePrivate, NamesReady, MemoryTrue, Replaced
  <2>3. CASE linked # {"reconcile"} /\ ~Free("hooks")
    BY <1>7, <2>3, StopInv DEF GiveBack
  <2> QED  BY <2>1, <2>2, <2>3
<1>8. CASE PublishRecovered
  <2>1. CASE ~Free("hooks")
    BY <1>8, <2>1, StopInv DEF PublishRecovered
  <2>2. CASE Free("hooks")
    <3>1. Publish("stage") /\ To("published") /\ UNCHANGED memory /\ step = "publish"
      BY <1>8, <2>2 DEF PublishRecovered
    <3>2. HooksTyped' /\ AliveKept' /\ LinksAgree'
      BY <1>0, <2>2, <3>1, PublishKeeps DEF To, StagePrivate
    <3> QED  BY <3>1, <3>2 DEF To, StagePrivate, NamesReady, MemoryTrue, Replaced
  <2> QED  BY <2>1, <2>2
<1>9. CASE Published
  <2>1. CASE file["hooks"] # memory["stage"]
    BY <1>9, <2>1, StopInv DEF Published
  <2>2. CASE file["hooks"] = memory["stage"]
    <3>1. /\ step = "published" /\ To("check reconcile") /\ Unlink({"stage"})
          /\ memory' = [memory EXCEPT !["hooks"] = file["hooks"]]
      BY <1>9, <2>2 DEF Published
    <3>2. /\ memory' \in [Name \cup {"seen"} -> Docs] /\ memory'["hooks"] = memory["stage"]
          /\ memory'["recovery"] = memory["recovery"] /\ memory'["reconcile"] = memory["reconcile"]
      BY <1>0, <2>2, <3>1
    <3>3. HooksTyped' /\ AliveKept' /\ LinksAgree' /\ linked' = linked \ {"stage"}
      BY <3>1, <3>2, UnlinkKeeps DEF To
    <3> QED  BY <3>1, <3>2, <3>3 DEF To, StagePrivate, NamesReady, MemoryTrue, Replaced
  <2> QED  BY <2>1, <2>2
<1>10. CASE CheckReconcile
  <2>1. CASE file["hooks"] = memory["hooks"] /\ file["reconcile"] = memory["reconcile"]
    <3>1. Look("drop reconcile") /\ step = "check reconcile"
      BY <1>10, <2>1 DEF CheckReconcile, Check
    <3>2. In(file["reconcile"]) \subseteq In(file["hooks"])
      BY <2>1, <3>1 DEF MemoryTrue
    <3> QED  BY <3>1, <3>2, LookKeeps DEF Look, To, Alive, StagePrivate, NamesReady, MemoryTrue, Replaced
  <2>2. CASE ~(file["hooks"] = memory["hooks"] /\ file["reconcile"] = memory["reconcile"])
    BY <1>10, <2>2, StopInv DEF CheckReconcile, Check
  <2> QED  BY <2>1, <2>2
<1>11. CASE DropReconcile
  <2>1. /\ step = "drop reconcile" /\ Unlink({"reconcile"}) /\ UNCHANGED memory
        /\ To(IF memory["recovery"] # NoFile THEN "check recovery" ELSE "read")
    BY <1>11 DEF DropReconcile
  <2>2. HooksTyped' /\ AliveKept' /\ LinksAgree' /\ linked' = linked \ {"reconcile"}
    BY <1>0, <2>1, UnlinkKeeps DEF To, Replaced
  <2> QED  BY <2>1, <2>2 DEF To, StagePrivate, NamesReady, MemoryTrue, Replaced
<1>12. CASE CheckRecovery
  <2>1. CASE file["hooks"] = memory["hooks"] /\ file["recovery"] = memory["recovery"]
    <3>1. Look("drop recovery") /\ step = "check recovery"
      BY <1>12, <2>1 DEF CheckRecovery, Check
    <3>2. In(file["recovery"]) \subseteq In(file["hooks"])
      BY <2>1, <3>1 DEF MemoryTrue
    <3> QED  BY <3>1, <3>2, LookKeeps DEF Look, To, Alive, StagePrivate, NamesReady, MemoryTrue, Replaced
  <2>2. CASE ~(file["hooks"] = memory["hooks"] /\ file["recovery"] = memory["recovery"])
    BY <1>12, <2>2, StopInv DEF CheckRecovery, Check
  <2> QED  BY <2>1, <2>2
<1>13. CASE DropRecovery
  <2>1. step = "drop recovery" /\ Unlink({"recovery"}) /\ UNCHANGED memory /\ To("read")
    BY <1>13 DEF DropRecovery
  <2>2. HooksTyped' /\ AliveKept' /\ LinksAgree' /\ linked' = linked \ {"recovery"}
    BY <1>0, <2>1, UnlinkKeeps DEF To, Replaced
  <2> QED  BY <2>1, <2>2 DEF To, StagePrivate, NamesReady, MemoryTrue, Replaced
<1> QED  BY <1>1, <1>2, <1>3, <1>4, <1>5, <1>6, <1>7, <1>8, <1>9, <1>10, <1>11, <1>12, <1>13

(* What a recovery does first, by the names that exist. *)
LEMMA RecoveryIs ==
  ASSUME NEW c \in BOOLEAN, NEW r \in BOOLEAN, NEW q \in BOOLEAN
  PROVE  /\ Recovery(c, r, q) \in {"read", "restore", "publish", "displace", "check reconcile"}
         /\ Recovery(c, r, q) = "restore" => ~c /\ (r \/ q)
         /\ Recovery(c, r, q) = "publish" => ~c /\ r /\ q
         /\ Recovery(c, r, q) = "displace" => c /\ r /\ ~q
         /\ Recovery(c, r, q) = "check reconcile" => c /\ q
<1>1. CASE ~r /\ ~q
  BY <1>1 DEF Recovery
<1>2. CASE ~c /\ (r # q)
  BY <1>2 DEF Recovery
<1>3. CASE ~c /\ r /\ q
  BY <1>3 DEF Recovery
<1>4. CASE c /\ r /\ ~q
  BY <1>4 DEF Recovery
<1>5. CASE c /\ q
  BY <1>5 DEF Recovery
<1> QED  BY <1>1, <1>2, <1>3, <1>4, <1>5

(* The decision of a recovery keeps the invariant. *)
LEMMA ClassifyInv ==
  ASSUME HooksInv, Classify
  PROVE  HooksInv'
<1> USE DEF HooksInv
<1>0. /\ \A n \in Name : file[n] \in Docs
      /\ "hooks" \in Name /\ "recovery" \in Name /\ "reconcile" \in Name /\ "stage" \in Name
      /\ linked \subseteq Name \ {"hooks"} /\ NoFile \in Docs /\ step = "classify"
      /\ file \in [Name -> Docs] /\ NoMemory \in [Name \cup {"seen"} -> Docs]
  BY HooksTypes, NoFileIs DEF HooksTyped, Classify
<1> DEFINE c == file["hooks"]
           r == file["recovery"]
           q == file["reconcile"]
           next == Recovery(c # NoFile, r # NoFile, q # NoFile)
           concurrent == IF q # NoFile THEN q ELSE c
           keep == [NoMemory EXCEPT !["hooks"] = c, !["recovery"] = r, !["reconcile"] = q]
           merged == Merged(r, concurrent)
<1>1. /\ next = "restore" => c = NoFile /\ (r # NoFile \/ q # NoFile)
      /\ next = "publish" => c = NoFile /\ r # NoFile /\ q # NoFile
      /\ next = "displace" => c # NoFile /\ r # NoFile /\ q = NoFile
      /\ next = "check reconcile" => c # NoFile /\ q # NoFile
      /\ next \in {"read", "restore", "publish", "displace", "check reconcile"}
  BY RecoveryIs
<1>2. /\ keep \in [Name \cup {"seen"} -> Docs] /\ keep["hooks"] = c /\ keep["recovery"] = r
      /\ keep["reconcile"] = q
  BY <1>0 DEF Name
<1>3. c \in Docs /\ r \in Docs /\ q \in Docs
  BY <1>0
<1>4. \/ next = "displace" /\ c = r /\ To("check recovery") /\ memory' = keep /\ UNCHANGED <<file, linked>>
      \/ Stop
      \/ /\ next \in {"publish", "displace"} /\ c # r
         /\ memory' = [keep EXCEPT !["stage"] = merged]
         /\ file' = [file EXCEPT !["stage"] = merged]
         /\ To(next) /\ UNCHANGED linked
      \/ /\ next \in {"read", "restore", "check reconcile"}
         /\ next = "check reconcile" => (c = q /\ r = NoFile) \/ Subsumes(c, r, q)
         /\ To(next) /\ memory' = keep /\ UNCHANGED <<file, linked>>
  BY DEF Classify
<1> HIDE DEF keep, next
<1>5. CASE next = "displace" /\ c = r /\ To("check recovery") /\ memory' = keep /\ UNCHANGED <<file, linked>>
  <2>1. HooksTyped' /\ AliveKept' /\ LinksAgree' /\ StagePrivate'
    BY <1>0, <1>2, <1>5 DEF To, HooksTyped, AliveKept, Alive, LinksAgree, StagePrivate
  <2>2. memory'["recovery"] = memory'["hooks"]
    BY <1>2, <1>5
  <2> QED  BY <1>5, <2>1, <2>2 DEF To, NamesReady, MemoryTrue, Replaced
<1>6. CASE Stop
  BY <1>6, StopInv
<1>7. CASE /\ next \in {"publish", "displace"} /\ c # r
           /\ memory' = [keep EXCEPT !["stage"] = merged]
           /\ file' = [file EXCEPT !["stage"] = merged]
           /\ To(next) /\ UNCHANGED linked
  <2>1. r \in Seq(Entries) /\ concurrent \in Seq(Entries) /\ In(r) = Range(r) /\ In(concurrent) = Range(concurrent)
    <3>1. r # NoFile /\ concurrent # NoFile /\ concurrent \in Docs
      BY <1>1, <1>3, <1>7
    <3> QED  BY <1>3, <3>1, InIs DEF Docs
  <2>2. /\ merged \in Seq(Entries) /\ merged \in Docs /\ merged # NoFile
        /\ In(merged) = In(r) \cup In(concurrent)
    <3>1. merged \in Seq(Entries) /\ Range(merged) = Range(r) \cup Range(concurrent)
      BY <2>1, MergedHolds
    <3>2. merged \in Docs /\ merged # NoFile
      BY <3>1, NoFileIs DEF Docs
    <3> QED  BY <2>1, <3>1, <3>2, InIs
  <2> HIDE DEF merged
  <2>3. /\ memory' \in [Name \cup {"seen"} -> Docs] /\ memory'["hooks"] = c /\ memory'["recovery"] = r
        /\ memory'["reconcile"] = q /\ memory'["stage"] = merged
    BY <1>2, <1>7, <2>2 DEF Name
  <2>4. /\ file' \in [Name -> Docs] /\ file'["hooks"] = c /\ file'["recovery"] = r
        /\ file'["reconcile"] = q /\ file'["stage"] = merged
    BY <1>0, <1>7, <2>2
  <2>5. HooksTyped' /\ AliveKept' /\ StagePrivate'
    BY <1>0, <1>7, <2>2, <2>3, <2>4 DEF To, HooksTyped, AliveKept, Alive, StagePrivate
  <2>6. LinksAgree'
    <3>1. "stage" \notin linked
      BY <1>0 DEF StagePrivate
    <3>2. \A n \in linked : file'[n] = file[n] /\ linked' = linked
      BY <1>0, <1>7, <3>1
    <3> QED  BY <2>4, <3>2, <1>7 DEF LinksAgree
  <2>7. CASE next = "publish"
    <3>1. concurrent = q
      BY <1>1, <2>7
    <3> QED  BY <1>7, <2>2, <2>3, <2>5, <2>6, <2>7, <3>1 DEF To, NamesReady, MemoryTrue, Replaced
  <2>8. CASE next = "displace"
    <3>1. concurrent = c /\ q = NoFile /\ c # NoFile
      BY <1>1, <2>8
    <3> QED  BY <1>7, <2>2, <2>3, <2>4, <2>5, <2>6, <2>8, <3>1 DEF To, NamesReady, MemoryTrue, Replaced
  <2> QED  BY <1>7, <2>7, <2>8
<1>8. CASE /\ next \in {"read", "restore", "check reconcile"}
           /\ next = "check reconcile" => (c = q /\ r = NoFile) \/ Subsumes(c, r, q)
           /\ To(next) /\ memory' = keep /\ UNCHANGED <<file, linked>>
  <2>1. HooksTyped' /\ AliveKept' /\ LinksAgree' /\ StagePrivate'
    BY <1>0, <1>2, <1>8 DEF To, HooksTyped, AliveKept, Alive, LinksAgree, StagePrivate
  <2>2. NamesReady'
    <3>1. CASE next = "restore"
      <4>1. memory'["recovery"] = r /\ file' = file /\ (r # NoFile \/ q # NoFile)
        BY <1>1, <1>2, <1>8, <3>1
      <4>2. file'[Journal'] # NoFile
        BY <4>1 DEF Journal
      <4> QED  BY <1>8, <3>1, <4>2 DEF To, NamesReady
    <3>2. CASE next # "restore"
      BY <1>8, <3>2 DEF To, NamesReady
    <3> QED  BY <3>1, <3>2
  <2>3. MemoryTrue'
    <3>1. CASE next = "check reconcile"
      <4>1. In(r) \cup In(q) \subseteq In(c)
        <5>1. CASE c = q /\ r = NoFile
          BY <5>1, NoFileIs
        <5>2. CASE Subsumes(c, r, q)
          <6>1. c \in Seq(Entries)
            BY <1>1, <1>3, <3>1 DEF Docs
          <6> QED  BY <1>3, <5>2, <6>1, SubsumesHolds
        <5> QED  BY <1>8, <3>1, <5>1, <5>2
      <4>2. memory'["hooks"] = c /\ memory'["recovery"] = r /\ memory'["reconcile"] = q /\ step' = "check reconcile"
        BY <1>2, <1>8, <3>1 DEF To
      <4> QED  BY <4>1, <4>2 DEF MemoryTrue
    <3>2. CASE next # "check reconcile"
      BY <1>8, <3>2 DEF To, MemoryTrue
    <3> QED  BY <3>1, <3>2
  <2> QED  BY <1>8, <2>1, <2>2, <2>3 DEF To, Replaced
<1> QED  BY <1>4, <1>5, <1>6, <1>7, <1>8

(* The steps of a mutation keep the invariant. *)
LEMMA MutationInv ==
  ASSUME HooksInv,
         \/ Read \/ Swap \/ Rename \/ Renamed \/ PutBack \/ Link \/ Linked \/ Compare \/ DropOld
  PROVE  HooksInv'
<1> USE DEF HooksInv
<1>0. /\ \A n \in Name : file[n] \in Docs
      /\ \A n \in Name \cup {"seen"} : memory[n] \in Docs
      /\ "hooks" \in Name /\ "recovery" \in Name /\ "reconcile" \in Name /\ "stage" \in Name
      /\ file \in [Name -> Docs] /\ memory \in [Name \cup {"seen"} -> Docs]
      /\ linked \subseteq Name \ {"hooks"} /\ NoMemory \in [Name \cup {"seen"} -> Docs]
  BY HooksTypes DEF HooksTyped
<1>1. CASE Read
  <2> DEFINE seen == file["hooks"]
             doc == Doc(seen)
  <2>1. CASE Desired(doc) = doc
    BY <1>1, <2>1, StopInv DEF Read
  <2>2. CASE Desired(doc) # doc
    <3>1. /\ step = "read" /\ file' = [file EXCEPT !["stage"] = Desired(doc)]
          /\ memory' = [NoMemory EXCEPT !["seen"] = seen]
          /\ To("swap") /\ UNCHANGED linked
      BY <1>1, <2>2 DEF Read
    <3>2. doc \in Seq(Entries) /\ In(seen) = Range(doc)
      BY <1>0, InIs DEF In
    <3>3. /\ Desired(doc) \in Seq(Entries) /\ Range(doc) \ {Own} \subseteq Range(Desired(doc))
          /\ Desired(doc) \in Docs /\ Desired(doc) # NoFile
      BY <3>2, DesiredHolds, NoFileIs DEF Docs
    <3> HIDE DEF doc
    <3>4. /\ file' \in [Name -> Docs] /\ file'["hooks"] = seen /\ file'["recovery"] = file["recovery"]
          /\ file'["reconcile"] = file["reconcile"] /\ file'["stage"] = Desired(doc)
      BY <1>0, <3>1, <3>3
    <3>5. memory' \in [Name \cup {"seen"} -> Docs] /\ memory'["seen"] = seen
      BY <1>0, <3>1
    <3>6. HooksTyped' /\ AliveKept' /\ StagePrivate'
      BY <1>0, <3>1, <3>3, <3>4, <3>5 DEF To, HooksTyped, AliveKept, Alive, StagePrivate
    <3>7. LinksAgree'
      <4>1. "stage" \notin linked
        BY <3>1 DEF StagePrivate
      <4>2. \A n \in linked : file'[n] = file[n] /\ linked' = linked
        BY <1>0, <3>1, <4>1
      <4> QED  BY <3>1, <3>4, <4>2 DEF LinksAgree
    <3>8. (In(memory["seen"]) \ {Own} \subseteq In(file["stage"]))'
      BY <3>2, <3>3, <3>4, <3>5, InIs
    <3> QED  BY <3>1, <3>6, <3>7, <3>8 DEF To, NamesReady, MemoryTrue, Replaced
  <2> QED  BY <2>1, <2>2
<1>2. CASE Swap
  <2>1. CASE file["hooks"] # memory["seen"]
    BY <1>2, <2>1, FailInv DEF Swap
  <2>2. CASE file["hooks"] = memory["seen"] /\ memory["seen"] = NoFile
    <3>1. Look("link") /\ step = "swap"
      BY <1>2, <2>2 DEF Swap
    <3> QED  BY <3>1, LookKeeps DEF Look, To, StagePrivate, NamesReady, MemoryTrue, Replaced
  <2>3. CASE file["hooks"] = memory["seen"] /\ memory["seen"] # NoFile /\ ~Free("recovery")
    BY <1>2, <2>3, StopInv DEF Swap
  <2>4. CASE file["hooks"] = memory["seen"] /\ memory["seen"] # NoFile /\ Free("recovery")
    <3>1. Look("rename") /\ step = "swap"
      BY <1>2, <2>4 DEF Swap
    <3> QED  BY <2>4, <3>1, LookKeeps DEF Look, To, Free, StagePrivate, NamesReady, MemoryTrue, Replaced
  <2> QED  BY <2>1, <2>2, <2>3, <2>4
<1>3. CASE Rename
  <2>1. CASE Free("hooks")
    BY <1>3, <2>1, FailInv DEF Rename
  <2>2. CASE ~Free("hooks")
    <3>1. Displace("recovery") /\ To("renamed") /\ UNCHANGED memory /\ step = "rename"
      BY <1>3, <2>2 DEF Rename
    <3>2. Free("recovery")
      BY <3>1 DEF NamesReady, Free
    <3>3. /\ HooksTyped' /\ AliveKept' /\ LinksAgree' /\ linked' = {}
          /\ file'["recovery"] = file["hooks"] /\ file'["stage"] = file["stage"]
      BY <1>0, <3>1, <3>2, DisplaceKeeps DEF To
    <3> QED  BY <2>2, <3>1, <3>3 DEF To, Free, StagePrivate, NamesReady, MemoryTrue, Replaced
  <2> QED  BY <2>1, <2>2
<1>4. CASE Renamed
  <2>1. step = "renamed" /\ Look(IF file["recovery"] = memory["seen"] THEN "link" ELSE "put back")
    BY <1>4 DEF Renamed
  <2>2. HooksTyped' /\ AliveKept' /\ LinksAgree'
    BY <2>1, LookKeeps
  <2> QED  BY <2>1, <2>2 DEF Look, To, StagePrivate, NamesReady, MemoryTrue, Replaced
<1>5. CASE PutBack
  <2>0. step = "put back"
    BY <1>5 DEF PutBack
  <2>1. CASE linked = {"recovery"}
    <3>1. /\ Unlink({"recovery", "stage"}) /\ memory' = NoMemory /\ step' \in {"idle", "recover"}
          /\ UNCHANGED <<edits, deleted>>
      BY <1>5, <2>1 DEF PutBack
    <3>2. file["recovery"] = file["hooks"]
      BY <2>1 DEF LinksAgree
    <3>3. HooksTyped' /\ AliveKept' /\ LinksAgree'
      BY <1>0, <3>1, <3>2, UnlinkKeeps
    <3> QED  BY <3>1, <3>3 DEF StagePrivate, NamesReady, MemoryTrue, Replaced
  <2>2. CASE linked # {"recovery"} /\ Free("hooks")
    <3>1. Publish("recovery") /\ To("put back") /\ UNCHANGED memory
      BY <1>5, <2>2 DEF PutBack
    <3>2. /\ HooksTyped' /\ AliveKept' /\ LinksAgree' /\ linked' = {"recovery"}
          /\ file'["recovery"] = file["recovery"]
      BY <1>0, <2>0, <2>2, <3>1, PublishKeeps DEF To, NamesReady
    <3> QED  BY <2>0, <3>1, <3>2 DEF To, StagePrivate, NamesReady, MemoryTrue, Replaced
  <2>3. CASE linked # {"recovery"} /\ ~Free("hooks")
    BY <1>5, <2>3, StopInv DEF PutBack
  <2> QED  BY <2>1, <2>2, <2>3
<1>6. CASE Link
  <2>1. CASE ~Free("hooks")
    BY <1>6, <2>1, FailInv DEF Link
  <2>2. CASE Free("hooks")
    <3>1. Publish("stage") /\ To("linked") /\ UNCHANGED memory /\ step = "link"
      BY <1>6, <2>2 DEF Link
    <3>2. /\ HooksTyped' /\ AliveKept' /\ LinksAgree' /\ file'["hooks"] = file["stage"]
      BY <1>0, <2>2, <3>1, PublishKeeps DEF To, StagePrivate
    <3>3. (Alive \cap In(memory["seen"]) \subseteq In(file["hooks"]))'
      <4>1. Own \notin 1 .. MaxEdits /\ Alive' \subseteq 1 .. MaxEdits
        <5>1. edits' \in 0 .. MaxEdits /\ MaxEdits \in Nat /\ Own \notin 1 .. MaxEdits
          BY <3>2, HooksFileAssumption DEF HooksTyped
        <5> QED  BY <5>1 DEF Alive
      <4> QED  BY <3>1, <3>2, <4>1 DEF To, Replaced
    <3> QED  BY <3>1, <3>2, <3>3 DEF To, StagePrivate, NamesReady, MemoryTrue, Replaced
  <2> QED  BY <2>1, <2>2
<1>7. CASE Linked
  <2>1. /\ step = "linked" /\ Unlink({"stage"}) /\ UNCHANGED memory
        /\ To(IF memory["seen"] = NoFile THEN "idle" ELSE "compare")
    BY <1>7 DEF Linked
  <2>2. /\ HooksTyped' /\ AliveKept' /\ LinksAgree' /\ file'["hooks"] = file["hooks"]
    BY <1>0, <2>1, UnlinkKeeps DEF To
  <2>3. Alive' = Alive
    BY <2>1 DEF To, Alive
  <2> QED  BY <2>1, <2>2, <2>3 DEF To, StagePrivate, NamesReady, MemoryTrue, Replaced
<1>8. CASE Compare
  <2>1. CASE file["recovery"] = memory["seen"]
    <3>1. Look("drop old") /\ step = "compare"
      BY <1>8, <2>1 DEF Compare
    <3>2. HooksTyped' /\ AliveKept' /\ LinksAgree' /\ Alive' = Alive
      BY <3>1, LookKeeps DEF Look, To, Alive
    <3> QED  BY <2>1, <3>1, <3>2 DEF Look, To, StagePrivate, NamesReady, MemoryTrue, Replaced
  <2>2. CASE file["recovery"] # memory["seen"]
    BY <1>8, <2>2, StopInv DEF Compare
  <2> QED  BY <2>1, <2>2
<1>9. CASE DropOld
  <2>1. step = "drop old" /\ Unlink({"recovery"}) /\ memory' = NoMemory /\ To("idle")
    BY <1>9 DEF DropOld
  <2>2. HooksTyped' /\ AliveKept' /\ LinksAgree'
    BY <1>0, <2>1, UnlinkKeeps DEF To, Replaced
  <2> QED  BY <2>1, <2>2 DEF To, StagePrivate, NamesReady, MemoryTrue, Replaced
<1> QED  BY <1>1, <1>2, <1>3, <1>4, <1>5, <1>6, <1>7, <1>8, <1>9

(* Every step keeps the invariant, and a crash forgets what was read.      *)
LEMMA HooksStep ==
  ASSUME HooksInv, HooksNext
  PROVE  HooksInv'
<1>1. CASE HooksCrash
  <2>1. step' = "idle" /\ memory' = NoMemory /\ UNCHANGED <<file, linked, edits, deleted>>
    BY <1>1 DEF HooksCrash
  <2> QED  BY <2>1, HooksTypes DEF HooksInv, HooksTyped, AliveKept, Alive, LinksAgree, StagePrivate,
                                   NamesReady, MemoryTrue, Replaced
<1>2. CASE \E kind \in EditKinds : Edit(kind)
  BY <1>2, EditInv
<1>3. CASE Connector
  <2>1. \/ Start \/ RemoveStage \/ Restore \/ Restored \/ DisplaceConcurrent \/ Displaced
        \/ GiveBack \/ PublishRecovered \/ Published \/ CheckReconcile \/ DropReconcile
        \/ CheckRecovery \/ DropRecovery
        \/ Classify
        \/ Read \/ Swap \/ Rename \/ Renamed \/ PutBack \/ Link \/ Linked \/ Compare \/ DropOld
    BY <1>3, Zenon DEF Connector
  <2> QED  BY <2>1, RecoveryInv, ClassifyInv, MutationInv, Zenon
<1> QED  BY <1>1, <1>2, <1>3, Zenon DEF HooksNext

(* No step of another part of the system disturbs it. *)
LEMMA HooksStutter ==
  ASSUME HooksInv, UNCHANGED hooksVars
  PROVE  HooksInv'
BY DEF hooksVars, HooksInv, HooksTyped, AliveKept, Alive, LinksAgree, StagePrivate, NamesReady,
       MemoryTrue, Replaced, Journal

(* What is kept is foreign hooks. *)
LEMMA HooksInvKeeps ==
  ASSUME HooksInv
  PROVE  ForeignHooksKept
<1> SUFFICES ASSUME NEW e \in 1 .. edits, e \notin deleted PROVE Holding(e) # {}
  BY DEF ForeignHooksKept
<1>1. PICK n \in {"hooks", "recovery", "reconcile"} : e \in In(file[n])
  BY DEF HooksInv, AliveKept, Alive
<1>2. file[n] \in Docs
  BY HooksTypes DEF HooksInv, Name
<1>3. file[n] # NoFile /\ file[n] \in Seq(Entries) /\ e \in Range(file[n])
  BY <1>1, <1>2, NoFileIs, InIs DEF Docs
<1>4. Contains(file[n], e)
  BY <1>3, RangeIs DEF Contains
<1> QED  BY <1>3, <1>4 DEF Holding, Free

(* An entry that others wrote into Cursor's hooks.json and have not        *)
(* deleted is in that file or in one of its journals, at every step of a   *)
(* mutation, of a recovery and after crashes of either.                    *)
THEOREM ForeignKept == HooksSpec => []ForeignHooksKept
<1>1. HooksInit => HooksInv
  BY HooksInitInv
<1>2. HooksInv /\ [HooksNext]_hooksVars => HooksInv'
  BY HooksStep, HooksStutter
<1>3. HooksInv => ForeignHooksKept
  BY HooksInvKeeps
<1> QED  BY <1>1, <1>2, <1>3, PTL DEF HooksSpec

-----------------------------------------------------------------------------
(***************************************************************************)
(* The user's files in OpenCode's plugin directory (OpenCodePlugin).  A    *)
(* command plans its steps from what it reads, and the user goes on        *)
(* meanwhile.  PluginInv says of the steps that are still planned that each *)
(* file of the user's has a name which none of them takes away: what they  *)
(* unlink bears a name of the connector's making, or is verified first, or *)
(* comes back.                                                             *)
(***************************************************************************)

(* The user's files (OpenCodePlugin).  Paths, and the steps of a plan.     *)
Paths == {p \in Seq(Home \cup Nat \cup {"stage", "probe", "quarantine"}) : Len(p) >= 1}
Canon == {p \in Paths : Len(p) = 1}
Long(p) == Len(p) > 1
Numbered(p) == Long(p) => p[Len(p)] \in 1 .. used.names

FallStep == [act : {"release", "unlink", "restore", "fail"}, at : Paths]
PlanStep ==
  [act : {"retain", "create", "write", "unlink", "release", "restore", "remove", "gone", "fail"},
   at : Paths]
  \cup [act : {"link", "rename"}, at : Paths, to : Paths, otherwise : Seq(FallStep)]
  \cup [act : {"verify"}, at : Paths, to : Paths, file : Nat, was : Ours, otherwise : Seq(FallStep)]
  \cup [act : {"current"}, at : Paths, otherwise : Seq(FallStep)]
  \cup [act : {"drop"}, at : Paths, file : Nat]

(* What a step turns to when it cannot be done, and the paths it is about: *)
(* those that a restore, here or there, brings back, that an unlink drops, *)
(* that must exist for it, that it makes, and that are gone after it.      *)
Falls(x) == IF x.act \in {"link", "rename", "verify", "current"} THEN x.otherwise ELSE <<>>
ActAt(act, t) == {p \in Paths : \E i \in 1 .. Len(t) : t[i].act = act /\ t[i].at = p}

BacksOf(x) == (IF x.act \in {"restore", "verify"} THEN {x.at} ELSE {}) \cup ActAt("restore", Falls(x))
UnlinksOf(x) == (IF x.act = "unlink" THEN {x.at} ELSE {}) \cup ActAt("unlink", Falls(x))
NeedsOf(x) == BacksOf(x) \cup (IF x.act \in {"link", "write"} THEN {x.at} ELSE {})
MadeBy(x) == IF x.act = "create" THEN {x.at} ELSE IF x.act = "rename" THEN {x.to} ELSE {}
LinkedBy(x) == IF x.act = "link" THEN {x.to} ELSE {}
GoneBy(x) == IF x.act \in {"unlink", "restore", "rename"} THEN {x.at} ELSE {}
VerifiedBy(x) == IF x.act = "verify" THEN {x.at} ELSE {}

(* A path moved aside can be restored beside its own. *)
BackOK(a) == Long(a) /\ Base(a) \in Paths /\ Base(a)[1] = a[1] /\ Numbered(Base(a))

(* A step by itself, *)
Single(x) ==
  /\ x \in PlanStep
  /\ \A p \in UnlinksOf(x) : Long(p)
  /\ \A a \in BacksOf(x) : BackOK(a)
  /\ x.act \in {"link", "create", "write"} => Long(x.at)
  /\ x.act = "create" => Numbered(x.at)
  /\ x.act \in {"link", "rename"} => x.to[1] = x.at[1] /\ Numbered(x.to)
  /\ x.act = "rename" => Long(x.to)
  /\ x.act = "verify" => x.at \notin ActAt("unlink", x.otherwise) /\ ActAt("restore", x.otherwise) = {}
  /\ LET f == Falls(x)
     IN  \A i, j \in 1 .. Len(f) : i < j => GoneBy(f[i]) \cap NeedsOf(f[j]) = {}

(* any two steps of a plan, *)
Apart(x, y) == \A a \in BacksOf(x) : Base(a) \notin UnlinksOf(y) \cup BacksOf(y)

(* and an earlier and a later one. *)
Before(x, y) ==
  /\ GoneBy(x) \cap NeedsOf(y) = {}
  /\ MadeBy(y) \cap (MadeBy(x) \cup LinkedBy(x) \cup VerifiedBy(x)) = {}
  /\ x.act = "restore" => MadeBy(y) = {} /\ VerifiedBy(y) = {}
  /\ VerifiedBy(y) \cap UnlinksOf(x) = {}
  /\ x.act \in {"remove", "drop"} => y.act = "release"
  /\ y.act # "drop"
  /\ y.act = "write" => x.act \in {"retain", "create"}

Ordered(t) ==
  /\ \A i \in 1 .. Len(t) : Single(t[i])
  /\ \A i, j \in 1 .. Len(t) : Apart(t[i], t[j]) /\ (i < j => Before(t[i], t[j]))
  /\ \A i \in 1 .. Len(t) : t[i].act = "rename" => t[i].to \in ActAt("verify", t)

(* The paths a plan goes on to unlink, those it will have verified first   *)
(* excepted.                                                               *)
Doomed(t) == (UNION {UnlinksOf(t[i]) : i \in 1 .. Len(t)}) \ ActAt("verify", t)

(* A file that the user has no name for and that is not the user's.        *)
Secluded(f) == f \notin users /\ \A q \in Names(f) : Long(q)

(* Dropping a second name leaves the user's file another one.              *)
DropOK(x) ==
  /\ x.file \in 1 .. Len(body)
  /\ Present(x.at) /\ dir[x.at] = x.file =>
       \/ \E q \in Names(x.file) : q # x.at /\ Long(q)
       \/ Long(x.at) /\ (x.file \in users => \E q \in Names(x.file) : q # x.at)

(* The directory as a plan expects it. *)
Ready(t) ==
  /\ \A n \in users : \E q \in Names(n) : q \notin Doomed(t)
  /\ \A i \in 1 .. Len(t) : \A p \in NeedsOf(t[i]) :
       Present(p) \/ \E k \in 1 .. i - 1 : p \in MadeBy(t[k])
  /\ \A i \in 1 .. Len(t) : \A p \in MadeBy(t[i]) : ~Present(p)
  /\ \A i \in 1 .. Len(t) : t[i].act = "write" =>
       (\E k \in 1 .. i - 1 : t[i].at \in MadeBy(t[k])) \/ Secluded(dir[t[i].at])
  /\ \A i \in 1 .. Len(t) : t[i].act = "drop" => DropOK(t[i])

StepsOK(t) == t \in Seq(PlanStep) /\ Ordered(t) /\ Ready(t)

(* The directory and what is saved. *)
DirOK ==
  /\ body \in Seq({"torn", "current", "older", "foreign"})
  /\ dir \in [DOMAIN dir -> 1 .. Len(body)]
  /\ \A p \in DOMAIN dir : p \in Paths /\ Numbered(p)
  /\ \A p, q \in DOMAIN dir : dir[p] = dir[q] => p[1] = q[1]
  /\ \A n \in users : n \in 1 .. Len(body) /\ body[n] = "foreign"
  /\ used \in [names : Nat, commands : Nat, edits : Nat, deaths : Nat]

Installs == {NoPath, <<>>} \cup Canon
SavedOK == journal \in Seq(Paths) /\ install \in Installs /\ home \in Home

Task ==
  [task : {"collect", "collectAll", "check", "configure", "reconcile", "prepare", "unconfigure",
           "identity", "forget"}, path : {NoPath}]
  \cup [task : {"clean"}, path : Paths]
  \cup [task : {"ensure"}, path : Canon, failing : {"stop", "retain", "undo"}]
  \cup [task : {"remove"}, path : Paths, failing : {"stop", "retain", "undo"}]
  \cup [task : {"record"}, path : Canon, was : Canon \cup {NoPath}]

JobOK ==
  /\ job = [cmd |-> job.cmd, tasks |-> job.tasks, now |-> job.now, steps |-> job.steps,
            failed |-> job.failed, context |-> job.context, committed |-> job.committed,
            peers |-> job.peers, fresh |-> job.fresh]
  /\ job.tasks \in Seq(Task)
  /\ job.cmd # "none" => job.context.install \in Installs

PluginInv == DirOK /\ SavedOK /\ JobOK /\ StepsOK(job.steps)

-----------------------------------------------------------------------------
(* The name beside a path. *)
LEMMA BesideIs ==
  ASSUME NEW path \in Paths, NEW kind \in {"stage", "probe", "quarantine"}, used.names \in Nat
  PROVE  LET b == Beside(path, kind)
         IN  /\ b \in Paths /\ Long(b) /\ Len(b) = Len(path) + 2 /\ b[1] = path[1]
             /\ b[Len(b)] = used.names + 1 /\ b[Len(path) + 1] = kind /\ Base(b) = path
<1> DEFINE U == Home \cup Nat \cup {"stage", "probe", "quarantine"}
           s == <<kind, used.names + 1>>
           b == path \o s
<1>1. path \in Seq(U) /\ Len(path) \in Nat /\ Len(path) >= 1
  BY DEF Paths
<1>2. s \in Seq(U) /\ Len(s) = 2 /\ s[1] = kind /\ s[2] = used.names + 1
  <2>1. kind \in U /\ used.names + 1 \in U
    OBVIOUS
  <2> HIDE DEF U
  <2> QED  BY <2>1
<1> HIDE DEF U, s
<1>3. b \in Seq(U) /\ Len(b) = Len(path) + 2 /\ (\A i \in 1 .. Len(path) : b[i] = path[i])
      /\ b[Len(path) + 1] = kind /\ b[Len(path) + 2] = used.names + 1
  <2>1. \A i \in 1 .. Len(path) + Len(s) : b[i] = IF i <= Len(path) THEN path[i] ELSE s[i - Len(path)]
    BY <1>1, <1>2, ConcatProperties
  <2>2. b \in Seq(U) /\ Len(b) = Len(path) + Len(s)
    BY <1>1, <1>2, ConcatProperties
  <2> QED  BY <1>1, <1>2, <2>1, <2>2
<1>4. Base(b) = path
  <2>1. Base(b) = SubSeq(b, 1, Len(path))
    BY <1>1, <1>3 DEF Base
  <2>2. SubSeq(b, 1, Len(path)) = SubSeq(path, 1, Len(path))
    BY <1>1, <1>2, <1>3
  <2> QED  BY <1>1, <2>1, <2>2
<1>5. Beside(path, kind) = b
  BY DEF Beside, s
<1> HIDE DEF b
<1> QED  BY <1>1, <1>3, <1>4, <1>5 DEF Paths, U, Long

(* Two lists are one behind the other. *)
LEMMA ConsIs ==
  ASSUME NEW U, NEW x \in U, NEW t \in Seq(U)
  PROVE  /\ <<x>> \o t \in Seq(U) /\ Len(<<x>> \o t) = Len(t) + 1 /\ (<<x>> \o t)[1] = x
         /\ \A i \in 1 .. Len(t) : (<<x>> \o t)[i + 1] = t[i]
         /\ \A i \in 1 .. Len(t) + 1 : i = 1 \/ (i - 1 \in 1 .. Len(t) /\ (<<x>> \o t)[i] = t[i - 1])
         /\ <<x>> \o t # <<>> /\ Head(<<x>> \o t) = x /\ Tail(<<x>> \o t) = t
<1>1. /\ <<x>> \o t \in Seq(U) /\ Len(<<x>> \o t) = Len(t) + 1 /\ (<<x>> \o t)[1] = x
      /\ \A i \in 1 .. Len(t) : (<<x>> \o t)[i + 1] = t[i]
  OBVIOUS
<1>2. \A i \in 1 .. Len(t) + 1 : i = 1 \/ (i - 1 \in 1 .. Len(t) /\ (<<x>> \o t)[i] = t[i - 1])
  <2> SUFFICES ASSUME NEW i \in 1 .. Len(t) + 1, i # 1
               PROVE  i - 1 \in 1 .. Len(t) /\ (<<x>> \o t)[i] = t[i - 1]
    OBVIOUS
  <2>1. i - 1 \in 1 .. Len(t) /\ (i - 1) + 1 = i
    OBVIOUS
  <2> QED  BY <1>1, <2>1
<1>3. <<x>> \o t # <<>> /\ Head(<<x>> \o t) = x /\ Tail(<<x>> \o t) = t
  OBVIOUS
<1> QED  BY <1>1, <1>2, <1>3

(* What follows the first of a list.                                       *)
LEMMA TailIs ==
  ASSUME NEW U, NEW t \in Seq(U), t # <<>>
  PROVE  /\ Tail(t) \in Seq(U) /\ Len(Tail(t)) = Len(t) - 1 /\ Head(t) = t[1] /\ Head(t) \in U
         /\ Len(t) \in Nat /\ Len(t) >= 1
         /\ \A i \in 1 .. Len(Tail(t)) : i + 1 \in 2 .. Len(t) /\ Tail(t)[i] = t[i + 1]
         /\ \A i \in 2 .. Len(t) : i - 1 \in 1 .. Len(Tail(t)) /\ t[i] = Tail(t)[i - 1]
<1>1. /\ Tail(t) \in Seq(U) /\ Len(Tail(t)) = Len(t) - 1 /\ Head(t) = t[1] /\ Head(t) \in U
      /\ Len(t) \in Nat /\ Len(t) >= 1
      /\ \A i \in 1 .. Len(Tail(t)) : i + 1 \in 2 .. Len(t) /\ Tail(t)[i] = t[i + 1]
  OBVIOUS
<1>2. ASSUME NEW i \in 2 .. Len(t) PROVE i - 1 \in 1 .. Len(Tail(t)) /\ t[i] = Tail(t)[i - 1]
  <2>1. i - 1 \in 1 .. Len(Tail(t)) /\ (i - 1) + 1 = i
    BY <1>1
  <2> QED  BY <1>1, <2>1
<1> QED  BY <1>1, <1>2

(* Two, and three, in front of a list are put there one by one.            *)
LEMMA Cons2 ==
  ASSUME NEW U, NEW x \in U, NEW y \in U, NEW t \in Seq(U)
  PROVE  <<x, y>> \o t = <<x>> \o (<<y>> \o t)
<1>1. <<x>> \in Seq(U) /\ <<y>> \in Seq(U)
  OBVIOUS
<1>2. <<x, y>> = <<x>> \o <<y>>
  <2> DEFINE l == <<x, y>>
             r == <<x>> \o <<y>>
  <2>1. l \in Seq(U) /\ Len(l) = 2 /\ l[1] = x /\ l[2] = y
    OBVIOUS
  <2>2. r \in Seq(U) /\ Len(r) = 2 /\ r[1] = x /\ r[2] = y
    OBVIOUS
  <2> HIDE DEF l, r
  <2>3. \A i \in 1 .. 2 : l[i] = r[i]
    BY <2>1, <2>2
  <2>4. l = r
    BY <2>1, <2>2, <2>3, SeqEqual
  <2> QED  BY <2>4 DEF l, r
<1> QED  BY <1>1, <1>2, ConcatAssociative

(* Three in front of a list.                                               *)
LEMMA Cons3 ==
  ASSUME NEW U, NEW x \in U, NEW y \in U, NEW z \in U, NEW t \in Seq(U)
  PROVE  <<x, y, z>> \o t = <<x>> \o (<<y>> \o (<<z>> \o t))
<1>1. <<x>> \in Seq(U) /\ <<y, z>> \in Seq(U)
  OBVIOUS
<1>3. <<x, y, z>> = <<x>> \o <<y, z>>
  <2> DEFINE l == <<x, y, z>>
             r == <<x>> \o <<y, z>>
  <2>1. l \in Seq(U) /\ Len(l) = 3 /\ l[1] = x /\ l[2] = y /\ l[3] = z
    OBVIOUS
  <2>2. r \in Seq(U) /\ Len(r) = 3 /\ r[1] = x /\ r[2] = y /\ r[3] = z
    OBVIOUS
  <2> HIDE DEF l, r
  <2>3. \A i \in 1 .. 3 : l[i] = r[i]
    BY <2>1, <2>2
  <2>4. l = r
    BY <2>1, <2>2, <2>3, SeqEqual
  <2> QED  BY <2>4 DEF l, r
<1>4. (<<x>> \o <<y, z>>) \o t = <<x>> \o (<<y, z>> \o t)
  BY <1>1, ConcatAssociative
<1>2. <<x, y, z>> \o t = <<x>> \o (<<y, z>> \o t)
  BY <1>3, <1>4, Zenon
<1>5. <<y, z>> \o t = <<y>> \o (<<z>> \o t)
  BY Cons2
<1> QED  BY <1>2, <1>5, Zenon

(* A fallback is a plan of its own. *)
LEMMA FallsIs ==
  ASSUME NEW x \in PlanStep
  PROVE  /\ x.at \in Paths /\ Falls(x) \in Seq(FallStep) /\ Falls(x) \in Seq(PlanStep)
         /\ x.act \in {"link", "rename"} => x.to \in Paths
         /\ BacksOf(x) \subseteq Paths /\ UnlinksOf(x) \subseteq Paths /\ NeedsOf(x) \subseteq Paths
<1>1. x.at \in Paths /\ (x.act \in {"link", "rename"} => x.to \in Paths)
  BY DEF PlanStep
<1>2. Falls(x) \in Seq(FallStep)
  BY DEF PlanStep, Falls
<1>3. FallStep \subseteq PlanStep
  BY DEF FallStep, PlanStep
<1>4. Falls(x) \in Seq(PlanStep)
  <2> DEFINE f == Falls(x)
  <2>1. f \in Seq(FallStep)
    BY <1>2
  <2> HIDE DEF f
  <2>2. Len(f) \in Nat /\ f \in [1 .. Len(f) -> FallStep]
    BY <2>1
  <2>3. f \in [1 .. Len(f) -> PlanStep]
    BY <1>3, <2>2
  <2>4. f \in Seq(PlanStep)
    BY <2>2, <2>3
  <2> QED  BY <2>4 DEF f
<1> QED  BY <1>1, <1>2, <1>4 DEF BacksOf, UnlinksOf, NeedsOf, ActAt

(* What the steps of a fallback do, its step has announced. *)
LEMMA FallAt ==
  ASSUME NEW x \in PlanStep, NEW i \in 1 .. Len(Falls(x))
  PROVE  LET y == Falls(x)[i]
         IN  /\ y \in FallStep /\ y \in PlanStep
             /\ BacksOf(y) \subseteq BacksOf(x) /\ UnlinksOf(y) \subseteq UnlinksOf(x)
             /\ NeedsOf(y) \subseteq BacksOf(x) /\ MadeBy(y) = {} /\ VerifiedBy(y) = {}
             /\ NeedsOf(y) \subseteq ActAt("restore", Falls(x))
             /\ UnlinksOf(y) \subseteq ActAt("unlink", Falls(x))
             /\ Falls(y) = <<>> /\ y.act \in {"release", "unlink", "restore", "fail"} /\ y.at \in Paths
<1> DEFINE f == Falls(x)
           y == f[i]
<1>1. y \in FallStep
  BY FallsIs
<1>2. y \in PlanStep /\ y.act \in {"release", "unlink", "restore", "fail"} /\ y.at \in Paths
  BY <1>1 DEF FallStep, PlanStep
<1>3. Falls(y) = <<>>
  BY <1>2 DEF Falls
<1>4. ActAt("unlink", <<>>) = {} /\ ActAt("restore", <<>>) = {}
  BY DEF ActAt
<1>5. y.act = "restore" => y.at \in ActAt("restore", f)
  BY <1>2 DEF ActAt
<1>6. y.act = "unlink" => y.at \in ActAt("unlink", f)
  BY <1>2 DEF ActAt
<1> HIDE DEF y, f
<1>7. BacksOf(y) = IF y.act = "restore" THEN {y.at} ELSE {}
  BY <1>2, <1>3, <1>4 DEF BacksOf
<1>8. UnlinksOf(y) = IF y.act = "unlink" THEN {y.at} ELSE {}
  BY <1>2, <1>3, <1>4 DEF UnlinksOf
<1>9. NeedsOf(y) = BacksOf(y) /\ MadeBy(y) = {} /\ VerifiedBy(y) = {}
  BY <1>2 DEF NeedsOf, MadeBy, VerifiedBy
<1>10. BacksOf(y) \subseteq ActAt("restore", f) /\ UnlinksOf(y) \subseteq ActAt("unlink", f)
  BY <1>5, <1>6, <1>7, <1>8
<1>11. ActAt("restore", f) \subseteq BacksOf(x) /\ ActAt("unlink", f) \subseteq UnlinksOf(x)
  BY DEF BacksOf, UnlinksOf, f
<1> QED  BY <1>1, <1>2, <1>3, <1>9, <1>10, <1>11 DEF y, f

(* The rest of an ordered plan is ordered, if its renames are verified.    *)
LEMMA TailOrdered ==
  ASSUME NEW t \in Seq(PlanStep), t # <<>>, Ordered(t)
  PROVE  Tail(t) \in Seq(PlanStep) /\ Ordered(Tail(t))
<1> DEFINE r == Tail(t)
<1>1. /\ r \in Seq(PlanStep) /\ Len(r) = Len(t) - 1 /\ Len(t) \in Nat /\ Len(t) >= 1
      /\ \A i \in 1 .. Len(r) : i + 1 \in 2 .. Len(t) /\ r[i] = t[i + 1]
      /\ \A i \in 2 .. Len(t) : i - 1 \in 1 .. Len(r) /\ t[i] = r[i - 1]
  BY TailIs
<1> HIDE DEF r
<1>2. \A i \in 2 .. Len(t) : i \in 1 .. Len(t)
  OBVIOUS
<1>3. ASSUME NEW i \in 1 .. Len(r) PROVE Single(r[i])
  BY <1>1, <1>2 DEF Ordered
<1>4. ASSUME NEW i \in 1 .. Len(r), NEW j \in 1 .. Len(r)
      PROVE  Apart(r[i], r[j]) /\ (i < j => Before(r[i], r[j]))
  <2>1. i + 1 \in 1 .. Len(t) /\ j + 1 \in 1 .. Len(t) /\ r[i] = t[i + 1] /\ r[j] = t[j + 1]
    BY <1>1, <1>2
  <2>2. i < j => i + 1 < j + 1
    BY <1>1
  <2> QED  BY <2>1, <2>2 DEF Ordered
<1>5. ASSUME NEW i \in 1 .. Len(r), r[i].act = "rename" PROVE r[i].to \in ActAt("verify", r)
  <2>1. i + 1 \in 1 .. Len(t) /\ r[i] = t[i + 1] /\ 1 \in 1 .. Len(t) /\ 1 < i + 1
    BY <1>1, <1>2
  <2>2. r[i].to \in ActAt("verify", t)
    BY <1>5, <2>1 DEF Ordered
  <2>3. PICK j \in 1 .. Len(t) : t[j].act = "verify" /\ t[j].at = r[i].to
    BY <2>2 DEF ActAt
  <2>4. j # 1
    <3>1. Before(t[1], t[i + 1])
      BY <2>1 DEF Ordered
    <3>2. MadeBy(t[i + 1]) = {r[i].to}
      BY <1>5, <2>1 DEF MadeBy
    <3>3. j = 1 => VerifiedBy(t[1]) = {r[i].to}
      BY <2>3 DEF VerifiedBy
    <3> QED  BY <3>1, <3>2, <3>3 DEF Before
  <2>5. j - 1 \in 1 .. Len(r) /\ t[j] = r[j - 1]
    BY <1>1, <2>4
  <2> QED  BY <2>2, <2>3, <2>5 DEF ActAt
<1> QED  BY <1>1, <1>3, <1>4, <1>5 DEF Ordered, r

(* So is what a step falls back to. *)
LEMMA FallOrdered ==
  ASSUME NEW x \in PlanStep, Single(x), Apart(x, x)
  PROVE  Falls(x) \in Seq(PlanStep) /\ Ordered(Falls(x))
<1> DEFINE f == Falls(x)
<1>1. f \in Seq(PlanStep)
  BY FallsIs
<1>2. \A i \in 1 .. Len(f) :
        /\ f[i] \in PlanStep /\ BacksOf(f[i]) \subseteq BacksOf(x) /\ UnlinksOf(f[i]) \subseteq UnlinksOf(x)
        /\ MadeBy(f[i]) = {} /\ VerifiedBy(f[i]) = {} /\ Falls(f[i]) = <<>>
        /\ f[i].act \in {"release", "unlink", "restore", "fail"}
  BY FallAt
<1>3. \A i, j \in 1 .. Len(f) : i < j => GoneBy(f[i]) \cap NeedsOf(f[j]) = {}
  BY DEF Single
<1> HIDE DEF f
<1>4. ASSUME NEW i \in 1 .. Len(f) PROVE Single(f[i])
  BY <1>2 DEF Single
<1>5. ASSUME NEW i \in 1 .. Len(f), NEW j \in 1 .. Len(f)
      PROVE  Apart(f[i], f[j]) /\ (i < j => Before(f[i], f[j]))
  <2>1. Apart(f[i], f[j])
    BY <1>2 DEF Apart
  <2>2. i < j => Before(f[i], f[j])
    BY <1>2, <1>3 DEF Before
  <2> QED  BY <2>1, <2>2
<1>6. \A i \in 1 .. Len(f) : f[i].act # "rename"
  BY <1>2
<1> QED  BY <1>1, <1>4, <1>5, <1>6 DEF Ordered, f

(* A path is doomed that some step unlinks and none verifies.              *)
LEMMA InDoomed ==
  ASSUME NEW t, NEW p
  PROVE  p \in Doomed(t) <=> (\E i \in 1 .. Len(t) : p \in UnlinksOf(t[i])) /\ p \notin ActAt("verify", t)
<1> DEFINE V == ActAt("verify", t)
           I == 1 .. Len(t)
           D == {UnlinksOf(t[i]) : i \in I}
<1>1. Doomed(t) = (UNION D) \ V
  BY DEF Doomed
<1>2. \A i \in I : UnlinksOf(t[i]) \in D
  OBVIOUS
<1>3. \A d \in D : \E i \in I : d = UnlinksOf(t[i])
  OBVIOUS
<1> HIDE DEF V, I, D
<1>4. p \in UNION D <=> \E d \in D : p \in d
  BY Zenon
<1>5. p \in UNION D <=> \E i \in I : p \in UnlinksOf(t[i])
  BY <1>2, <1>3, <1>4, Zenon
<1>6. p \in Doomed(t) <=> (\E i \in I : p \in UnlinksOf(t[i])) /\ p \notin V
  BY <1>1, <1>5
<1> QED  BY <1>6 DEF V, I

(* The first step of a plan and what follows it. *)
LEMMA PlanIs ==
  ASSUME NEW t, StepsOK(t), t # <<>>
  PROVE  /\ Head(t) = t[1] /\ t[1] \in PlanStep /\ Single(t[1]) /\ Apart(t[1], t[1])
         /\ Tail(t) \in Seq(PlanStep) /\ Ordered(Tail(t)) /\ Len(Tail(t)) \in Nat
         /\ \A i \in 1 .. Len(Tail(t)) :
              /\ Tail(t)[i] \in PlanStep /\ Single(Tail(t)[i])
              /\ Apart(t[1], Tail(t)[i]) /\ Apart(Tail(t)[i], t[1]) /\ Before(t[1], Tail(t)[i])
         /\ \A p \in NeedsOf(t[1]) : Present(p)
         /\ \A p \in MadeBy(t[1]) : ~Present(p)
         /\ t[1].act = "write" => Secluded(dir[t[1].at])
         /\ t[1].act = "drop" => DropOK(t[1])
         /\ t[1].act = "rename" => t[1].to \in ActAt("verify", Tail(t))
<1> DEFINE r == Tail(t)
<1>1. t \in Seq(PlanStep) /\ Ordered(t) /\ Ready(t)
  BY DEF StepsOK
<1>2. /\ r \in Seq(PlanStep) /\ Len(r) = Len(t) - 1 /\ Head(t) = t[1] /\ Head(t) \in PlanStep
      /\ Len(t) \in Nat /\ Len(t) >= 1
      /\ \A i \in 1 .. Len(r) : i + 1 \in 2 .. Len(t) /\ r[i] = t[i + 1]
      /\ \A i \in 2 .. Len(t) : i - 1 \in 1 .. Len(r) /\ t[i] = r[i - 1]
  BY <1>1, TailIs
<1>3. Ordered(r)
  BY <1>1, TailOrdered
<1> HIDE DEF r
<1>4. 1 \in 1 .. Len(t) /\ Single(t[1]) /\ Apart(t[1], t[1])
  BY <1>1, <1>2 DEF Ordered
<1>5. ASSUME NEW i \in 1 .. Len(r)
      PROVE  /\ r[i] \in PlanStep /\ Single(r[i])
             /\ Apart(t[1], r[i]) /\ Apart(r[i], t[1]) /\ Before(t[1], r[i])
  <2>1. i + 1 \in 1 .. Len(t) /\ r[i] = t[i + 1] /\ 1 < i + 1
    BY <1>2
  <2> QED  BY <1>1, <1>2, <1>4, <2>1 DEF Ordered
<1>6. /\ \A p \in NeedsOf(t[1]) : Present(p)
      /\ \A p \in MadeBy(t[1]) : ~Present(p)
      /\ t[1].act = "write" => Secluded(dir[t[1].at])
      /\ t[1].act = "drop" => DropOK(t[1])
  BY <1>1, <1>4 DEF Ready
<1>7. ASSUME t[1].act = "rename" PROVE t[1].to \in ActAt("verify", r)
  <2>1. PICK i \in 1 .. Len(t) : t[i].act = "verify" /\ t[i].at = t[1].to /\ t[1].to \in Paths
    BY <1>1, <1>4, <1>7 DEF Ordered, ActAt
  <2>2. i \in 2 .. Len(t)
    BY <1>2, <1>7, <2>1
  <2> QED  BY <1>2, <2>1, <2>2 DEF ActAt
<1> QED  BY <1>2, <1>3, <1>4, <1>5, <1>6, <1>7 DEF r

(* What follows the first step still needs what it needed, unless the step *)
(* makes it; and it may unlink what has been verified now.                 *)
LEMMA RestIs ==
  ASSUME NEW t, StepsOK(t), t # <<>>
  PROVE  LET x == t[1]
             r == Tail(t)
         IN  /\ \A i \in 1 .. Len(r) : \A p \in NeedsOf(r[i]) :
                  /\ p \notin GoneBy(x)
                  /\ Present(p) \/ p \in MadeBy(x) \/ \E k \in 1 .. i - 1 : p \in MadeBy(r[k])
             /\ \A i \in 1 .. Len(r) : \A p \in MadeBy(r[i]) :
                  ~Present(p) /\ p \notin MadeBy(x) \cup LinkedBy(x) \cup VerifiedBy(x)
             /\ \A i \in 1 .. Len(r) : r[i].act = "write" =>
                  /\ x.act \in {"retain", "create"}
                  /\ \/ r[i].at \in MadeBy(x) \/ Secluded(dir[r[i].at])
                     \/ \E k \in 1 .. i - 1 : r[i].at \in MadeBy(r[k])
             /\ \A i \in 1 .. Len(r) : r[i].act # "drop"
             /\ Doomed(r) \subseteq Doomed(t) \cup VerifiedBy(x)
             /\ UnlinksOf(x) \subseteq Doomed(t) \cup VerifiedBy(x)
<1> DEFINE r == Tail(t)
           x == t[1]
<1>1. t \in Seq(PlanStep) /\ Ready(t)
  BY DEF StepsOK
<1>2. /\ Len(r) = Len(t) - 1 /\ Len(t) \in Nat /\ Len(t) >= 1
      /\ \A i \in 1 .. Len(r) : i + 1 \in 2 .. Len(t) /\ r[i] = t[i + 1]
      /\ \A i \in 2 .. Len(t) : i - 1 \in 1 .. Len(r) /\ t[i] = r[i - 1]
  BY <1>1, TailIs
<1>3. \A i \in 1 .. Len(r) : Before(x, r[i]) /\ r[i] \in PlanStep
  BY PlanIs
<1>4. x \in PlanStep
  BY PlanIs
<1> HIDE DEF r, x
<1>5. ASSUME NEW i \in 1 .. Len(r)
      PROVE  i + 1 \in 1 .. Len(t) /\ r[i] = t[i + 1] /\ i \in Nat
  BY <1>2
<1>6. ASSUME NEW i \in 1 .. Len(r), NEW p, \E k \in 1 .. (i + 1) - 1 : p \in MadeBy(t[k])
      PROVE  p \in MadeBy(x) \/ \E k \in 1 .. i - 1 : p \in MadeBy(r[k])
  <2>1. PICK k \in 1 .. (i + 1) - 1 : p \in MadeBy(t[k])
    BY <1>6
  <2>2. CASE k = 1
    BY <2>1, <2>2 DEF x
  <2>3. CASE k # 1
    <3>1. k - 1 \in 1 .. i - 1 /\ k \in 2 .. Len(t)
      BY <1>5, <1>2, <2>3
    <3> QED  BY <1>2, <2>1, <3>1
  <2> QED  BY <2>2, <2>3
<1>7. ASSUME NEW i \in 1 .. Len(r), NEW p \in NeedsOf(r[i])
      PROVE  /\ p \notin GoneBy(x)
             /\ Present(p) \/ p \in MadeBy(x) \/ \E k \in 1 .. i - 1 : p \in MadeBy(r[k])
  <2>1. p \notin GoneBy(x)
    BY <1>3 DEF Before
  <2>2. Present(p) \/ \E k \in 1 .. (i + 1) - 1 : p \in MadeBy(t[k])
    BY <1>1, <1>5 DEF Ready
  <2> QED  BY <1>6, <2>1, <2>2
<1>8. ASSUME NEW i \in 1 .. Len(r), NEW p \in MadeBy(r[i])
      PROVE  ~Present(p) /\ p \notin MadeBy(x) \cup LinkedBy(x) \cup VerifiedBy(x)
  BY <1>1, <1>3, <1>5 DEF Ready, Before
<1>9. ASSUME NEW i \in 1 .. Len(r), r[i].act = "write"
      PROVE  /\ x.act \in {"retain", "create"}
             /\ \/ r[i].at \in MadeBy(x) \/ Secluded(dir[r[i].at])
                \/ \E k \in 1 .. i - 1 : r[i].at \in MadeBy(r[k])
  <2>1. x.act \in {"retain", "create"}
    BY <1>3, <1>9 DEF Before
  <2>2. (\E k \in 1 .. (i + 1) - 1 : r[i].at \in MadeBy(t[k])) \/ Secluded(dir[r[i].at])
    BY <1>1, <1>5, <1>9 DEF Ready
  <2> QED  BY <1>6, <2>1, <2>2
<1>10. ASSUME NEW i \in 1 .. Len(r) PROVE r[i].act # "drop"
  BY <1>3 DEF Before
<1>11. ActAt("verify", t) \subseteq ActAt("verify", r) \cup VerifiedBy(x)
  <2> SUFFICES ASSUME NEW p \in ActAt("verify", t), p \notin VerifiedBy(x)
               PROVE  p \in ActAt("verify", r)
    OBVIOUS
  <2>1. PICK i \in 1 .. Len(t) : t[i].act = "verify" /\ t[i].at = p /\ p \in Paths
    BY DEF ActAt
  <2>2. i # 1
    BY <2>1 DEF VerifiedBy, x
  <2>3. i \in 2 .. Len(t)
    BY <1>2, <2>2
  <2> QED  BY <1>2, <2>1, <2>3 DEF ActAt
<1>12. Doomed(r) \subseteq Doomed(t) \cup VerifiedBy(x)
  <2> SUFFICES ASSUME NEW p \in Doomed(r), p \notin VerifiedBy(x) PROVE p \in Doomed(t)
    OBVIOUS
  <2>0. p \notin ActAt("verify", r) /\ \E i \in 1 .. Len(r) : p \in UnlinksOf(r[i])
    BY InDoomed
  <2>1. PICK i \in 1 .. Len(r) : p \in UnlinksOf(r[i])
    BY <2>0
  <2>2. p \notin ActAt("verify", t)
    BY <1>11, <2>0
  <2>3. i + 1 \in 1 .. Len(t) /\ p \in UnlinksOf(t[i + 1])
    BY <1>5, <2>1
  <2> QED  BY <2>2, <2>3, InDoomed
<1>13. UnlinksOf(x) \subseteq Doomed(t) \cup VerifiedBy(x)
  <2> SUFFICES ASSUME NEW p \in UnlinksOf(x), p \notin VerifiedBy(x) PROVE p \in Doomed(t)
    OBVIOUS
  <2>1. p \notin ActAt("verify", t)
    <3>1. SUFFICES ASSUME p \in ActAt("verify", r) PROVE FALSE
      BY <1>11
    <3>2. PICK i \in 1 .. Len(r) : r[i].act = "verify" /\ r[i].at = p
      BY <3>1 DEF ActAt
    <3>3. p \in VerifiedBy(r[i])
      BY <3>2 DEF VerifiedBy
    <3> QED  BY <1>3, <3>3 DEF Before
  <2>2. 1 \in 1 .. Len(t) /\ p \in UnlinksOf(t[1])
    BY <1>2 DEF x
  <2> QED  BY <2>1, <2>2, InDoomed
<1> QED  BY <1>7, <1>8, <1>9, <1>10, <1>12, <1>13 DEF r, x

(* Names are never numbered anew. *)
LEMMA OrderedStays ==
  ASSUME NEW t, t \in Seq(PlanStep), Ordered(t),
         used.names \in Nat, used'.names \in Nat, used.names <= used'.names
  PROVE  Ordered(t)'
<1>1. ASSUME NEW p, Numbered(p) PROVE Numbered(p)'
  BY <1>1 DEF Numbered
<1>2. ASSUME NEW a, BackOK(a) PROVE BackOK(a)'
  BY <1>1, <1>2 DEF BackOK
<1>3. ASSUME NEW x, Single(x) PROVE Single(x)'
  BY <1>1, <1>2, <1>3 DEF Single
<1> QED  BY <1>3 DEF Ordered

(* The rest of a plan after its first step.  The step has taken away and   *)
(* added no more than it says, and each file of the user's keeps a name.   *)
LEMMA AfterStep ==
  ASSUME NEW t, StepsOK(t), t # <<>>,
         used.names \in Nat, used'.names \in Nat, used.names <= used'.names,
         \A p : Present(p) /\ p \notin GoneBy(t[1]) => Present(p)',
         \A p \in MadeBy(t[1]) : Present(p)',
         \A p : Present(p)' => \/ Present(p) \/ p \in MadeBy(t[1]) \cup LinkedBy(t[1])
                              \/ t[1].act = "restore",
         t[1].act \in {"retain", "create"} =>
           \A p : Long(p) /\ Present(p) /\ Secluded(dir[p]) => Secluded(dir[p])',
         t[1].act = "create" => Secluded(dir[t[1].at])',
         \A n \in users' : \E q \in Names(n)' : q \notin Doomed(Tail(t))
  PROVE  StepsOK(Tail(t))'
<1> DEFINE r == Tail(t)
           x == t[1]
<1>1. /\ \A i \in 1 .. Len(r) : \A p \in NeedsOf(r[i]) :
           /\ p \notin GoneBy(x)
           /\ Present(p) \/ p \in MadeBy(x) \/ \E k \in 1 .. i - 1 : p \in MadeBy(r[k])
      /\ \A i \in 1 .. Len(r) : \A p \in MadeBy(r[i]) :
           ~Present(p) /\ p \notin MadeBy(x) \cup LinkedBy(x) \cup VerifiedBy(x)
      /\ \A i \in 1 .. Len(r) : r[i].act = "write" =>
           /\ x.act \in {"retain", "create"}
           /\ \/ r[i].at \in MadeBy(x) \/ Secluded(dir[r[i].at])
              \/ \E k \in 1 .. i - 1 : r[i].at \in MadeBy(r[k])
      /\ \A i \in 1 .. Len(r) : r[i].act # "drop"
  BY RestIs
<1>2. /\ r \in Seq(PlanStep) /\ Ordered(r)
      /\ \A i \in 1 .. Len(r) : r[i] \in PlanStep /\ Single(r[i])
  BY PlanIs
<1>3. Ordered(r)'
  BY <1>2, OrderedStays
<1>4. x.at \in Paths /\ (x.act = "create" => MadeBy(x) = {x.at}) /\ (x.act = "retain" => MadeBy(x) = {})
  BY PlanIs, FallsIs DEF MadeBy
<1>10. \A i \in 1 .. Len(r) : Before(x, r[i])
  BY PlanIs
<1> HIDE DEF r, x
<1>5. ASSUME NEW i \in 1 .. Len(r), NEW p \in NeedsOf(r[i])
      PROVE  Present(p)' \/ \E k \in 1 .. i - 1 : p \in MadeBy(r[k])
  BY <1>1 DEF x
<1>6. ASSUME NEW i \in 1 .. Len(r), NEW p \in MadeBy(r[i])
      PROVE  ~Present(p)'
  <2>1. x.act # "restore"
    BY <1>10 DEF Before
  <2> QED  BY <1>1, <2>1 DEF x
<1>7. ASSUME NEW i \in 1 .. Len(r), r[i].act = "write"
      PROVE  (\E k \in 1 .. i - 1 : r[i].at \in MadeBy(r[k])) \/ Secluded(dir[r[i].at])'
  <2>1. CASE r[i].at \in MadeBy(x)
    <3>1. x.act = "create" /\ r[i].at = x.at
      BY <1>1, <1>4, <1>7, <2>1
    <3> QED  BY <3>1 DEF x
  <2>2. CASE r[i].at \notin MadeBy(x) /\ ~\E k \in 1 .. i - 1 : r[i].at \in MadeBy(r[k])
    <3>1. Secluded(dir[r[i].at]) /\ x.act \in {"retain", "create"}
      BY <1>1, <1>7, <2>2
    <3>2. r[i].at \in NeedsOf(r[i]) /\ Long(r[i].at)
      BY <1>2, <1>7 DEF NeedsOf, Single
    <3>3. Present(r[i].at)
      BY <1>1, <2>2, <3>2
    <3> QED  BY <3>1, <3>2, <3>3 DEF x
  <2> QED  BY <2>1, <2>2
<1>8. \A n \in users' : \E q \in Names(n)' : q \notin Doomed(r)
  BY DEF r
<1>9. Ready(r)'
  <2>1. \A i \in 1 .. Len(r) : \A p \in NeedsOf(r[i]) :
          Present(p)' \/ \E k \in 1 .. i - 1 : p \in MadeBy(r[k])
    BY <1>5
  <2>2. \A i \in 1 .. Len(r) : \A p \in MadeBy(r[i]) : ~Present(p)'
    BY <1>6
  <2>3. \A i \in 1 .. Len(r) : r[i].act = "write" =>
          (\E k \in 1 .. i - 1 : r[i].at \in MadeBy(r[k])) \/ Secluded(dir[r[i].at])'
    BY <1>7
  <2>4. \A i \in 1 .. Len(r) : r[i].act = "drop" => DropOK(r[i])'
    BY <1>1
  <2> QED  BY <1>8, <2>1, <2>2, <2>3, <2>4 DEF Ready
<1> QED  BY <1>2, <1>3, <1>9 DEF StepsOK, r

(* The same where the step changes no file. *)
LEMMA QuietStep ==
  ASSUME NEW t, StepsOK(t), t # <<>>, UNCHANGED <<dir, body, users>>,
         used.names \in Nat, used'.names \in Nat, used.names <= used'.names,
         MadeBy(t[1]) = {},
         \A p \in VerifiedBy(t[1]) : dir[p] \notin users
  PROVE  StepsOK(Tail(t))'
<1>1. \A p : Present(p)' <=> Present(p)
  BY DEF Present
<1>2. \A f : Names(f)' = Names(f)
  BY DEF Names
<1>3. \A p : Secluded(dir[p]) => Secluded(dir[p])'
  BY <1>2 DEF Secluded
<1>4. t[1].act # "create"
  <2>1. t[1].act = "create" => MadeBy(t[1]) = {t[1].at}
    BY DEF MadeBy
  <2> QED  BY <2>1
<1>5. ASSUME NEW n \in users' PROVE \E q \in Names(n)' : q \notin Doomed(Tail(t))
  <2>1. n \in users
    OBVIOUS
  <2>2. PICK q \in Names(n) : q \notin Doomed(t)
    BY <2>1 DEF StepsOK, Ready
  <2>3. dir[q] = n
    BY <2>2 DEF Names
  <2>4. q \notin VerifiedBy(t[1])
    BY <2>1, <2>3
  <2>5. q \notin Doomed(Tail(t))
    BY <2>2, <2>4, RestIs
  <2> QED  BY <1>2, <2>2, <2>5
<1> QED  BY <1>1, <1>3, <1>4, <1>5, AfterStep

(* What a step falls back to. *)
LEMMA FallBack ==
  ASSUME NEW t, StepsOK(t), t # <<>>, UNCHANGED <<dir, body, users>>,
         used.names \in Nat, used'.names \in Nat, used.names <= used'.names,
         t[1].act \in {"link", "rename", "current", "verify"}
  PROVE  StepsOK(Falls(t[1]))'
<1> DEFINE x == t[1]
           f == Falls(x)
<1>1. x \in PlanStep /\ Single(x) /\ Apart(x, x) /\ \A p \in NeedsOf(x) : Present(p)
  BY PlanIs
<1>2. f \in Seq(PlanStep) /\ Ordered(f)
  BY <1>1, FallOrdered
<1>3. \A i \in 1 .. Len(f) :
        /\ UnlinksOf(f[i]) \subseteq UnlinksOf(x) /\ NeedsOf(f[i]) \subseteq BacksOf(x) /\ MadeBy(f[i]) = {}
        /\ f[i].act \in {"release", "unlink", "restore", "fail"}
  BY <1>1, FallAt
<1>4. UnlinksOf(x) \cap VerifiedBy(x) = {}
  <2>1. CASE x.act = "verify"
    <3>1. x.at \notin ActAt("unlink", x.otherwise)
      BY <1>1, <2>1 DEF Single
    <3> QED  BY <2>1, <3>1 DEF UnlinksOf, VerifiedBy, Falls
  <2>2. CASE x.act # "verify"
    BY <2>2 DEF VerifiedBy
  <2> QED  BY <2>1, <2>2
<1>5. UnlinksOf(x) \subseteq Doomed(t)
  BY <1>4, RestIs
<1> HIDE DEF f, x
<1>6. ASSUME NEW p \in Doomed(f) PROVE p \in Doomed(t)
  <2>1. PICK i \in 1 .. Len(f) : p \in UnlinksOf(f[i])
    BY InDoomed
  <2> QED  BY <1>3, <1>5, <2>1
<1>7. ASSUME NEW n \in users' PROVE \E q \in Names(n)' : q \notin Doomed(f)
  <2>1. PICK q \in Names(n) : q \notin Doomed(t)
    BY DEF StepsOK, Ready
  <2> QED  BY <1>6, <2>1 DEF Names
<1>8. \A i \in 1 .. Len(f) : \A p \in NeedsOf(f[i]) : Present(p)'
  BY <1>1, <1>3 DEF NeedsOf, Present
<1>9. Ordered(f)'
  BY <1>2, OrderedStays
<1>10. Ready(f)'
  <2>1. \A i \in 1 .. Len(f) : f[i].act # "write" /\ f[i].act # "drop"
    BY <1>3
  <2> QED  BY <1>3, <1>7, <1>8, <2>1 DEF Ready
<1> QED  BY <1>2, <1>9, <1>10 DEF StepsOK, f, x

(* A plan that touches no file. *)
Touchless(t) == t \in Seq(PlanStep) /\ \A i \in 1 .. Len(t) : t[i].act \in {"retain", "release", "gone", "fail"}

(* Such a plan is sound wherever the user's files have names.              *)
LEMMA TouchlessPlan ==
  ASSUME NEW t, Touchless(t), \A n \in users' : \E q \in Names(n)' : TRUE
  PROVE  StepsOK(t)'
<1>0. t \in Seq(PlanStep)
  BY DEF Touchless
<1>1. \A i \in 1 .. Len(t) : t[i] \in PlanStep /\ t[i].act \in {"retain", "release", "gone", "fail"}
  BY DEF Touchless
<1>2. ActAt("unlink", <<>>) = {} /\ ActAt("restore", <<>>) = {}
  BY DEF ActAt
<1>3. ASSUME NEW i \in 1 .. Len(t)
      PROVE  /\ Falls(t[i]) = <<>> /\ BacksOf(t[i]) = {} /\ UnlinksOf(t[i]) = {} /\ NeedsOf(t[i]) = {}
             /\ MadeBy(t[i]) = {} /\ LinkedBy(t[i]) = {} /\ GoneBy(t[i]) = {} /\ VerifiedBy(t[i]) = {}
  <2>1. Falls(t[i]) = <<>>
    BY <1>1 DEF Falls
  <2>2. BacksOf(t[i]) = {} /\ UnlinksOf(t[i]) = {}
    BY <1>1, <1>2, <2>1 DEF BacksOf, UnlinksOf
  <2> QED  BY <1>1, <2>1, <2>2 DEF NeedsOf, MadeBy, LinkedBy, GoneBy, VerifiedBy
<1>4. ASSUME NEW i \in 1 .. Len(t) PROVE Single(t[i])'
  <2> DEFINE x == t[i]
  <2>1. /\ x \in PlanStep /\ x.act \in {"retain", "release", "gone", "fail"}
        /\ Falls(x) = <<>> /\ BacksOf(x) = {} /\ UnlinksOf(x) = {}
    BY <1>1, <1>3
  <2> HIDE DEF x
  <2>2. \A j \in 1 .. Len(Falls(x)) : FALSE
    BY <2>1
  <2> QED  BY <2>1, <2>2 DEF Single, x
<1>5. \A i, j \in 1 .. Len(t) : Apart(t[i], t[j]) /\ Before(t[i], t[j])
  BY <1>1, <1>3 DEF Apart, Before
<1>6. Ordered(t)'
  BY <1>1, <1>4, <1>5 DEF Ordered
<1>7. \A p : p \notin Doomed(t)
  BY <1>3, InDoomed
<1>8. Ready(t)'
  <2>1. \A n \in users' : \E q \in Names(n)' : q \notin Doomed(t)
    BY <1>7
  <2> QED  BY <1>1, <1>3, <2>1 DEF Ready
<1> QED  BY <1>0, <1>6, <1>8 DEF StepsOK

(* Each file of the user's has a name while a plan is under way. *)
LEMMA Named ==
  ASSUME NEW t, StepsOK(t), UNCHANGED <<dir, users>>
  PROVE  \A n \in users' : \E q \in Names(n)' : TRUE
<1> SUFFICES ASSUME NEW n \in users' PROVE \E q \in Names(n)' : TRUE
  OBVIOUS
<1>1. PICK q \in Names(n) : q \notin Doomed(t)
  BY DEF StepsOK, Ready
<1> QED  BY <1>1 DEF Names

-----------------------------------------------------------------------------
(* The steps on the disk. *)
LEMMA WithIs ==
  ASSUME NEW path, NEW f, dir' = With(path, f)
  PROVE  /\ DOMAIN dir' = DOMAIN dir \cup {path} /\ dir'[path] = f
         /\ \A p \in DOMAIN dir : p # path => dir'[p] = dir[p]
BY DEF With

(* The directory without a name.                                           *)
LEMMA WithoutIs ==
  ASSUME NEW path, dir' = Without(path)
  PROVE  /\ DOMAIN dir' = DOMAIN dir \ {path}
         /\ \A p \in DOMAIN dir' : dir'[p] = dir[p]
BY DEF Without

(* A command whose steps are replaced.                                     *)
LEMMA StepsChange ==
  ASSUME JobOK, NEW s, job' = [job EXCEPT !.steps = s]
  PROVE  job'.steps = s /\ JobOK'
BY DEF JobOK, NoJob

(* The step that a command is about to take.                               *)
LEMMA DoingIs ==
  ASSUME PluginInv, NEW act, Doing(act)
  PROVE  /\ StepsOK(job.steps) /\ job.steps # <<>> /\ job.steps[1].act = act /\ Step = job.steps[1]
         /\ used.names \in Nat /\ job.steps[1] \in PlanStep /\ job.steps[1].at \in Paths
<1>1. StepsOK(job.steps) /\ job.steps # <<>>
  BY DEF PluginInv, Doing
<1>2. Head(job.steps) = job.steps[1] /\ job.steps[1] \in PlanStep
  BY <1>1, PlanIs
<1>3. job.steps[1].at \in Paths
  BY <1>2, FallsIs
<1> QED  BY <1>1, <1>2, <1>3 DEF Doing, Step, PluginInv, DirOK

(* The stage is created: a new file, under a name of ours.                 *)
LEMMA CreateStep ==
  ASSUME PluginInv, Create
  PROVE  DirOK' /\ StepsOK(job.steps)'
<1>1. PICK t : t = job.steps
  OBVIOUS
<1>2. PICK x : x = t[1]
  OBVIOUS
<1>3. StepsOK(t) /\ t # <<>> /\ x.act = "create" /\ Step = x /\ x \in PlanStep /\ x.at \in Paths
  BY <1>1, <1>2, DoingIs DEF Create
<1>4. MadeBy(x) = {x.at} /\ LinkedBy(x) = {} /\ GoneBy(x) = {} /\ VerifiedBy(x) = {}
  BY <1>3 DEF MadeBy, LinkedBy, GoneBy, VerifiedBy
<1>5. ~Present(x.at) /\ Numbered(x.at) /\ Long(x.at)
  BY <1>2, <1>3, <1>4, PlanIs DEF Single
<1>6. PICK new : new = Len(body) + 1
  OBVIOUS
<1>7. /\ body' = Append(body, "torn") /\ dir' = With(x.at, new)
      /\ UNCHANGED <<used, users, saved>>
  BY <1>3, <1>6 DEF Create, NewFile, others
<1>8. /\ DOMAIN dir' = DOMAIN dir \cup {x.at} /\ dir'[x.at] = new
      /\ \A p \in DOMAIN dir : p # x.at /\ dir'[p] = dir[p]
  BY <1>5, <1>7, WithIs DEF Present
<1>9. DirOK /\ StepsOK(job.steps) /\ JobOK
  BY DEF PluginInv
<1>10. /\ body \in Seq({"torn", "current", "older", "foreign"}) /\ Len(body) \in Nat
       /\ body' \in Seq({"torn", "current", "older", "foreign"}) /\ Len(body') = new
       /\ \A n \in 1 .. Len(body) : body'[n] = body[n]
  BY <1>6, <1>7, <1>9 DEF DirOK
<1>11. \A p \in DOMAIN dir : dir[p] \in 1 .. Len(body) /\ p \in Paths /\ Numbered(p)
  BY <1>9 DEF DirOK
<1>12. \A p : Numbered(p)' <=> Numbered(p)
  BY <1>7 DEF Numbered
<1>13. DirOK'
  <2>1. dir' \in [DOMAIN dir' -> 1 .. Len(body')]
    <3>1. \A p \in DOMAIN dir' : dir'[p] \in 1 .. Len(body')
      BY <1>6, <1>8, <1>10, <1>11
    <3>2. dir' = [p \in DOMAIN dir' |-> dir'[p]]
      BY <1>7 DEF With
    <3> QED  BY <3>1, <3>2
  <2>2. \A p \in DOMAIN dir' : p \in Paths /\ Numbered(p)'
    BY <1>3, <1>5, <1>8, <1>11, <1>12
  <2>3. \A p, q \in DOMAIN dir' : dir'[p] = dir'[q] => p[1] = q[1]
    <3>1. \A p \in DOMAIN dir : dir'[p] # new
      BY <1>6, <1>8, <1>10, <1>11
    <3> QED  BY <1>8, <1>9, <3>1 DEF DirOK
  <2>4. \A n \in users' : n \in 1 .. Len(body') /\ body'[n] = "foreign"
    BY <1>6, <1>7, <1>9, <1>10 DEF DirOK
  <2> QED  BY <1>7, <1>9, <1>10, <2>1, <2>2, <2>3, <2>4 DEF DirOK
<1>14. ASSUME NEW f, f # new PROVE Names(f)' = Names(f)
  BY <1>8, <1>14 DEF Names
<1>15. \A n \in users : n # new
  BY <1>6, <1>9, <1>10 DEF DirOK
<1>16. Secluded(new)'
  <2>1. Names(new)' = {x.at}
    BY <1>6, <1>8, <1>10, <1>11 DEF Names
  <2> QED  BY <1>5, <1>7, <1>15, <2>1 DEF Secluded
<1>17. ASSUME NEW p, Present(p), Secluded(dir[p]) PROVE Secluded(dir[p])'
  <2>1. dir'[p] = dir[p] /\ dir[p] # new
    BY <1>6, <1>8, <1>10, <1>11, <1>17 DEF Present
  <2>2. Names(dir[p])' = Names(dir[p])
    <3>1. PICK f : f = dir[p]
      OBVIOUS
    <3>2. Names(f)' = Names(f)
      BY <1>14, <2>1, <3>1
    <3> QED  BY <2>1, <3>1, <3>2 DEF Names
  <2> QED  BY <1>7, <1>17, <2>1, <2>2 DEF Secluded
<1>18. ASSUME NEW n \in users' PROVE \E q \in Names(n)' : q \notin Doomed(Tail(t))
  <2>1. n \in users
    BY <1>7
  <2>2. PICK q \in Names(n) : q \notin Doomed(t)
    BY <1>3, <2>1 DEF StepsOK, Ready
  <2>3. q \notin Doomed(Tail(t))
    BY <1>2, <1>3, <1>4, <2>2, RestIs
  <2> QED  BY <1>14, <1>15, <2>1, <2>2, <2>3
<1>19. StepsOK(Tail(t))'
  <2>1. used.names \in Nat /\ used'.names \in Nat /\ used.names <= used'.names
    BY <1>7, <1>9 DEF DirOK
  <2>2. \A p : Present(p)' <=> Present(p) \/ p = x.at
    BY <1>8 DEF Present
  <2>3. Secluded(dir[x.at])'
    BY <1>8, <1>16 DEF Secluded, Names
  <2> QED  BY <1>2, <1>3, <1>4, <1>17, <1>18, <2>1, <2>2, <2>3, AfterStep
<1>20. job'.steps = Tail(t)
  BY <1>1, <1>9 DEF Create, Onward, JobOK, NoJob
<1> QED  BY <1>13, <1>19, <1>20

(* A directory stays sound when a name goes,                               *)
LEMMA DirWithout ==
  ASSUME DirOK, NEW path, dir' = Without(path), UNCHANGED <<body, used>>, users' \subseteq users
  PROVE  DirOK'
<1>1. DOMAIN dir' = DOMAIN dir \ {path} /\ \A p \in DOMAIN dir' : dir'[p] = dir[p]
  BY WithoutIs
<1>2. dir' = [p \in DOMAIN dir' |-> dir'[p]]
  BY DEF Without
<1>3. \A p \in DOMAIN dir' : dir'[p] \in 1 .. Len(body)
  BY <1>1 DEF DirOK
<1>4. dir' \in [DOMAIN dir' -> 1 .. Len(body)]
  BY <1>2, <1>3
<1>5. \A p \in DOMAIN dir' : p \in Paths /\ Numbered(p)'
  BY <1>1 DEF DirOK, Numbered
<1>6. \A p, q \in DOMAIN dir' : dir'[p] = dir'[q] => p[1] = q[1]
  BY <1>1 DEF DirOK
<1> QED  BY <1>4, <1>5, <1>6 DEF DirOK

(* when a file gets a second name in the same directory,                   *)
LEMMA DirWith ==
  ASSUME DirOK, NEW path \in Paths, NEW from \in DOMAIN dir, Numbered(path), path[1] = from[1],
         dir' = With(path, dir[from]), UNCHANGED <<body, used, users>>
  PROVE  DirOK'
<1>1. /\ DOMAIN dir' = DOMAIN dir \cup {path} /\ dir'[path] = dir[from]
      /\ \A p \in DOMAIN dir : p # path => dir'[p] = dir[p]
  BY WithIs
<1>2. dir' = [p \in DOMAIN dir' |-> dir'[p]]
  BY DEF With
<1>3. \A p \in DOMAIN dir' : dir'[p] \in 1 .. Len(body)
  BY <1>1 DEF DirOK
<1>4. dir' \in [DOMAIN dir' -> 1 .. Len(body)]
  BY <1>2, <1>3
<1>5. \A p \in DOMAIN dir' : p \in Paths /\ Numbered(p)'
  BY <1>1 DEF DirOK, Numbered
<1>6. \A p, q \in DOMAIN dir' : dir'[p] = dir'[q] => p[1] = q[1]
  BY <1>1 DEF DirOK
<1> QED  BY <1>4, <1>5, <1>6 DEF DirOK

(* and when nothing happens to it.                                         *)
LEMMA DirSame ==
  ASSUME DirOK, UNCHANGED <<dir, body, users>>,
         used' \in [names : Nat, commands : Nat, edits : Nat, deaths : Nat], used.names <= used'.names
  PROVE  DirOK'
<1>1. \A p \in DOMAIN dir : Numbered(p)'
  BY DEF DirOK, Numbered
<1> QED  BY <1>1 DEF DirOK

(* The stage is written: no file of the user's.                            *)
LEMMA WriteStep ==
  ASSUME PluginInv, WriteStage
  PROVE  DirOK' /\ StepsOK(job.steps)'
<1>1. PICK t : t = job.steps
  OBVIOUS
<1>2. PICK x : x = t[1]
  OBVIOUS
<1>3. StepsOK(t) /\ t # <<>> /\ x.act = "write" /\ Step = x /\ x \in PlanStep /\ x.at \in Paths
  BY <1>1, <1>2, DoingIs DEF WriteStage
<1>4. MadeBy(x) = {} /\ LinkedBy(x) = {} /\ GoneBy(x) = {} /\ VerifiedBy(x) = {} /\ x.at \in NeedsOf(x)
  BY <1>3 DEF MadeBy, LinkedBy, GoneBy, VerifiedBy, NeedsOf
<1>5. Present(x.at) /\ Secluded(dir[x.at])
  BY <1>2, <1>3, <1>4, PlanIs
<1>6. PICK f : f = dir[x.at]
  OBVIOUS
<1>7. /\ body' = [body EXCEPT ![f] = "current"] /\ UNCHANGED <<dir, used, users, saved>>
  BY <1>3, <1>6 DEF WriteStage, others
<1>8. DirOK /\ JobOK
  BY DEF PluginInv
<1>9. f \notin users
  BY <1>5, <1>6 DEF Secluded
<1>10. DirOK'
  <2>1. body \in Seq({"torn", "current", "older", "foreign"}) /\ Len(body) \in Nat /\ f \in 1 .. Len(body)
    BY <1>5, <1>6, <1>8 DEF DirOK, Present
  <2>2. /\ body' \in Seq({"torn", "current", "older", "foreign"}) /\ Len(body') = Len(body)
        /\ \A n \in 1 .. Len(body) : n # f => body'[n] = body[n]
    BY <1>7, <2>1
  <2>3. \A n \in users' : n \in 1 .. Len(body') /\ body'[n] = "foreign"
    BY <1>7, <1>8, <1>9, <2>2 DEF DirOK
  <2>4. \A p \in DOMAIN dir : Numbered(p)'
    BY <1>7, <1>8 DEF DirOK, Numbered
  <2>5. dir \in [DOMAIN dir -> 1 .. Len(body')]
    BY <1>8, <2>2 DEF DirOK
  <2> QED  BY <1>7, <1>8, <2>2, <2>3, <2>4, <2>5 DEF DirOK
<1>11. ASSUME NEW n \in users' PROVE \E q \in Names(n)' : q \notin Doomed(Tail(t))
  <2>1. n \in users
    BY <1>7
  <2>2. PICK q \in Names(n) : q \notin Doomed(t)
    BY <1>3, <2>1 DEF StepsOK, Ready
  <2>3. q \notin Doomed(Tail(t))
    BY <1>2, <1>3, <1>4, <2>2, RestIs
  <2> QED  BY <1>7, <2>2, <2>3 DEF Names
<1>12. StepsOK(Tail(t))'
  <2>1. used.names \in Nat /\ used'.names \in Nat /\ used.names <= used'.names
    BY <1>7, <1>8 DEF DirOK
  <2>2. \A p : Present(p)' <=> Present(p)
    BY <1>7 DEF Present
  <2> QED  BY <1>2, <1>3, <1>4, <1>11, <2>1, <2>2, AfterStep
<1>13. job'.steps = Tail(t)
  BY <1>1, <1>8 DEF WriteStage, Onward, JobOK, NoJob
<1> QED  BY <1>10, <1>12, <1>13

(* A name that the plan dooms is unlinked.                                 *)
LEMMA UnlinkStep ==
  ASSUME PluginInv, UnlinkFile
  PROVE  DirOK' /\ StepsOK(job.steps)'
<1>1. PICK t : t = job.steps
  OBVIOUS
<1>2. PICK x : x = t[1]
  OBVIOUS
<1>3. StepsOK(t) /\ t # <<>> /\ x.act = "unlink" /\ Step = x /\ x \in PlanStep /\ x.at \in Paths
  BY <1>1, <1>2, DoingIs DEF UnlinkFile
<1>4. MadeBy(x) = {} /\ LinkedBy(x) = {} /\ GoneBy(x) = {x.at} /\ VerifiedBy(x) = {} /\ x.at \in UnlinksOf(x)
  BY <1>3 DEF MadeBy, LinkedBy, GoneBy, VerifiedBy, UnlinksOf
<1>5. dir' = Without(x.at) /\ UNCHANGED <<body, used, users, saved>>
  BY <1>3 DEF UnlinkFile, others
<1>6. DirOK /\ JobOK
  BY DEF PluginInv
<1>7. DirOK'
  BY <1>5, <1>6, DirWithout
<1>8. DOMAIN dir' = DOMAIN dir \ {x.at} /\ \A p \in DOMAIN dir' : dir'[p] = dir[p]
  BY <1>5, WithoutIs
<1>9. x.at \in Doomed(t)
  BY <1>2, <1>3, <1>4, RestIs
<1>11. ASSUME NEW n \in users' PROVE \E q \in Names(n)' : q \notin Doomed(Tail(t))
  <2>1. n \in users
    BY <1>5
  <2>2. PICK q \in Names(n) : q \notin Doomed(t)
    BY <1>3, <2>1 DEF StepsOK, Ready
  <2>3. q \notin Doomed(Tail(t))
    BY <1>2, <1>3, <1>4, <2>2, RestIs
  <2>4. q \in Names(n)'
    BY <1>8, <1>9, <2>2 DEF Names
  <2> QED  BY <2>3, <2>4
<1>12. StepsOK(Tail(t))'
  <2>1. used.names \in Nat /\ used'.names \in Nat /\ used.names <= used'.names
    BY <1>5, <1>6 DEF DirOK
  <2>2. \A p : Present(p)' <=> Present(p) /\ p # x.at
    BY <1>8 DEF Present
  <2> QED  BY <1>2, <1>3, <1>4, <1>11, <2>1, <2>2, AfterStep
<1>13. job'.steps = Tail(t)
  BY <1>1, <1>6 DEF UnlinkFile, Onward, JobOK, NoJob
<1> QED  BY <1>7, <1>12, <1>13

(* A plan of one step that touches no file.                                *)
LEMMA OneStep ==
  ASSUME NEW act \in {"retain", "release", "gone", "fail"}, NEW p \in Paths
  PROVE  Touchless(<< S(act, p) >>)
<1>1. S(act, p) \in PlanStep /\ S(act, p).act = act
  BY DEF S, PlanStep
<1>2. << S(act, p) >> \in Seq(PlanStep) /\ Len(<< S(act, p) >>) = 1 /\ << S(act, p) >>[1] = S(act, p)
  BY <1>1
<1> QED  BY <1>1, <1>2 DEF Touchless

(* A second name is dropped, if it still is one.                           *)
LEMMA DropStep ==
  ASSUME PluginInv, DropLink
  PROVE  DirOK' /\ StepsOK(job.steps)'
<1>1. PICK t : t = job.steps
  OBVIOUS
<1>2. PICK x : x = t[1]
  OBVIOUS
<1>3. StepsOK(t) /\ t # <<>> /\ x.act = "drop" /\ Step = x /\ x \in PlanStep /\ x.at \in Paths
  BY <1>1, <1>2, DoingIs DEF DropLink
<1>4. UNCHANGED <<body, used, users, saved>>
  BY DEF DropLink, others
<1>5. DirOK /\ JobOK
  BY DEF PluginInv
<1>6. ASSUME ~(Present(x.at) /\ dir[x.at] = x.file)
      PROVE  DirOK' /\ StepsOK(job.steps)'
  <2>1. dir' = dir /\ job' = Instead(<< S("fail", x.at) >>)
    BY <1>3, <1>6 DEF DropLink
  <2>2. DirOK'
    BY <1>4, <1>5, <2>1 DEF DirOK, Numbered
  <2>3. job'.steps = << S("fail", x.at) >>
    BY <1>5, <2>1 DEF Instead, JobOK, NoJob
  <2>4. StepsOK(<< S("fail", x.at) >>)'
    BY <1>3, <1>4, <2>1, OneStep, Named, TouchlessPlan
  <2> QED  BY <2>2, <2>3, <2>4
<1>7. ASSUME Present(x.at), dir[x.at] = x.file
      PROVE  DirOK' /\ StepsOK(job.steps)'
  <2>1. dir' = Without(x.at) /\ job' = Onward
    BY <1>3, <1>7 DEF DropLink
  <2>2. DirOK'
    BY <1>4, <1>5, <2>1, DirWithout
  <2>3. DOMAIN dir' = DOMAIN dir \ {x.at} /\ \A p \in DOMAIN dir' : dir'[p] = dir[p]
    BY <2>1, WithoutIs
  <2>4. x.file \in users => \E q \in Names(x.file) : q # x.at
    BY <1>2, <1>3, <1>7, PlanIs DEF DropOK
  <2>5. ASSUME NEW n \in users' PROVE \E q \in Names(n)' : TRUE
    <3>1. n \in users
      BY <1>4
    <3>2. PICK q \in Names(n) : q \notin Doomed(t)
      BY <1>3, <3>1 DEF StepsOK, Ready
    <3>3. \E p \in Names(n) : p # x.at
      BY <1>7, <2>4, <3>1, <3>2 DEF Names
    <3> QED  BY <2>3, <3>3 DEF Names
  <2>6. Touchless(Tail(t))
    <3>1. \A i \in 1 .. Len(Tail(t)) : Tail(t)[i].act = "release"
      BY <1>2, <1>3, PlanIs DEF Before
    <3> QED  BY <1>3, <3>1, PlanIs DEF Touchless
  <2>7. StepsOK(Tail(t))'
    BY <2>5, <2>6, TouchlessPlan
  <2>8. job'.steps = Tail(t)
    BY <1>1, <1>5, <2>1 DEF Onward, JobOK, NoJob
  <2> QED  BY <2>2, <2>7, <2>8
<1> QED  BY <1>6, <1>7

(* A file is published by a link, unless something is there.               *)
LEMMA LinkStep ==
  ASSUME PluginInv, LinkFile
  PROVE  DirOK' /\ StepsOK(job.steps)'
<1>1. PICK t : t = job.steps
  OBVIOUS
<1>2. PICK x : x = t[1]
  OBVIOUS
<1>3. StepsOK(t) /\ t # <<>> /\ x.act = "link" /\ Step = x /\ x \in PlanStep /\ x.at \in Paths
  BY <1>1, <1>2, DoingIs DEF LinkFile
<1>4. MadeBy(x) = {} /\ LinkedBy(x) = {x.to} /\ GoneBy(x) = {} /\ VerifiedBy(x) = {} /\ x.at \in NeedsOf(x)
  BY <1>3 DEF MadeBy, LinkedBy, GoneBy, VerifiedBy, NeedsOf
<1>5. Present(x.at) /\ x.to \in Paths /\ x.to[1] = x.at[1] /\ Numbered(x.to)
  BY <1>2, <1>3, <1>4, PlanIs, FallsIs DEF Single
<1>6. DirOK /\ JobOK
  BY DEF PluginInv
<1>7. UNCHANGED <<body, used, users, saved>>
  BY DEF LinkFile, others
<1>8. used.names \in Nat /\ used'.names \in Nat /\ used.names <= used'.names
  BY <1>6, <1>7 DEF DirOK
<1>9. ASSUME Present(x.to)
      PROVE  DirOK' /\ StepsOK(job.steps)'
  <2>1. dir' = dir /\ job' = Instead(x.otherwise)
    BY <1>3, <1>9 DEF LinkFile
  <2>2. DirOK'
    BY <1>6, <1>7, <2>1 DEF DirOK, Numbered
  <2>3. StepsOK(Falls(x))'
    BY <1>2, <1>3, <1>7, <1>8, <2>1, FallBack
  <2>4. job'.steps = Falls(x)
    BY <1>3, <1>6, <2>1 DEF Instead, JobOK, NoJob, Falls
  <2> QED  BY <2>2, <2>3, <2>4
<1>10. ASSUME ~Present(x.to)
       PROVE  DirOK' /\ StepsOK(job.steps)'
  <2>1. dir' = With(x.to, dir[x.at]) /\ job' = Onward
    BY <1>3, <1>10 DEF LinkFile
  <2>2. DirOK'
    BY <1>5, <1>6, <1>7, <2>1, DirWith DEF Present
  <2>3. /\ DOMAIN dir' = DOMAIN dir \cup {x.to}
        /\ \A p \in DOMAIN dir : p # x.to /\ dir'[p] = dir[p]
    BY <1>10, <2>1, WithIs DEF Present
  <2>4. ASSUME NEW n \in users' PROVE \E q \in Names(n)' : q \notin Doomed(Tail(t))
    <3>1. n \in users
      BY <1>7
    <3>2. PICK q \in Names(n) : q \notin Doomed(t)
      BY <1>3, <3>1 DEF StepsOK, Ready
    <3>3. q \notin Doomed(Tail(t))
      BY <1>2, <1>3, <1>4, <3>2, RestIs
    <3>4. q \in Names(n)'
      BY <2>3, <3>2 DEF Names
    <3> QED  BY <3>3, <3>4
  <2>5. StepsOK(Tail(t))'
    <3>1. \A p : Present(p)' <=> Present(p) \/ p = x.to
      BY <2>3 DEF Present
    <3> QED  BY <1>2, <1>3, <1>4, <1>8, <2>4, <3>1, AfterStep
  <2>6. job'.steps = Tail(t)
    BY <1>1, <1>6, <2>1 DEF Onward, JobOK, NoJob
  <2> QED  BY <2>2, <2>5, <2>6
<1> QED  BY <1>9, <1>10

(* A file is moved aside: it keeps a name, which is verified next.         *)
LEMMA RenameStep ==
  ASSUME PluginInv, RenameFile
  PROVE  DirOK' /\ StepsOK(job.steps)'
<1>1. PICK t : t = job.steps
  OBVIOUS
<1>2. PICK x : x = t[1]
  OBVIOUS
<1>3. StepsOK(t) /\ t # <<>> /\ x.act = "rename" /\ Step = x /\ x \in PlanStep /\ x.at \in Paths
  BY <1>1, <1>2, DoingIs DEF RenameFile
<1>4. MadeBy(x) = {x.to} /\ LinkedBy(x) = {} /\ GoneBy(x) = {x.at} /\ VerifiedBy(x) = {}
  BY <1>3 DEF MadeBy, LinkedBy, GoneBy, VerifiedBy
<1>5. ~Present(x.to) /\ x.to \in Paths /\ x.to[1] = x.at[1] /\ Numbered(x.to) /\ x.to \in ActAt("verify", Tail(t))
  BY <1>2, <1>3, <1>4, PlanIs, FallsIs DEF Single
<1>6. DirOK /\ JobOK
  BY DEF PluginInv
<1>7. UNCHANGED <<body, used, users, saved>>
  BY DEF RenameFile, others
<1>8. used.names \in Nat /\ used'.names \in Nat /\ used.names <= used'.names
  BY <1>6, <1>7 DEF DirOK
<1>9. ASSUME ~Present(x.at)
      PROVE  DirOK' /\ StepsOK(job.steps)'
  <2>1. dir' = dir /\ job' = Instead(x.otherwise)
    BY <1>3, <1>9 DEF RenameFile
  <2>2. DirOK'
    BY <1>6, <1>7, <2>1 DEF DirOK, Numbered
  <2>3. StepsOK(Falls(x))'
    BY <1>2, <1>3, <1>7, <1>8, <2>1, FallBack
  <2>4. job'.steps = Falls(x)
    BY <1>3, <1>6, <2>1 DEF Instead, JobOK, NoJob, Falls
  <2> QED  BY <2>2, <2>3, <2>4
<1>10. ASSUME Present(x.at)
       PROVE  DirOK' /\ StepsOK(job.steps)'
  <2>1. /\ job' = Onward
        /\ dir' = [p \in (DOMAIN dir \ {x.at}) \cup {x.to} |-> IF p = x.to THEN dir[x.at] ELSE dir[p]]
    BY <1>3, <1>10 DEF RenameFile
  <2>2. /\ DOMAIN dir' = (DOMAIN dir \ {x.at}) \cup {x.to} /\ dir'[x.to] = dir[x.at]
        /\ x.to \notin DOMAIN dir /\ x.at \in DOMAIN dir
        /\ \A p \in DOMAIN dir \ {x.at} : dir'[p] = dir[p]
    BY <1>5, <1>10, <2>1 DEF Present
  <2>3. DirOK'
    <3>1. dir' = [p \in DOMAIN dir' |-> dir'[p]]
      BY <2>1
    <3>2. \A p \in DOMAIN dir' : dir'[p] \in 1 .. Len(body)
      BY <1>6, <2>2 DEF DirOK
    <3>3. dir' \in [DOMAIN dir' -> 1 .. Len(body)]
      BY <3>1, <3>2
    <3>4. \A p \in DOMAIN dir' : p \in Paths /\ Numbered(p)'
      BY <1>5, <1>6, <1>7, <2>2 DEF DirOK, Numbered
    <3>5. \A p, q \in DOMAIN dir' : dir'[p] = dir'[q] => p[1] = q[1]
      BY <1>5, <1>6, <2>2 DEF DirOK
    <3> QED  BY <1>6, <1>7, <3>3, <3>4, <3>5 DEF DirOK
  <2>4. ASSUME NEW n \in users' PROVE \E q \in Names(n)' : q \notin Doomed(Tail(t))
    <3>1. n \in users
      BY <1>7
    <3>2. PICK q \in Names(n) : q \notin Doomed(t)
      BY <1>3, <3>1 DEF StepsOK, Ready
    <3>3. CASE q = x.at
      <4>1. x.to \notin Doomed(Tail(t))
        BY <1>5, InDoomed
      <4>2. x.to \in Names(n)'
        BY <2>2, <3>2, <3>3 DEF Names
      <4> QED  BY <4>1, <4>2
    <3>4. CASE q # x.at
      <4>1. q \notin Doomed(Tail(t))
        BY <1>2, <1>3, <1>4, <3>2, RestIs
      <4>2. q \in Names(n)'
        BY <2>2, <3>2, <3>4 DEF Names
      <4> QED  BY <4>1, <4>2
    <3> QED  BY <3>3, <3>4
  <2>5. StepsOK(Tail(t))'
    <3>1. \A p : Present(p)' <=> (Present(p) /\ p # x.at) \/ p = x.to
      BY <2>2 DEF Present
    <3> QED  BY <1>2, <1>3, <1>4, <1>8, <2>4, <3>1, AfterStep
  <2>6. job'.steps = Tail(t)
    BY <1>1, <1>6, <2>1 DEF Onward, JobOK, NoJob
  <2> QED  BY <2>3, <2>5, <2>6
<1> QED  BY <1>9, <1>10

(* A step before an ordered plan. *)
LEMMA ConsOrdered ==
  ASSUME NEW y \in PlanStep, Single(y), Apart(y, y), NEW r \in Seq(PlanStep), Ordered(r),
         \A i \in 1 .. Len(r) : Apart(y, r[i]) /\ Apart(r[i], y) /\ Before(y, r[i]),
         y.act = "rename" => y.to \in ActAt("verify", r)
  PROVE  << y >> \o r \in Seq(PlanStep) /\ Ordered(<< y >> \o r)
<1> DEFINE t == << y >> \o r
<1>1. /\ t \in Seq(PlanStep) /\ Len(t) = Len(r) + 1 /\ t[1] = y
      /\ \A i \in 1 .. Len(r) : t[i + 1] = r[i]
      /\ \A i \in 1 .. Len(r) + 1 : i = 1 \/ (i - 1 \in 1 .. Len(r) /\ t[i] = r[i - 1])
  BY ConsIs
<1>0. Len(r) \in Nat
  OBVIOUS
<1> HIDE DEF t
<1>2. ASSUME NEW i \in 1 .. Len(t)
      PROVE  i \in Nat /\ (i # 1 => i - 1 \in 1 .. Len(r) /\ t[i] = r[i - 1])
  BY <1>0, <1>1
<1>3. ASSUME NEW i \in 1 .. Len(t) PROVE Single(t[i])
  BY <1>1, <1>2 DEF Ordered
<1>4. ASSUME NEW i \in 1 .. Len(t), NEW j \in 1 .. Len(t)
      PROVE  Apart(t[i], t[j]) /\ (i < j => Before(t[i], t[j]))
  <2>1. CASE i = 1 /\ j = 1
    BY <1>1, <2>1
  <2>2. CASE i = 1 /\ j # 1
    BY <1>1, <1>2, <2>2
  <2>3. CASE i # 1 /\ j = 1
    <3>1. ~(i < j)
      BY <1>0, <1>1, <2>3
    <3> QED  BY <1>1, <1>2, <2>3, <3>1
  <2>4. CASE i # 1 /\ j # 1
    <3>1. i < j => i - 1 < j - 1
      BY <1>2
    <3> QED  BY <1>2, <2>4, <3>1 DEF Ordered
  <2> QED  BY <2>1, <2>2, <2>3, <2>4
<1>5. ASSUME NEW p \in ActAt("verify", r) PROVE p \in ActAt("verify", t)
  <2>1. PICK i \in 1 .. Len(r) : r[i].act = "verify" /\ r[i].at = p /\ p \in Paths
    BY DEF ActAt
  <2>2. i + 1 \in 1 .. Len(t) /\ t[i + 1] = r[i]
    BY <1>0, <1>1
  <2> QED  BY <2>1, <2>2 DEF ActAt
<1>6. ASSUME NEW i \in 1 .. Len(t), t[i].act = "rename" PROVE t[i].to \in ActAt("verify", t)
  BY <1>1, <1>2, <1>5, <1>6 DEF Ordered
<1> QED  BY <1>1, <1>3, <1>4, <1>6 DEF Ordered, t

(* And one that makes, writes and drops nothing before a ready one. *)
LEMMA ConsReady ==
  ASSUME NEW y \in PlanStep, NEW r \in Seq(PlanStep), Ready(r)',
         \A p \in NeedsOf(y) : Present(p)', MadeBy(y) = {}, y.act \notin {"write", "drop"},
         \A n \in users' : \E q \in Names(n)' : q \notin Doomed(r) /\ q \notin UnlinksOf(y)
  PROVE  Ready(<< y >> \o r)'
<1> DEFINE t == << y >> \o r
<1>1. /\ t \in Seq(PlanStep) /\ Len(t) = Len(r) + 1 /\ t[1] = y
      /\ \A i \in 1 .. Len(r) : t[i + 1] = r[i]
      /\ \A i \in 1 .. Len(r) + 1 : i = 1 \/ (i - 1 \in 1 .. Len(r) /\ t[i] = r[i - 1])
  BY ConsIs
<1>0. Len(r) \in Nat
  OBVIOUS
<1> HIDE DEF t
<1>2. ASSUME NEW i \in 1 .. Len(t)
      PROVE  i \in Nat /\ (i # 1 => i - 1 \in 1 .. Len(r) /\ t[i] = r[i - 1])
  BY <1>0, <1>1
<1>3. ASSUME NEW p \in Doomed(t), p \notin UnlinksOf(y) PROVE p \in Doomed(r)
  <2>1. PICK i \in 1 .. Len(t) : p \in UnlinksOf(t[i])
    BY InDoomed
  <2>2. i - 1 \in 1 .. Len(r) /\ p \in UnlinksOf(r[i - 1])
    BY <1>1, <1>2, <1>3, <2>1
  <2>3. p \notin ActAt("verify", r)
    <3>1. SUFFICES ASSUME p \in ActAt("verify", r) PROVE FALSE
      OBVIOUS
    <3>2. PICK k \in 1 .. Len(r) : r[k].act = "verify" /\ r[k].at = p /\ p \in Paths
      BY <3>1 DEF ActAt
    <3>3. k + 1 \in 1 .. Len(t) /\ t[k + 1] = r[k]
      BY <1>0, <1>1
    <3>4. p \in ActAt("verify", t)
      BY <3>2, <3>3 DEF ActAt
    <3> QED  BY <3>4, InDoomed
  <2> QED  BY <2>2, <2>3, InDoomed
<1>4. \A n \in users' : \E q \in Names(n)' : q \notin Doomed(t)
  BY <1>3
<1>5. ASSUME NEW i \in 1 .. Len(t), i # 1, NEW p, \E k \in 1 .. (i - 1) - 1 : p \in MadeBy(r[k])
      PROVE  \E k \in 1 .. i - 1 : p \in MadeBy(t[k])
  <2>1. PICK k \in 1 .. (i - 1) - 1 : p \in MadeBy(r[k])
    BY <1>5
  <2>2. k + 1 \in 1 .. i - 1 /\ k \in 1 .. Len(r)
    BY <1>0, <1>2, <1>5
  <2> QED  BY <1>1, <2>1, <2>2
<1>6. ASSUME NEW i \in 1 .. Len(t), NEW p \in NeedsOf(t[i])
      PROVE  Present(p)' \/ \E k \in 1 .. i - 1 : p \in MadeBy(t[k])
  <2>1. CASE i = 1
    BY <1>1, <2>1
  <2>2. CASE i # 1
    <3>1. Present(p)' \/ \E k \in 1 .. (i - 1) - 1 : p \in MadeBy(r[k])
      BY <1>2, <2>2 DEF Ready
    <3> QED  BY <1>5, <2>2, <3>1
  <2> QED  BY <2>1, <2>2
<1>7. ASSUME NEW i \in 1 .. Len(t), NEW p \in MadeBy(t[i]) PROVE ~Present(p)'
  BY <1>1, <1>2 DEF Ready
<1>8. ASSUME NEW i \in 1 .. Len(t), t[i].act = "write"
      PROVE  (\E k \in 1 .. i - 1 : t[i].at \in MadeBy(t[k])) \/ Secluded(dir[t[i].at])'
  <2>1. i # 1
    BY <1>1, <1>8
  <2>2. i - 1 \in 1 .. Len(r) /\ t[i] = r[i - 1]
    BY <1>2, <2>1
  <2>3. (\E k \in 1 .. (i - 1) - 1 : t[i].at \in MadeBy(r[k])) \/ Secluded(dir[t[i].at])'
    BY <1>8, <2>2 DEF Ready
  <2> QED  BY <1>5, <2>1, <2>3
<1>9. ASSUME NEW i \in 1 .. Len(t), t[i].act = "drop" PROVE DropOK(t[i])'
  BY <1>1, <1>2, <1>9 DEF Ready
<1>10. Ready(t)'
  BY <1>4, <1>6, <1>7, <1>8, <1>9 DEF Ready
<1> QED  BY <1>10 DEF t

(* What was moved aside is none of the user's, or comes back.              *)
LEMMA VerifyStep ==
  ASSUME PluginInv, Verify
  PROVE  DirOK' /\ StepsOK(job.steps)'
<1>1. PICK t : t = job.steps
  OBVIOUS
<1>2. PICK x : x = t[1]
  OBVIOUS
<1>3. StepsOK(t) /\ t # <<>> /\ x.act = "verify" /\ Step = x /\ x \in PlanStep /\ x.at \in Paths
  BY <1>1, <1>2, DoingIs DEF Verify
<1>4. MadeBy(x) = {} /\ VerifiedBy(x) = {x.at} /\ x.at \in BacksOf(x) /\ Falls(x) = x.otherwise
  BY <1>3 DEF MadeBy, VerifiedBy, BacksOf, Falls
<1>5. UNCHANGED <<dir, body, used, users>>
  BY DEF Verify, disk, others
<1>6. DirOK /\ JobOK
  BY DEF PluginInv
<1>7. DirOK'
  BY <1>5, <1>6 DEF DirOK, Numbered
<1>8. used.names \in Nat /\ used'.names \in Nat /\ used.names <= used'.names
  BY <1>5, <1>6 DEF DirOK
<1>9. CASE dir[x.at] = x.file /\ Names(x.file) = {x.at} /\ body[x.file] = x.was
  <2>1. job'.steps = Tail(t)
    BY <1>1, <1>3, <1>6, <1>9 DEF Verify, Onward, JobOK, NoJob
  <2>2. x.was \in Ours
    BY <1>3 DEF PlanStep
  <2>3. dir[x.at] \notin users
    BY <1>6, <1>9, <2>2 DEF DirOK, Ours
  <2>4. StepsOK(Tail(t))'
    BY <1>2, <1>3, <1>4, <1>5, <1>8, <2>3, QuietStep
  <2> QED  BY <1>7, <2>1, <2>4
<1>10. CASE ~(dir[x.at] = x.file /\ Names(x.file) = {x.at} /\ body[x.file] = x.was)
  <2> DEFINE y == S("restore", x.at)
             f == Falls(x)
  <2>1. job'.steps = << y >> \o f
    BY <1>1, <1>3, <1>4, <1>6, <1>10 DEF Verify, Instead, JobOK, NoJob
  <2>2. StepsOK(f)'
    BY <1>2, <1>3, <1>5, <1>8, FallBack
  <2>3. y.act = "restore" /\ y.at = x.at /\ y \in PlanStep
    BY <1>3 DEF S, PlanStep
  <2>4. f \in Seq(PlanStep)
    BY <1>3, FallsIs
  <2>5. \A i \in 1 .. Len(f) :
          /\ f[i] \in PlanStep /\ BacksOf(f[i]) \subseteq BacksOf(x) /\ UnlinksOf(f[i]) \subseteq UnlinksOf(x)
          /\ NeedsOf(f[i]) \subseteq ActAt("restore", f) /\ MadeBy(f[i]) = {} /\ VerifiedBy(f[i]) = {}
          /\ f[i].act \in {"release", "unlink", "restore", "fail"}
    BY <1>3, FallAt
  <2>6. Single(x) /\ Apart(x, x) /\ \A p \in NeedsOf(x) : Present(p)
    BY <1>2, <1>3, PlanIs
  <2>7. ActAt("restore", f) = {} /\ BackOK(x.at) /\ x.at \in Paths /\ x.at \notin ActAt("unlink", f)
    BY <1>3, <1>4, <2>6 DEF Single
  <2>8. UnlinksOf(x) = ActAt("unlink", f) /\ x.at \in NeedsOf(x)
    BY <1>3, <1>4 DEF UnlinksOf, NeedsOf
  <2>16. ActAt("restore", <<>>) = {} /\ ActAt("unlink", <<>>) = {}
    BY DEF ActAt
  <2> HIDE DEF y, f
  <2>9. Falls(y) = <<>>
    BY <2>3 DEF Falls
  <2>10. BacksOf(y) = {x.at} /\ UnlinksOf(y) = {} /\ NeedsOf(y) = {x.at} /\ MadeBy(y) = {}
         /\ GoneBy(y) = {x.at} /\ VerifiedBy(y) = {} /\ LinkedBy(y) = {}
    BY <2>3, <2>9, <2>16 DEF BacksOf, UnlinksOf, NeedsOf, MadeBy, GoneBy, VerifiedBy, LinkedBy
  <2>11. Single(y)
    <3>1. \A i \in 1 .. Len(Falls(y)) : FALSE
      BY <2>9
    <3> QED  BY <2>3, <2>7, <2>10, <3>1 DEF Single
  <2>12. Apart(y, y) /\ \A i \in 1 .. Len(f) : Apart(y, f[i]) /\ Apart(f[i], y)
    BY <1>4, <2>5, <2>6, <2>10 DEF Apart
  <2>13. \A i \in 1 .. Len(f) : Before(y, f[i])
    BY <2>3, <2>5, <2>7, <2>10 DEF Before
  <2>14. Ordered(<< y >> \o f)' /\ << y >> \o f \in Seq(PlanStep)
    <3>1. Ordered(f)
      BY <1>3, <2>6, FallOrdered DEF f
    <3>2. Ordered(<< y >> \o f) /\ << y >> \o f \in Seq(PlanStep)
      BY <2>3, <2>4, <2>11, <2>12, <2>13, <3>1, ConsOrdered
    <3> QED  BY <1>8, <3>2, OrderedStays
  <2>15. Ready(<< y >> \o f)'
    <3>1. \A p \in NeedsOf(y) : Present(p)'
      BY <1>5, <2>6, <2>8, <2>10 DEF Present
    <3>2. \A n \in users' : \E q \in Names(n)' : q \notin Doomed(f) /\ q \notin UnlinksOf(y)
      BY <2>2, <2>10 DEF StepsOK, Ready
    <3>3. Ready(f)'
      BY <2>2 DEF StepsOK
    <3> QED  BY <2>3, <2>4, <2>10, <3>1, <3>2, <3>3, ConsReady
  <2> QED  BY <1>7, <2>1, <2>14, <2>15 DEF StepsOK
<1> QED  BY <1>9, <1>10

(* It comes back by a link, and then the name aside goes.                  *)
LEMMA RestoreStep ==
  ASSUME PluginInv, RestoreFile
  PROVE  DirOK' /\ StepsOK(job.steps)'
<1>1. PICK t : t = job.steps
  OBVIOUS
<1>2. PICK x : x = t[1]
  OBVIOUS
<1>3. StepsOK(t) /\ t # <<>> /\ x.act = "restore" /\ Step = x /\ x \in PlanStep /\ x.at \in Paths
  BY <1>1, <1>2, DoingIs DEF RestoreFile
<1>16. ActAt("restore", <<>>) = {} /\ ActAt("unlink", <<>>) = {}
  BY DEF ActAt
<1>4. MadeBy(x) = {} /\ VerifiedBy(x) = {} /\ BacksOf(x) = {x.at} /\ GoneBy(x) = {x.at}
      /\ NeedsOf(x) = {x.at} /\ UnlinksOf(x) = {}
  <2>1. Falls(x) = <<>>
    BY <1>3 DEF Falls
  <2> QED  BY <1>3, <1>16, <2>1 DEF MadeBy, VerifiedBy, BacksOf, GoneBy, NeedsOf, UnlinksOf
<1>5. UNCHANGED <<body, used, users>>
  BY DEF RestoreFile, others
<1>6. DirOK /\ JobOK
  BY DEF PluginInv
<1>7. used.names \in Nat /\ used'.names \in Nat /\ used.names <= used'.names
  BY <1>5, <1>6 DEF DirOK
<1>8. PICK to : to = Base(x.at)
  OBVIOUS
<1>9. Present(x.at) /\ Single(x) /\ Apart(x, x)
  BY <1>2, <1>3, <1>4, PlanIs
<1>10. Long(x.at) /\ to \in Paths /\ to[1] = x.at[1] /\ Numbered(to)
  BY <1>4, <1>8, <1>9 DEF Single, BackOK
<1>11. ASSUME Present(to)
       PROVE  DirOK' /\ StepsOK(job.steps)'
  <2>1. dir' = dir /\ job' = Onward
    BY <1>3, <1>8, <1>11 DEF RestoreFile
  <2>2. DirOK'
    BY <1>5, <1>6, <2>1 DEF DirOK, Numbered
  <2>3. job'.steps = Tail(t)
    BY <1>1, <1>6, <2>1 DEF Onward, JobOK, NoJob
  <2>4. StepsOK(Tail(t))'
    BY <1>2, <1>3, <1>4, <1>5, <1>7, <2>1, QuietStep
  <2> QED  BY <2>2, <2>3, <2>4
<1>12. ASSUME ~Present(to)
       PROVE  DirOK' /\ StepsOK(job.steps)'
  <2> DEFINE r == Tail(t)
             y == S("unlink", x.at)
             z == S("release", x.at)
  <2>1. dir' = With(to, dir[x.at]) /\ job' = Instead(Discard(x.at) \o Tail(job.steps))
    BY <1>3, <1>8, <1>12 DEF RestoreFile
  <2>2. DirOK'
    BY <1>5, <1>6, <1>9, <1>10, <2>1, DirWith DEF Present
  <2>3. job'.steps = << y, z >> \o r
    BY <1>1, <1>6, <2>1 DEF Instead, Discard, JobOK, NoJob
  <2>4. /\ DOMAIN dir' = DOMAIN dir \cup {to} /\ dir'[to] = dir[x.at]
        /\ \A p \in DOMAIN dir : p # to /\ dir'[p] = dir[p]
    BY <1>12, <2>1, WithIs DEF Present
  <2>5. /\ r \in Seq(PlanStep) /\ Ordered(r)
        /\ \A i \in 1 .. Len(r) :
             /\ r[i] \in PlanStep /\ Apart(x, r[i]) /\ Apart(r[i], x) /\ Before(x, r[i])
    BY <1>2, <1>3, PlanIs
  <2>6. y.act = "unlink" /\ y.at = x.at /\ y \in PlanStep /\ z.act = "release" /\ z.at = x.at /\ z \in PlanStep
    BY <1>3 DEF S, PlanStep
  <2> HIDE DEF r, y, z
  <2>7. Falls(y) = <<>> /\ Falls(z) = <<>>
    BY <2>6 DEF Falls
  <2>8. BacksOf(y) = {} /\ UnlinksOf(y) = {x.at} /\ NeedsOf(y) = {} /\ MadeBy(y) = {} /\ GoneBy(y) = {x.at}
        /\ VerifiedBy(y) = {} /\ LinkedBy(y) = {}
    BY <1>16, <2>6, <2>7 DEF BacksOf, UnlinksOf, NeedsOf, MadeBy, GoneBy, VerifiedBy, LinkedBy
  <2>9. BacksOf(z) = {} /\ UnlinksOf(z) = {} /\ NeedsOf(z) = {} /\ MadeBy(z) = {} /\ GoneBy(z) = {}
        /\ VerifiedBy(z) = {} /\ LinkedBy(z) = {}
    BY <1>16, <2>6, <2>7 DEF BacksOf, UnlinksOf, NeedsOf, MadeBy, GoneBy, VerifiedBy, LinkedBy
  <2>10. Single(y) /\ Single(z)
    <3>1. (\A i \in 1 .. Len(Falls(y)) : FALSE) /\ (\A i \in 1 .. Len(Falls(z)) : FALSE)
      BY <2>7
    <3>2. Single(y)
      BY <1>10, <2>6, <2>8, <3>1 DEF Single
    <3>3. Single(z)
      BY <2>6, <2>9, <3>1 DEF Single
    <3> QED  BY <3>2, <3>3
  <2>11. Apart(y, y) /\ Apart(z, z) /\ Apart(y, z) /\ Apart(z, y)
    BY <2>8, <2>9 DEF Apart
  <2>12. \A i \in 1 .. Len(r) : Apart(y, r[i]) /\ Apart(r[i], y) /\ Apart(z, r[i]) /\ Apart(r[i], z)
    BY <1>4, <2>5, <2>8, <2>9 DEF Apart
  <2>13. \A i \in 1 .. Len(r) : /\ r[i].act # "write" /\ r[i].act # "drop" /\ MadeBy(r[i]) = {}
                                /\ VerifiedBy(r[i]) = {} /\ GoneBy(x) \cap NeedsOf(r[i]) = {}
    BY <1>3, <2>5 DEF Before
  <2>14. \A i \in 1 .. Len(r) : Before(y, r[i]) /\ Before(z, r[i])
    BY <1>4, <2>6, <2>8, <2>9, <2>13 DEF Before
  <2>15. Before(y, z)
    BY <2>6, <2>8, <2>9 DEF Before
  <2> DEFINE zr == << z >> \o r
  <2>16. zr \in Seq(PlanStep) /\ Ordered(zr)
    BY <2>5, <2>6, <2>10, <2>11, <2>12, <2>14, ConsOrdered
  <2>17. \A i \in 1 .. Len(zr) : zr[i] = z \/ \E k \in 1 .. Len(r) : zr[i] = r[k]
    <3>1. \A i \in 1 .. Len(r) + 1 : i = 1 \/ (i - 1 \in 1 .. Len(r) /\ zr[i] = r[i - 1])
      BY <2>5, <2>6, ConsIs
    <3>2. zr[1] = z /\ Len(zr) = Len(r) + 1
      BY <2>5, <2>6, ConsIs
    <3> QED  BY <3>1, <3>2
  <2> HIDE DEF zr
  <2>18. << y >> \o zr \in Seq(PlanStep) /\ Ordered(<< y >> \o zr)
    <3>1. \A i \in 1 .. Len(zr) : Apart(y, zr[i]) /\ Apart(zr[i], y) /\ Before(y, zr[i])
      BY <2>11, <2>12, <2>14, <2>15, <2>17
    <3> QED  BY <2>6, <2>10, <2>11, <2>16, <3>1, ConsOrdered
  <2>19. ASSUME NEW n \in users'
         PROVE  \E q \in Names(n)' : q \notin Doomed(r) /\ q # x.at
    <3>1. n \in users
      BY <1>5
    <3>2. PICK q \in Names(n) : q \notin Doomed(t)
      BY <1>3, <3>1 DEF StepsOK, Ready
    <3>3. CASE q = x.at
      <4>1. to \notin Doomed(r)
        <5>1. ASSUME NEW i \in 1 .. Len(r) PROVE to \notin UnlinksOf(r[i])
          BY <1>4, <1>8, <2>5 DEF Apart
        <5> QED  BY <5>1, InDoomed
      <4>2. to \in Names(n)' /\ to # x.at
        BY <1>9, <1>12, <2>4, <3>2, <3>3 DEF Names
      <4> QED  BY <4>1, <4>2
    <3>4. CASE q # x.at
      <4>1. q \notin Doomed(r)
        BY <1>2, <1>3, <1>4, <3>2, RestIs DEF r
      <4>2. q \in Names(n)'
        BY <2>4, <3>2 DEF Names
      <4> QED  BY <3>4, <4>1, <4>2
    <3> QED  BY <3>3, <3>4
  <2>20. StepsOK(r)'
    <3>1. \A p : Present(p)' <=> Present(p) \/ p = to
      BY <2>4 DEF Present
    <3>2. \A n \in users' : \E q \in Names(n)' : q \notin Doomed(Tail(t))
      BY <2>19 DEF r
    <3>3. t[1].act \notin {"retain", "create"} /\ MadeBy(t[1]) = {} /\ t[1].act = "restore"
      BY <1>2, <1>3, <1>4
    <3>4. StepsOK(Tail(t))'
      BY <1>3, <1>7, <3>1, <3>2, <3>3, AfterStep
    <3> QED  BY <3>4 DEF r
  <2>21. Ready(zr)'
    <3>1. Ready(r)'
      BY <2>20 DEF StepsOK
    <3>2. \A n \in users' : \E q \in Names(n)' : q \notin Doomed(r) /\ q \notin UnlinksOf(z)
      BY <2>9, <2>19
    <3> QED  BY <2>5, <2>6, <2>9, <3>1, <3>2, ConsReady DEF zr
  <2>22. Ready(<< y >> \o zr)'
    <3>1. ASSUME NEW p \in Doomed(zr) PROVE p \in Doomed(r)
      <4>1. PICK i \in 1 .. Len(zr) : p \in UnlinksOf(zr[i])
        BY InDoomed
      <4>2. PICK k \in 1 .. Len(r) : zr[i] = r[k]
        BY <2>9, <2>17, <4>1
      <4>3. p \notin ActAt("verify", r)
        <5>1. ASSUME NEW j \in 1 .. Len(r) PROVE r[j].act # "verify"
          <6>1. VerifiedBy(r[j]) = {}
            BY <2>13
          <6> QED  BY <6>1 DEF VerifiedBy
        <5> QED  BY <5>1 DEF ActAt
      <4> QED  BY <4>1, <4>2, <4>3, InDoomed
    <3>2. \A n \in users' : \E q \in Names(n)' : q \notin Doomed(zr) /\ q \notin UnlinksOf(y)
      BY <2>8, <2>19, <3>1
    <3> QED  BY <2>6, <2>8, <2>16, <2>21, <3>2, ConsReady
  <2>23. << y, z >> \o r = << y >> \o zr
    BY <2>5, <2>6, Cons2 DEF zr
  <2>24. Ordered(<< y >> \o zr)'
    BY <1>7, <2>18, OrderedStays
  <2>25. StepsOK(<< y >> \o zr)'
    BY <2>18, <2>22, <2>24 DEF StepsOK
  <2> QED  BY <2>2, <2>3, <2>23, <2>25
<1> QED  BY <1>11, <1>12

(* The journal lists paths.                                                *)
LEMMA JournalIs ==
  ASSUME journal \in Seq(Paths), NEW p \in Paths, NEW q
  PROVE  /\ Journaled(p) \in Seq(Paths) /\ Unjournaled(q) \in Seq(Paths)
         /\ Dropping(Journaled(p), {q}) \in Seq(Paths)
<1>1. Journaled(p) \in Seq(Paths)
  BY DEF Journaled
<1>2. Unjournaled(q) \in Seq(Paths)
  BY DroppingHolds DEF Unjournaled
<1>3. Dropping(Journaled(p), {q}) \in Seq(Paths)
  BY <1>1, DroppingHolds
<1> QED  BY <1>1, <1>2, <1>3

(* A step that leaves the files alone and goes on. *)
LEMMA OnwardStep ==
  ASSUME PluginInv, job.steps # <<>>, job.steps[1].act \in {"retain", "release", "gone", "current"},
         UNCHANGED <<dir, body, users, used>>, job' = Onward, SavedOK'
  PROVE  PluginInv'
<1>1. PICK t : t = job.steps
  OBVIOUS
<1>2. PICK x : x = t[1]
  OBVIOUS
<1>3. DirOK /\ JobOK /\ StepsOK(t) /\ t # <<>> /\ x.act \in {"retain", "release", "gone", "current"}
  BY <1>1, <1>2 DEF PluginInv
<1>4. MadeBy(x) = {} /\ VerifiedBy(x) = {}
  BY <1>3 DEF MadeBy, VerifiedBy
<1>5. used.names \in Nat /\ used'.names \in Nat /\ used.names <= used'.names
  BY <1>3 DEF DirOK
<1>6. StepsOK(Tail(t))'
  BY <1>2, <1>3, <1>4, <1>5, QuietStep
<1>7. job' = [job EXCEPT !.steps = Tail(t)]
  BY <1>1, <1>3 DEF Onward, JobOK, NoJob
<1>8. job'.steps = Tail(t) /\ JobOK'
  BY <1>3, <1>7, StepsChange
<1>9. DirOK'
  BY <1>3 DEF DirOK, Numbered
<1> QED  BY <1>6, <1>8, <1>9 DEF PluginInv

(* The journal gains or loses a path.                                      *)
LEMMA RetainStep ==
  ASSUME PluginInv, Retain \/ Release
  PROVE  PluginInv'
<1>1. job.steps # <<>> /\ job.steps[1].act \in {"retain", "release"} /\ Step.at \in Paths
  BY DoingIs DEF Retain, Release
<1>2. UNCHANGED <<dir, body, users, used, install, home>> /\ job' = Onward
  BY DEF Retain, Release, disk, others
<1>3. SavedOK'
  <2>1. journal' \in {Journaled(Step.at), Unjournaled(Step.at)}
    BY DEF Retain, Release
  <2> QED  BY <1>1, <1>2, <2>1, JournalIs DEF PluginInv, SavedOK
<1> QED  BY <1>1, <1>2, <1>3, OnwardStep

(* A path that should be gone is looked at,                                *)
LEMMA GoneStep ==
  ASSUME PluginInv, Gone
  PROVE  PluginInv'
<1>1. job.steps # <<>> /\ job.steps[1].act = "gone" /\ Step.at \in Paths /\ StepsOK(job.steps)
  BY DoingIs DEF Gone
<1>2. UNCHANGED <<dir, body, users, used, journal, install, home>>
  BY DEF Gone, disk, saved, others
<1>3. SavedOK'
  BY <1>2 DEF PluginInv, SavedOK
<1>4. CASE Present(Step.at)
  <2>1. job' = [job EXCEPT !.steps = << S("fail", Step.at) >>]
    BY <1>4 DEF Gone, Instead
  <2>2. job'.steps = << S("fail", Step.at) >> /\ JobOK'
    BY <2>1, StepsChange DEF PluginInv
  <2>3. PICK p \in Paths : p = Step.at
    BY <1>1
  <2>4. StepsOK(<< S("fail", p) >>)'
    BY <1>1, <1>2, OneStep, Named, TouchlessPlan
  <2>5. DirOK'
    BY <1>2 DEF PluginInv, DirOK, Numbered
  <2> QED  BY <1>3, <2>2, <2>3, <2>4, <2>5 DEF PluginInv
<1>5. CASE ~Present(Step.at)
  <2>1. job' = Onward
    BY <1>5 DEF Gone
  <2> QED  BY <1>1, <1>2, <1>3, <2>1, OnwardStep
<1> QED  BY <1>4, <1>5

(* and so is the plugin that was published.                                *)
LEMMA PublishedStep ==
  ASSUME PluginInv, VerifyPublished
  PROVE  PluginInv'
<1>1. job.steps # <<>> /\ job.steps[1].act = "current" /\ Step = job.steps[1] /\ StepsOK(job.steps)
  BY DoingIs DEF VerifyPublished
<1>2. UNCHANGED <<dir, body, users, used, journal, install, home>>
  BY DEF VerifyPublished, disk, saved, others
<1>3. SavedOK'
  BY <1>2 DEF PluginInv, SavedOK
<1>4. CASE Owned(Step.at) /\ body[dir[Step.at]] = "current"
  <2>1. job' = Onward
    BY <1>4 DEF VerifyPublished
  <2> QED  BY <1>1, <1>2, <1>3, <2>1, OnwardStep
<1>5. CASE ~(Owned(Step.at) /\ body[dir[Step.at]] = "current")
  <2>1. PICK t : t = job.steps
    OBVIOUS
  <2>2. job' = [job EXCEPT !.steps = Step.otherwise]
    BY <1>5 DEF VerifyPublished, Instead
  <2>3. job'.steps = Falls(t[1]) /\ JobOK'
    BY <1>1, <2>1, <2>2, StepsChange DEF PluginInv, Falls
  <2>4. used.names \in Nat /\ used'.names \in Nat /\ used.names <= used'.names
    BY <1>2 DEF PluginInv, DirOK
  <2>5. StepsOK(Falls(t[1]))'
    BY <1>1, <1>2, <2>1, <2>4, FallBack
  <2>6. DirOK'
    BY <1>2 DEF PluginInv, DirOK, Numbered
  <2> QED  BY <1>3, <2>3, <2>5, <2>6 DEF PluginInv
<1> QED  BY <1>4, <1>5

(* A command's tasks, one after the other. *)
LEMMA TaskIs ==
  ASSUME PluginInv, NEW kind, OnTask(kind)
  PROVE  /\ Rest \in Seq(Task) /\ Head(job.tasks) \in Task /\ Head(job.tasks).task = kind
         /\ job.steps = <<>> /\ job.cmd # "none" /\ job.context.install \in Installs
         /\ kind \in {"clean", "remove", "ensure", "record"} => Path \in Paths
         /\ kind \in {"ensure", "record"} => Path \in Canon
         /\ kind = "record" => Head(job.tasks).was \in Canon \cup {NoPath}
         /\ kind = "ensure" => Head(job.tasks).failing \in {"stop", "retain", "undo"}
<1>1. job.tasks \in Seq(Task) /\ job.tasks # <<>> /\ Head(job.tasks).task = kind
  BY DEF OnTask, PluginInv, JobOK
<1>2. Head(job.tasks) \in Task /\ Rest \in Seq(Task)
  BY <1>1, TailIs DEF Rest
<1>3. job.steps = <<>> /\ job.cmd # "none" /\ job.context.install \in Installs
  BY DEF OnTask, NoCommand, PluginInv, JobOK
<1>4. /\ kind \in {"clean", "remove", "ensure", "record"} => Path \in Paths
      /\ kind \in {"ensure", "record"} => Path \in Canon
      /\ kind = "record" => Head(job.tasks).was \in Canon \cup {NoPath}
      /\ kind = "ensure" => Head(job.tasks).failing \in {"stop", "retain", "undo"}
  <2>1. PICK h \in Task : h = Head(job.tasks)
    BY <1>2
  <2>2. h.task = kind
    BY <1>1, <2>1
  <2>3. /\ kind \in {"clean", "remove", "ensure", "record"} => h.path \in Paths
        /\ kind \in {"ensure", "record"} => h.path \in Canon
        /\ kind = "record" => h.was \in Canon \cup {NoPath}
        /\ kind = "ensure" => h.failing \in {"stop", "retain", "undo"}
    BY <2>2 DEF Task, Canon
  <2> QED  BY <2>1, <2>3 DEF Path
<1> QED  BY <1>1, <1>2, <1>3, <1>4

(* A path in the directory of now. *)
LEMMA HereIs ==
  ASSUME home \in Home
  PROVE  Here \in Canon /\ Here \in Paths /\ Here[1] = home
<1> DEFINE U == Home \cup Nat \cup {"stage", "probe", "quarantine"}
<1>1. home \in U
  OBVIOUS
<1> HIDE DEF U
<1>2. << home >> \in Seq(U) /\ Len(<< home >>) = 1 /\ << home >>[1] = home
  BY <1>1
<1> QED  BY <1>2 DEF Here, Canon, Paths, U

(* A step that touches no file and plans none that does. *)
LEMMA TaskStep ==
  ASSUME PluginInv, UNCHANGED <<dir, body, users>>,
         used' \in [names : Nat, commands : Nat, edits : Nat, deaths : Nat], used.names <= used'.names,
         SavedOK', JobOK', Touchless(job'.steps)
  PROVE  PluginInv'
<1>1. PICK t : t = job'.steps
  OBVIOUS
<1>2. Touchless(t)
  BY <1>1
<1>3. StepsOK(job.steps) /\ DirOK
  BY DEF PluginInv
<1>4. PICK s : s = job.steps
  OBVIOUS
<1>5. \A n \in users' : \E q \in Names(n)' : TRUE
  BY <1>3, <1>4, Named
<1>6. StepsOK(t)'
  BY <1>2, <1>5, TouchlessPlan
<1>7. DirOK'
  BY <1>3, DirSame
<1> QED  BY <1>1, <1>6, <1>7 DEF PluginInv

(* Nothing to do touches nothing.                                          *)
LEMMA NoSteps == Touchless(<<>>)
BY DEF Touchless

(* What the tasks without steps share. *)
LEMMA PlainTask ==
  ASSUME PluginInv, UNCHANGED <<dir, body, users, used>>, SavedOK', JobOK', job'.steps = <<>>
  PROVE  PluginInv'
<1>1. used.names <= used'.names /\ used' \in [names : Nat, commands : Nat, edits : Nat, deaths : Nat]
  BY DEF PluginInv, DirOK
<1>2. Touchless(job'.steps)
  BY NoSteps
<1> QED  BY <1>1, <1>2, TaskStep

(* A job is what its parts are. *)
Parts(r) == [cmd |-> r.cmd, tasks |-> r.tasks, now |-> r.now, steps |-> r.steps, failed |-> r.failed,
             context |-> r.context, committed |-> r.committed, peers |-> r.peers, fresh |-> r.fresh]

(* A job whose parts are sound is sound.                                   *)
LEMMA JobIs ==
  /\ JobOK => job = Parts(job)
  /\ job' = Parts(job') /\ job'.tasks \in Seq(Task)
       /\ (job'.cmd # "none" => job'.context.install \in Installs) => JobOK'
BY DEF JobOK, Parts

(* A job that goes on with other tasks,                                    *)
LEMMA ThenIs ==
  ASSUME JobOK, NEW s, NEW l \in Seq(Task), job' = Then(s, l)
  PROVE  JobOK' /\ job'.steps = s
BY DEF JobOK, NoJob, Then

(* and one that has planned its next one.                                  *)
LEMMA PlanIsJob ==
  ASSUME JobOK, NEW s, Rest \in Seq(Task), job' = Plan(s)
  PROVE  JobOK' /\ job'.steps = s
<1>1. PICK h : h = Head(job.tasks)
  OBVIOUS
<1>2. PICK l \in Seq(Task) : l = Rest
  OBVIOUS
<1>3. job' = [job EXCEPT !.now = h, !.tasks = l, !.steps = s]
  BY <1>1, <1>2 DEF Plan
<1>4. job = Parts(job) /\ (job.cmd # "none" => job.context.install \in Installs)
  BY JobIs DEF JobOK
<1>5. /\ job' = Parts(job') /\ job'.tasks = l /\ job'.cmd = job.cmd /\ job'.context = job.context
      /\ job'.steps = s
  BY <1>3, <1>4 DEF Parts
<1> QED  BY <1>4, <1>5, JobIs

(* A teardown journals what it may find.                                   *)
LEMMA PrepareStep ==
  ASSUME PluginInv, Prepare
  PROVE  PluginInv'
<1>1. PICK k : k = "prepare"
  OBVIOUS
<1>2. Rest \in Seq(Task) /\ UNCHANGED <<dir, body, users, used, home, install, connection>>
  BY TaskIs DEF Prepare, disk, others
<1>3. job' = [Then(<<>>, Rest) EXCEPT !.context = Context]
  BY DEF Prepare
<1>4. SavedOK
  BY DEF PluginInv
<1>5. JobOK' /\ job'.steps = <<>>
  <2>1. JobOK
    BY DEF PluginInv
  <2>2. Context.install \in Installs
    BY <1>4 DEF Context, SavedOK
  <2>3. PICK l \in Seq(Task) : l = Rest
    BY <1>2
  <2>4. PICK c : c = Context /\ c.install \in Installs
    BY <2>2
  <2>5. job' = [job EXCEPT !.steps = <<>>, !.tasks = l, !.context = c]
    BY <1>3, <2>1, <2>3, <2>4, JobIs DEF Then, Parts
  <2>6. job' = Parts(job') /\ job'.tasks = l /\ job'.context = c /\ job'.steps = <<>>
    BY <2>1, <2>5, JobIs DEF Parts
  <2> QED  BY <2>4, <2>6, JobIs
<1>6. journal' \in Seq(Paths)
  <2> DEFINE recorded == IF install \in {NoPath, <<>>} THEN {} ELSE {install}
             wanted == IF connection = "wants" THEN {Here} ELSE {}
             A == (recorded \cup wanted) \ ToSet(journal)
  <2>1. PICK added \in SetToSeqs(A) : journal' = journal \o added
    BY DEF Prepare
  <2>2. recorded \subseteq Paths /\ wanted \subseteq Paths
    BY <1>4, HereIs DEF SavedOK, Installs, Canon
  <2>3. IsFiniteSet(recorded) /\ IsFiniteSet(wanted)
    BY FS_EmptySet, FS_Singleton
  <2> HIDE DEF recorded, wanted
  <2>4. IsFiniteSet(recorded \cup wanted)
    BY <2>3, FS_Union
  <2>5. IsFiniteSet(A) /\ A \subseteq Paths
    BY <2>2, <2>4, FS_Subset
  <2> HIDE DEF A
  <2>6. Cardinality(A) \in Nat
    BY <2>5, FS_CardinalityType
  <2>7. added \in [1 .. Cardinality(A) -> A]
    BY DEF SetToSeqs
  <2>8. added \in Seq(Paths)
    BY <2>5, <2>6, <2>7
  <2> QED  BY <1>4, <2>1, <2>8 DEF SavedOK
<1>7. SavedOK'
  BY <1>2, <1>4, <1>6 DEF SavedOK
<1> QED  BY <1>2, <1>5, <1>7, PlainTask

(* The tasks on the configuration leave the files alone,                   *)
LEMMA ConfigSteps ==
  ASSUME PluginInv, Configure \/ Unconfigure \/ RemoveIdentity \/ Forget
  PROVE  PluginInv'
<1>1. SavedOK /\ JobOK
  BY DEF PluginInv
<1>2. Rest \in Seq(Task)
  BY TaskIs DEF Configure, Unconfigure, RemoveIdentity, Forget
<1>3. UNCHANGED <<dir, body, users, used, home>> /\ job' = Then(<<>>, Rest)
  BY DEF Configure, Unconfigure, RemoveIdentity, Forget, disk, others
<1>4. JobOK' /\ job'.steps = <<>>
  BY <1>1, <1>2, <1>3, ThenIs
<1>5. journal' \in {journal, <<>>} /\ install' \in {install, NoPath, <<>>}
  BY DEF Configure, Unconfigure, RemoveIdentity, Forget
<1>7. journal' \in Seq(Paths) /\ home' \in Home
  <2>1. journal \in Seq(Paths) /\ <<>> \in Seq(Paths) /\ home \in Home
    BY <1>1 DEF SavedOK
  <2> QED  BY <1>3, <1>5, <2>1
<1>8. install' \in Installs
  <2>1. install \in Installs /\ NoPath \in Installs /\ <<>> \in Installs
    BY <1>1 DEF SavedOK, Installs
  <2> QED  BY <1>5, <2>1
<1>6. SavedOK'
  BY <1>7, <1>8 DEF SavedOK, Installs, Canon, Paths
<1> QED  BY <1>3, <1>4, <1>6, PlainTask

(* so does the check of the clean-up,                                      *)
LEMMA CheckStep ==
  ASSUME PluginInv, CheckCleanup
  PROVE  PluginInv'
<1>1. SavedOK /\ JobOK
  BY DEF PluginInv
<1>2. Rest \in Seq(Task)
  BY TaskIs DEF CheckCleanup
<1>3. UNCHANGED <<dir, body, users, used, home, journal, install>>
      /\ job' = Then(<<>>, IF job.failed THEN <<>> ELSE Rest)
  BY DEF CheckCleanup, disk, saved, others
<1>4. JobOK' /\ job'.steps = <<>>
  <2>1. (IF job.failed THEN <<>> ELSE Rest) \in Seq(Task)
    BY <1>2
  <2> QED  BY <1>1, <1>3, <2>1, ThenIs
<1>6. SavedOK'
  BY <1>1, <1>3 DEF SavedOK
<1> QED  BY <1>3, <1>4, <1>6, PlainTask

(* the collection of its targets,                                          *)
LEMMA CollectStep ==
  ASSUME PluginInv, CollectTargets
  PROVE  PluginInv'
<1>1. SavedOK /\ JobOK
  BY DEF PluginInv
<1>2. PICK kind \in {"collect", "collectAll"} : OnTask(kind)
  BY DEF CollectTargets
<1>3. Rest \in Seq(Task) /\ job.context.install \in Installs
  BY <1>2, TaskIs
<1>4. UNCHANGED <<dir, body, users, used, home, journal, install, connection>>
  BY DEF CollectTargets, disk, saved, others
<1> DEFINE all == OnTask("collectAll")
           context == IF all THEN job.context ELSE Context
           journaled == ToSet(journal)
           recorded == IF all /\ context.install \notin {NoPath, <<>>}
                       THEN << context.install >> ELSE <<>>
           located == IF all /\ context.config # "plain" /\ context.install # NoPath
                      THEN << Here >> ELSE <<>>
           more == Dropping(recorded \o Dropping(located, ToSet(recorded)), journaled)
           paths == journal \o more
           clean == [n \in 1 .. Len(paths) |-> [task |-> "clean", path |-> paths[n]]]
<1>5. job' = [Then(<<>>, clean \o Rest)
                EXCEPT !.peers = journaled,
                       !.committed = IF ~all /\ connection = "wants" THEN Here ELSE NoPath]
  BY DEF CollectTargets
<1>6. paths \in Seq(Paths)
  <2>1. context.install \in Installs
    BY <1>1, <1>3 DEF Context, SavedOK
  <2> HIDE DEF context, all, journaled
  <2>2. recorded \in Seq(Paths)
    <3>1. context.install \notin {NoPath, <<>>} => context.install \in Paths
      BY <2>1 DEF Installs, Canon
    <3> QED  BY <3>1
  <2>3. located \in Seq(Paths)
    BY <1>1, HereIs DEF SavedOK
  <2> HIDE DEF recorded, located
  <2>4. Dropping(located, ToSet(recorded)) \in Seq(Paths)
    BY <2>3, DroppingHolds
  <2>5. recorded \o Dropping(located, ToSet(recorded)) \in Seq(Paths)
    BY <2>2, <2>4
  <2>6. more \in Seq(Paths)
    BY <2>5, DroppingHolds
  <2> HIDE DEF more
  <2> QED  BY <1>1, <2>6 DEF SavedOK
<1> HIDE DEF paths, journaled, all
<1>7. clean \in Seq(Task)
  <2>1. Len(paths) \in Nat /\ \A n \in 1 .. Len(paths) : paths[n] \in Paths
    BY <1>6
  <2>2. \A n \in 1 .. Len(paths) : [task |-> "clean", path |-> paths[n]] \in Task
    BY <2>1 DEF Task
  <2> QED  BY <2>1, <2>2
<1> HIDE DEF clean
<1>8. clean \o Rest \in Seq(Task)
  BY <1>3, <1>7
<1>9. JobOK' /\ job'.steps = <<>>
  <2>1. PICK l \in Seq(Task) : l = clean \o Rest
    BY <1>8
  <2>2. PICK k, c : job' = [Then(<<>>, l) EXCEPT !.peers = k, !.committed = c]
    BY <1>5, <2>1
  <2>3. job = Parts(job) /\ (job.cmd # "none" => job.context.install \in Installs)
    BY <1>1, JobIs DEF JobOK
  <2>4. /\ job' = Parts(job') /\ job'.tasks = l /\ job'.cmd = job.cmd /\ job'.context = job.context
        /\ job'.steps = <<>>
    BY <2>2, <2>3 DEF Parts, Then
  <2> QED  BY <2>3, <2>4, JobIs
<1>10. SavedOK'
  BY <1>1, <1>4 DEF SavedOK
<1> QED  BY <1>4, <1>9, <1>10, PlainTask

(* and the choice of what is to be reconciled.                             *)
LEMMA ReconcileStep ==
  ASSUME PluginInv, ReconcilePlugin
  PROVE  PluginInv'
<1>1. SavedOK /\ JobOK
  BY DEF PluginInv
<1>2. UNCHANGED <<dir, body, users, used, home, journal, install, connection>>
  BY DEF ReconcilePlugin, disk, saved, others
<1> DEFINE desired == connection = "wants"
           recorded == install \notin {NoPath, <<>>}
           moved == recorded /\ install # Here
           ensure == [task |-> "ensure", path |-> Here, failing |-> "stop"]
           undo == [task |-> "remove", path |-> install, failing |-> "undo"]
           record == [task |-> "record", path |-> Here,
                      was |-> IF moved /\ Owned(install) THEN install ELSE NoPath]
           stop == [task |-> "remove", path |-> install, failing |-> "stop"]
           here == [task |-> "remove", path |-> Here, failing |-> "stop"]
           tasks ==
             IF desired
             THEN IF moved /\ Present(install) /\ ~Owned(install) THEN <<>>
                  ELSE << ensure >> \o (IF moved THEN << undo >> ELSE <<>>) \o << record >>
             ELSE IF recorded THEN << stop >>
             ELSE IF job.cmd = "unsource" THEN << here >> ELSE <<>>
<1>3. job' = Then(<<>>, tasks)
  BY DEF ReconcilePlugin
<1>4. Here \in Canon /\ Here \in Paths
  BY <1>1, HereIs DEF SavedOK
<1>5. recorded => install \in Canon /\ install \in Paths
  BY <1>1 DEF SavedOK, Installs, Canon
<1>6. ensure \in Task /\ record \in Task /\ here \in Task /\ (recorded => undo \in Task /\ stop \in Task)
  BY <1>4, <1>5 DEF Task
<1> HIDE DEF ensure, undo, record, stop, here, desired
<1>7. tasks \in Seq(Task)
  <2>1. (IF moved THEN << undo >> ELSE <<>>) \in Seq(Task)
    BY <1>6
  <2>2. << ensure >> \in Seq(Task) /\ << record >> \in Seq(Task) /\ << here >> \in Seq(Task)
        /\ (recorded => << stop >> \in Seq(Task))
    BY <1>6
  <2>3. << ensure >> \o (IF moved THEN << undo >> ELSE <<>>) \o << record >> \in Seq(Task)
    BY <2>1, <2>2
  <2> QED  BY <2>2, <2>3
<1> HIDE DEF tasks
<1>8. JobOK' /\ job'.steps = <<>>
  BY <1>1, <1>3, <1>7, ThenIs
<1>9. SavedOK'
  BY <1>1, <1>2 DEF SavedOK
<1> QED  BY <1>2, <1>8, <1>9, PlainTask

(* The installation is recorded,                                           *)
LEMMA RecordStep ==
  ASSUME PluginInv, Record
  PROVE  PluginInv'
<1>1. SavedOK /\ JobOK
  BY DEF PluginInv
<1>2. Rest \in Seq(Task) /\ Path \in Canon /\ Path \in Paths
  BY TaskIs DEF Record
<1>3. UNCHANGED <<dir, body, users, used, home, journal>> /\ install' = Path
  BY DEF Record, disk, others
<1> DEFINE steps == IF job.fresh THEN << S("release", Path) >> ELSE <<>>
<1>4. job' = Plan(steps)
  BY DEF Record
<1>5. Touchless(steps)
  BY <1>2, OneStep, NoSteps
<1> HIDE DEF steps
<1>6. JobOK' /\ job'.steps = steps
  BY <1>1, <1>2, <1>4, PlanIsJob
<1>7. SavedOK'
  BY <1>1, <1>2, <1>3 DEF SavedOK, Installs
<1>8. used.names <= used'.names /\ used' \in [names : Nat, commands : Nat, edits : Nat, deaths : Nat]
  BY <1>3 DEF PluginInv, DirOK
<1> QED  BY <1>3, <1>5, <1>6, <1>7, <1>8, TaskStep

(* or it cannot be, and is undone.                                         *)
LEMMA RecordFailsStep ==
  ASSUME PluginInv, RecordFails
  PROVE  PluginInv'
<1>1. SavedOK /\ JobOK /\ DirOK
  BY DEF PluginInv
<1>2. Path \in Canon /\ Path \in Paths /\ Head(job.tasks).was \in Canon \cup {NoPath}
  BY TaskIs DEF RecordFails
<1>3. UNCHANGED <<dir, body, users, home, journal, install>> /\ used' = [used EXCEPT !.deaths = @ + 1]
  BY DEF RecordFails, disk, saved, others
<1> DEFINE was == Head(job.tasks).was
           remove == [task |-> "remove", path |-> Path, failing |-> "retain"]
           again == [task |-> "ensure", path |-> was, failing |-> "retain"]
           tasks == << remove >> \o (IF was = NoPath THEN <<>> ELSE << again >>)
<1>4. job' = Then(<<>>, tasks)
  BY DEF RecordFails
<1>5. remove \in Task /\ (was # NoPath => again \in Task)
  BY <1>2 DEF Task
<1> HIDE DEF remove, again
<1>6. tasks \in Seq(Task)
  BY <1>5
<1> HIDE DEF tasks
<1>7. JobOK' /\ job'.steps = <<>>
  BY <1>1, <1>4, <1>6, ThenIs
<1>8. SavedOK'
  BY <1>1, <1>3 DEF SavedOK
<1>9. used.names <= used'.names /\ used' \in [names : Nat, commands : Nat, edits : Nat, deaths : Nat]
  BY <1>1, <1>3 DEF DirOK
<1> QED  BY <1>3, <1>7, <1>8, <1>9, NoSteps, TaskStep

(* The end of a command, and a death. *)
LEMMA EndStep ==
  ASSUME PluginInv, CommandEnds \/ Die
  PROVE  PluginInv'
<1>1. SavedOK /\ JobOK /\ DirOK
  BY DEF PluginInv
<1>2. UNCHANGED <<dir, body, users, home, journal, install>> /\ job' = NoJob
      /\ (used' = used \/ used' = [used EXCEPT !.deaths = @ + 1])
  BY DEF CommandEnds, Die, disk, saved, others
<1>3. JobOK' /\ job'.steps = <<>>
  <2>1. job' = Parts(job') /\ job'.tasks = <<>> /\ job'.cmd = "none" /\ job'.steps = <<>>
    BY <1>2 DEF NoJob, Parts
  <2> QED  BY <2>1, JobIs
<1>4. SavedOK'
  BY <1>1, <1>2 DEF SavedOK
<1>5. used.names <= used'.names /\ used' \in [names : Nat, commands : Nat, edits : Nat, deaths : Nat]
  BY <1>1, <1>2 DEF DirOK
<1> QED  BY <1>2, <1>3, <1>4, <1>5, NoSteps, TaskStep

(* A command begins without steps.                                         *)
LEMMA CommandStep ==
  ASSUME PluginInv, NEW cmd \in {"connect", "unsource", "repair", "disconnect", "uninstall"}, Command(cmd)
  PROVE  PluginInv'
<1>1. SavedOK /\ JobOK /\ DirOK
  BY DEF PluginInv
<1>2. UNCHANGED <<dir, body, users, home, journal, install>>
      /\ (used' = used \/ used' = [used EXCEPT !.commands = @ + 1])
      /\ job' = [NoJob EXCEPT !.cmd = cmd, !.tasks = Tasks(cmd), !.context = Context]
  BY DEF Command, disk, saved, others
<1>3. Tasks(cmd) \in Seq(Task)
  <2>1. \A k \in {"collect", "collectAll", "check", "configure", "reconcile", "prepare", "unconfigure",
                  "identity", "forget"} : T(k) \in Task
    BY DEF T, Task
  <2> QED  BY <2>1 DEF Tasks
<1>4. Context.install \in Installs
  BY <1>1 DEF Context, SavedOK
<1>5. JobOK' /\ job'.steps = <<>>
  <2>1. PICK l \in Seq(Task) : l = Tasks(cmd)
    BY <1>3
  <2>2. PICK c : c = Context /\ c.install \in Installs
    BY <1>4
  <2>3. job' = Parts(job') /\ job'.tasks = l /\ job'.context = c /\ job'.steps = <<>>
    BY <1>2, <2>1, <2>2 DEF NoJob, Parts
  <2> QED  BY <2>2, <2>3, JobIs
<1>6. SavedOK'
  BY <1>1, <1>2 DEF SavedOK
<1>7. used.names <= used'.names /\ used' \in [names : Nat, commands : Nat, edits : Nat, deaths : Nat]
  BY <1>1, <1>2 DEF DirOK
<1> QED  BY <1>2, <1>5, <1>6, <1>7, NoSteps, TaskStep

(* Blocked. *)
LEMMA FailStep ==
  ASSUME PluginInv, StepFails
  PROVE  PluginInv'
<1>1. SavedOK /\ JobOK /\ DirOK
  BY DEF PluginInv
<1>2. Step.at \in Paths
  BY DoingIs DEF StepFails
<1>3. UNCHANGED <<dir, body, users, used, home, install>>
  BY DEF StepFails, disk, others
<1> DEFINE task == job.now
           stuck == Step.at
           undo == << [task |-> "remove", path |-> Here, failing |-> "stop"] >>
<1>4. \/ /\ journal' = IF stuck = task.path THEN Journaled(stuck)
                       ELSE Dropping(Journaled(stuck), {task.path})
         /\ job' = [job EXCEPT !.steps = <<>>, !.failed = TRUE]
      \/ journal' = Journaled(stuck) /\ job' = [job EXCEPT !.steps = <<>>]
      \/ UNCHANGED journal /\ job' = Then(<<>>, undo)
      \/ UNCHANGED journal /\ job' = Then(<<>>, <<>>)
  BY DEF StepFails
<1>5. undo \in Seq(Task)
  <2>1. Here \in Paths
    BY <1>1, HereIs DEF SavedOK
  <2>2. [task |-> "remove", path |-> Here, failing |-> "stop"] \in Task
    BY <2>1 DEF Task
  <2> QED  BY <2>2
<1> HIDE DEF task, undo
<1>6. SavedOK'
  <2>1. journal' \in {Journaled(stuck), Dropping(Journaled(stuck), {task.path}), journal}
    BY <1>4
  <2>2. Journaled(stuck) \in Seq(Paths) /\ Dropping(Journaled(stuck), {task.path}) \in Seq(Paths)
    BY <1>1, <1>2, JournalIs DEF SavedOK
  <2> QED  BY <1>1, <1>3, <2>1, <2>2 DEF SavedOK
<1>7. JobOK' /\ job'.steps = <<>>
  <2>1. job = Parts(job) /\ job.tasks \in Seq(Task) /\ (job.cmd # "none" => job.context.install \in Installs)
    BY <1>1, JobIs DEF JobOK
  <2>2. PICK j, l : j = job /\ l = undo
    OBVIOUS
  <2>3. \/ job' = [j EXCEPT !.steps = <<>>, !.failed = TRUE]
        \/ job' = [j EXCEPT !.steps = <<>>]
        \/ job' = [j EXCEPT !.steps = <<>>, !.tasks = l]
        \/ job' = [j EXCEPT !.steps = <<>>, !.tasks = <<>>]
    BY <1>4, <2>2 DEF Then
  <2>5. j = Parts(j)
    BY <2>1, <2>2
  <2>6. PICK k : k = job'
    OBVIOUS
  <2>4. /\ job' = Parts(job') /\ job'.tasks \in {j.tasks, l, <<>>} /\ job'.cmd = j.cmd
        /\ job'.context = j.context /\ job'.steps = <<>>
    <3>1. CASE k = [j EXCEPT !.steps = <<>>, !.failed = TRUE]
      BY <2>5, <2>6, <3>1 DEF Parts
    <3>2. CASE k = [j EXCEPT !.steps = <<>>]
      BY <2>5, <2>6, <3>2 DEF Parts
    <3>3. CASE k = [j EXCEPT !.steps = <<>>, !.tasks = l]
      BY <2>5, <2>6, <3>3 DEF Parts
    <3>4. CASE k = [j EXCEPT !.steps = <<>>, !.tasks = <<>>]
      BY <2>5, <2>6, <3>4 DEF Parts
    <3> QED  BY <2>3, <2>6, <3>1, <3>2, <3>3, <3>4
  <2>7. job'.tasks \in Seq(Task)
    <3>1. j.tasks \in Seq(Task) /\ l \in Seq(Task) /\ <<>> \in Seq(Task)
      BY <1>5, <2>1, <2>2
    <3> QED  BY <2>4, <3>1
  <2>8. job'.cmd # "none" => job'.context.install \in Installs
    BY <2>1, <2>2, <2>4
  <2> QED  BY <2>4, <2>7, <2>8, JobIs
<1> QED  BY <1>3, <1>6, <1>7, PlainTask

(* The steps on the disk keep the rest as it is. *)
LEMMA DiskStep ==
  ASSUME PluginInv,
         Create \/ WriteStage \/ UnlinkFile \/ DropLink \/ LinkFile \/ RenameFile \/ Verify \/ RestoreFile
  PROVE  PluginInv'
<1>1. DirOK' /\ StepsOK(job.steps)'
  BY CreateStep, WriteStep, UnlinkStep, DropStep, LinkStep, RenameStep, VerifyStep, RestoreStep
<1>2. UNCHANGED <<journal, install, home>>
  BY DEF Create, WriteStage, UnlinkFile, DropLink, LinkFile, RenameFile, Verify, RestoreFile, saved, others
<1>3. SavedOK'
  BY <1>2 DEF PluginInv, SavedOK
<1>4. \E s : job' = [job EXCEPT !.steps = s]
  <2>1. Onward = [job EXCEPT !.steps = Tail(job.steps)]
    BY DEF Onward
  <2>2. \E s : job' = Instead(s) \/ job' = Onward
    BY DEF Create, WriteStage, UnlinkFile, DropLink, LinkFile, RenameFile, Verify, RestoreFile
  <2> QED  BY <2>1, <2>2 DEF Instead
<1>5. JobOK'
  BY <1>4, StepsChange DEF PluginInv
<1> QED  BY <1>1, <1>3, <1>5 DEF PluginInv

-----------------------------------------------------------------------------
(* What a plan is about, as a whole: the paths it may restore, unlink and  *)
(* need, those it needs and does not make itself, those it makes and       *)
(* verifies, and those it writes.                                          *)
Planned(r, backs, unlinks, needs, open, makes, verified, writes) ==
  /\ r \in Seq(PlanStep) /\ Ordered(r) /\ verified = ActAt("verify", r)
  /\ \A a \in backs : Base(a) \notin unlinks \cup backs
  /\ \A i \in 1 .. Len(r) :
       /\ BacksOf(r[i]) \subseteq backs /\ UnlinksOf(r[i]) \subseteq unlinks
       /\ NeedsOf(r[i]) \subseteq needs /\ MadeBy(r[i]) \subseteq makes
       /\ r[i].act # "drop" /\ (r[i].act = "write" => r[i].at \in writes)
  /\ \A i \in 1 .. Len(r) : \A p \in NeedsOf(r[i]) :
       p \in open \/ \E k \in 1 .. i - 1 : p \in MadeBy(r[k])

(* A step before a plan. *)
LEMMA ConsPlanned ==
  ASSUME NEW y \in PlanStep, Single(y)', NEW r,
         NEW B, NEW U, NEW N, NEW E, NEW M, NEW V, NEW W,
         Planned(r, B, U, N, E, M, V, W)',
         NEW B2, NEW U2, NEW N2, NEW E2, NEW M2, NEW V2, NEW W2,
         B \cup BacksOf(y) \subseteq B2, U \cup UnlinksOf(y) \subseteq U2, N \cup NeedsOf(y) \subseteq N2,
         NeedsOf(y) \cup (E \ MadeBy(y)) \subseteq E2, M \cup MadeBy(y) \subseteq M2,
         V2 = V \cup VerifiedBy(y), W \subseteq W2, y.act = "write" => y.at \in W2,
         \A a \in B2 : Base(a) \notin U2 \cup B2,
         GoneBy(y) \cap N = {}, (MadeBy(y) \cup LinkedBy(y) \cup VerifiedBy(y)) \cap M = {},
         V \cap UnlinksOf(y) = {},
         y.act \notin {"restore", "drop"}, y.act = "remove" => \A i \in 1 .. Len(r) : r[i].act = "release",
         W = {} \/ y.act \in {"retain", "create"}, y.act = "rename" => y.to \in V
  PROVE  Planned(<< y >> \o r, B2, U2, N2, E2, M2, V2, W2)'
<1> DEFINE t == << y >> \o r
<1>1. /\ r \in Seq(PlanStep) /\ Ordered(r)' /\ V = ActAt("verify", r)
      /\ \A i \in 1 .. Len(r) :
           /\ BacksOf(r[i]) \subseteq B /\ UnlinksOf(r[i]) \subseteq U
           /\ NeedsOf(r[i]) \subseteq N /\ MadeBy(r[i]) \subseteq M
           /\ r[i].act # "drop" /\ (r[i].act = "write" => r[i].at \in W)
      /\ \A i \in 1 .. Len(r) : \A p \in NeedsOf(r[i]) :
           p \in E \/ \E k \in 1 .. i - 1 : p \in MadeBy(r[k])
  BY DEF Planned
<1>2. /\ t \in Seq(PlanStep) /\ Len(t) = Len(r) + 1 /\ t[1] = y
      /\ \A i \in 1 .. Len(r) : t[i + 1] = r[i]
      /\ \A i \in 1 .. Len(r) + 1 : i = 1 \/ (i - 1 \in 1 .. Len(r) /\ t[i] = r[i - 1])
  BY <1>1, ConsIs
<1>3. Len(r) \in Nat /\ \A i \in 1 .. Len(r) : r[i] \in PlanStep
  BY <1>1
<1> HIDE DEF t
<1>4. ASSUME NEW i \in 1 .. Len(t)
      PROVE  i \in Nat /\ (i # 1 => i - 1 \in 1 .. Len(r) /\ t[i] = r[i - 1])
  BY <1>2, <1>3
<1>5. ASSUME NEW i \in 1 .. Len(r) PROVE VerifiedBy(r[i]) \subseteq V
  <2>1. r[i].at \in Paths
    BY <1>3, FallsIs
  <2>2. r[i].act = "verify" => r[i].at \in ActAt("verify", r)
    BY <2>1 DEF ActAt
  <2> QED  BY <1>1, <2>2 DEF VerifiedBy
<1>6. ASSUME NEW i \in 1 .. Len(r) PROVE Apart(y, r[i]) /\ Apart(r[i], y) /\ Before(y, r[i])
  <2>1. /\ BacksOf(y) \subseteq B2 /\ UnlinksOf(y) \subseteq U2
        /\ BacksOf(r[i]) \subseteq B2 /\ UnlinksOf(r[i]) \subseteq U2
    BY <1>1
  <2>2. Apart(y, r[i]) /\ Apart(r[i], y)
    BY <2>1 DEF Apart
  <2>3. /\ NeedsOf(r[i]) \subseteq N /\ MadeBy(r[i]) \subseteq M /\ VerifiedBy(r[i]) \subseteq V
        /\ r[i].act # "drop" /\ (r[i].act = "write" => r[i].at \in W)
    BY <1>1, <1>5
  <2>4. Before(y, r[i])
    BY <2>3 DEF Before
  <2> QED  BY <2>2, <2>4
<1>7. Apart(y, y)
  <2>1. BacksOf(y) \subseteq B2 /\ UnlinksOf(y) \subseteq U2
    OBVIOUS
  <2> QED  BY <2>1 DEF Apart
<1>8. ActAt("verify", t) = V2
  <2>1. y.at \in Paths
    BY FallsIs
  <2>2. ASSUME NEW p \in ActAt("verify", t) PROVE p \in V2
    <3>1. PICK i \in 1 .. Len(t) : t[i].act = "verify" /\ t[i].at = p /\ p \in Paths
      BY DEF ActAt
    <3>2. CASE i = 1
      BY <1>2, <3>1, <3>2 DEF VerifiedBy
    <3>3. CASE i # 1
      <4>1. i - 1 \in 1 .. Len(r) /\ t[i] = r[i - 1]
        BY <1>4, <3>3
      <4>2. p \in ActAt("verify", r)
        BY <3>1, <4>1 DEF ActAt
      <4> QED  BY <1>1, <4>2
    <3> QED  BY <3>2, <3>3
  <2>3. ASSUME NEW p \in V2 PROVE p \in ActAt("verify", t)
    <3>1. CASE p \in V
      <4>1. PICK i \in 1 .. Len(r) : r[i].act = "verify" /\ r[i].at = p /\ p \in Paths
        BY <1>1, <3>1 DEF ActAt
      <4>2. i + 1 \in 1 .. Len(t) /\ t[i + 1] = r[i]
        BY <1>2, <1>3
      <4> QED  BY <4>1, <4>2 DEF ActAt
    <3>2. CASE p \in VerifiedBy(y)
      <4>1. y.act = "verify" /\ y.at = p
        BY <3>2 DEF VerifiedBy
      <4>2. 1 \in 1 .. Len(t)
        BY <1>2, <1>3
      <4> QED  BY <1>2, <2>1, <4>1, <4>2 DEF ActAt
    <3> QED  BY <3>1, <3>2
  <2> QED  BY <2>2, <2>3
<1>9. Ordered(t)'
  <2>1. ASSUME NEW i \in 1 .. Len(t) PROVE Single(t[i])'
    BY <1>1, <1>2, <1>4 DEF Ordered
  <2>2. ASSUME NEW i \in 1 .. Len(t), NEW j \in 1 .. Len(t)
        PROVE  Apart(t[i], t[j]) /\ (i < j => Before(t[i], t[j]))
    <3>1. CASE i = 1 /\ j = 1
      BY <1>2, <1>7, <3>1
    <3>2. CASE i = 1 /\ j # 1
      BY <1>2, <1>4, <1>6, <3>2
    <3>3. CASE i # 1 /\ j = 1
      <4>1. ~(i < j)
        BY <1>4, <3>3
      <4> QED  BY <1>2, <1>4, <1>6, <3>3, <4>1
    <3>4. CASE i # 1 /\ j # 1
      <4>1. i < j => i - 1 < j - 1
        BY <1>4
      <4> QED  BY <1>1, <1>4, <3>4, <4>1 DEF Ordered
    <3> QED  BY <3>1, <3>2, <3>3, <3>4
  <2>3. ASSUME NEW i \in 1 .. Len(t), t[i].act = "rename" PROVE t[i].to \in ActAt("verify", t)
    BY <1>1, <1>2, <1>4, <1>8, <2>3 DEF Ordered
  <2> QED  BY <2>1, <2>2, <2>3 DEF Ordered
<1>10. ASSUME NEW i \in 1 .. Len(t)
       PROVE  /\ BacksOf(t[i]) \subseteq B2 /\ UnlinksOf(t[i]) \subseteq U2
              /\ NeedsOf(t[i]) \subseteq N2 /\ MadeBy(t[i]) \subseteq M2
              /\ t[i].act # "drop" /\ (t[i].act = "write" => t[i].at \in W2)
  <2>1. CASE i = 1
    BY <1>2, <2>1
  <2>2. CASE i # 1
    BY <1>1, <1>4, <2>2
  <2> QED  BY <2>1, <2>2
<1>11. ASSUME NEW i \in 1 .. Len(t), NEW p \in NeedsOf(t[i])
       PROVE  p \in E2 \/ \E k \in 1 .. i - 1 : p \in MadeBy(t[k])
  <2>1. CASE i = 1
    BY <1>2, <2>1
  <2>2. CASE i # 1
    <3>1. i - 1 \in 1 .. Len(r) /\ t[i] = r[i - 1]
      BY <1>4, <2>2
    <3>2. CASE p \in E /\ p \notin MadeBy(y)
      BY <3>2
    <3>3. CASE p \in E /\ p \in MadeBy(y)
      <4>1. 1 \in 1 .. i - 1
        BY <1>4, <3>1
      <4> QED  BY <1>2, <3>3, <4>1
    <3>4. CASE \E k \in 1 .. (i - 1) - 1 : p \in MadeBy(r[k])
      <4>1. PICK k \in 1 .. (i - 1) - 1 : p \in MadeBy(r[k])
        BY <3>4
      <4>2. k + 1 \in 1 .. i - 1 /\ k \in 1 .. Len(r)
        BY <1>3, <1>4, <3>1
      <4> QED  BY <1>2, <4>1, <4>2
    <3> QED  BY <1>1, <3>1, <3>2, <3>3, <3>4
  <2> QED  BY <2>1, <2>2
<1>12. Planned(t, B2, U2, N2, E2, M2, V2, W2)'
  BY <1>2, <1>8, <1>9, <1>10, <1>11 DEF Planned
<1> QED  BY <1>12 DEF t

(* A plan is ready that needs nothing it does not make itself, makes what  *)
(* is not there yet, and unlinks nothing of the user's.                    *)
LEMMA PlannedReady ==
  ASSUME NEW t, NEW B, NEW U, NEW N, NEW M, NEW V, NEW W,
         Planned(t, B, U, N, {}, M, V, W)',
         \A p \in M : ~Present(p)',
         \A n \in users' : \E q \in Names(n)' : q \in V \/ q \notin U
  PROVE  StepsOK(t)'
<1>1. /\ t \in Seq(PlanStep) /\ Ordered(t)' /\ V = ActAt("verify", t)
      /\ \A i \in 1 .. Len(t) :
           UnlinksOf(t[i]) \subseteq U /\ MadeBy(t[i]) \subseteq M /\ t[i].act # "drop"
      /\ \A i \in 1 .. Len(t) : \A p \in NeedsOf(t[i]) : \E k \in 1 .. i - 1 : p \in MadeBy(t[k])
  BY DEF Planned
<1>2. \A p \in Doomed(t) : p \in U /\ p \notin V
  BY <1>1, InDoomed
<1>3. ASSUME NEW i \in 1 .. Len(t), t[i].act = "write" PROVE \E k \in 1 .. i - 1 : t[i].at \in MadeBy(t[k])
  BY <1>1, <1>3 DEF NeedsOf
<1>4. Ready(t)'
  <2>1. \A n \in users' : \E q \in Names(n)' : q \notin Doomed(t)
    BY <1>2
  <2>2. \A i \in 1 .. Len(t) : \A p \in MadeBy(t[i]) : ~Present(p)'
    BY <1>1
  <2> QED  BY <1>1, <1>3, <2>1, <2>2 DEF Ready
<1> QED  BY <1>1, <1>4 DEF StepsOK

(* A plan that only releases. *)
LEMMA PlannedReleases ==
  ASSUME NEW r \in Seq(PlanStep), \A i \in 1 .. Len(r) : r[i].act = "release"
  PROVE  Planned(r, {}, {}, {}, {}, {}, {}, {})'
<1>1. \A i \in 1 .. Len(r) : r[i] \in PlanStep
  OBVIOUS
<1>2. ActAt("unlink", <<>>) = {} /\ ActAt("restore", <<>>) = {}
  BY DEF ActAt
<1>3. ASSUME NEW i \in 1 .. Len(r)
      PROVE  /\ Falls(r[i]) = <<>> /\ BacksOf(r[i]) = {} /\ UnlinksOf(r[i]) = {} /\ NeedsOf(r[i]) = {}
             /\ MadeBy(r[i]) = {} /\ LinkedBy(r[i]) = {} /\ GoneBy(r[i]) = {} /\ VerifiedBy(r[i]) = {}
  <2>1. Falls(r[i]) = <<>>
    BY DEF Falls
  <2>2. BacksOf(r[i]) = {} /\ UnlinksOf(r[i]) = {}
    BY <1>2, <2>1 DEF BacksOf, UnlinksOf
  <2> QED  BY <2>1, <2>2 DEF NeedsOf, MadeBy, LinkedBy, GoneBy, VerifiedBy
<1>4. ASSUME NEW i \in 1 .. Len(r) PROVE Single(r[i])'
  <2> DEFINE x == r[i]
  <2>1. x \in PlanStep /\ x.act = "release" /\ Falls(x) = <<>> /\ BacksOf(x) = {} /\ UnlinksOf(x) = {}
    BY <1>1, <1>3
  <2> HIDE DEF x
  <2>2. \A j \in 1 .. Len(Falls(x)) : FALSE
    BY <2>1
  <2> QED  BY <2>1, <2>2 DEF Single, x
<1>5. \A i, j \in 1 .. Len(r) : Apart(r[i], r[j]) /\ Before(r[i], r[j])
  BY <1>3 DEF Apart, Before
<1>6. Ordered(r)'
  BY <1>4, <1>5 DEF Ordered
<1>7. ActAt("verify", r) = {}
  BY DEF ActAt
<1> QED  BY <1>3, <1>6, <1>7 DEF Planned

(* What a fallback may restore and unlink. *)
FallOK(o, backs, unlinks) ==
  /\ o \in Seq(FallStep)
  /\ ActAt("restore", o) = backs /\ ActAt("unlink", o) = unlinks
  /\ \A i, j \in 1 .. Len(o) : i < j => GoneBy(o[i]) \cap NeedsOf(o[j]) = {}

(* A step that does nothing to a file. *)
LEMMA ConsQuiet ==
  ASSUME NEW act \in {"retain", "release", "gone", "fail"}, NEW p \in Paths, NEW r,
         NEW B, NEW U, NEW N, NEW E, NEW M, NEW V, NEW W,
         Planned(r, B, U, N, E, M, V, W)', W = {} \/ act = "retain"
  PROVE  Planned(<< S(act, p) >> \o r, B, U, N, E, M, V, W)'
<1> DEFINE y == S(act, p)
<1>1. y \in PlanStep /\ y.act = act
  BY DEF S, PlanStep
<1>2. ActAt("unlink", <<>>) = {} /\ ActAt("restore", <<>>) = {}
  BY DEF ActAt
<1> HIDE DEF y
<1>3. Falls(y) = <<>>
  BY <1>1 DEF Falls
<1>4. BacksOf(y) = {} /\ UnlinksOf(y) = {} /\ NeedsOf(y) = {}
      /\ MadeBy(y) = {} /\ LinkedBy(y) = {} /\ GoneBy(y) = {} /\ VerifiedBy(y) = {}
  BY <1>1, <1>2, <1>3 DEF BacksOf, UnlinksOf, NeedsOf, MadeBy, LinkedBy, GoneBy, VerifiedBy
<1>5. Single(y)'
  <2>1. \A j \in 1 .. Len(Falls(y)) : FALSE
    BY <1>3
  <2> QED  BY <1>1, <1>4, <2>1 DEF Single
<1>6. \A a \in B : Base(a) \notin U \cup B
  BY DEF Planned
<1>7. Planned(<< y >> \o r, B, U, N, E, M, V, W)'
  BY <1>1, <1>4, <1>5, <1>6, ConsPlanned
<1> QED  BY <1>7 DEF y

(* A name that nothing later needs is unlinked before a plan,              *)
LEMMA ConsUnlink ==
  ASSUME NEW p \in Paths, Long(p), NEW r,
         NEW B, NEW U, NEW N, NEW E, NEW M, NEW V,
         Planned(r, B, U, N, E, M, V, {})', p \notin N, p \notin V, \A a \in B : Base(a) # p,
         NEW U2, U2 = U \cup {p}
  PROVE  Planned(<< S("unlink", p) >> \o r, B, U2, N, E, M, V, {})'
<1> DEFINE y == S("unlink", p)
<1>1. y \in PlanStep /\ y.act = "unlink" /\ y.at = p
  BY DEF S, PlanStep
<1>2. ActAt("unlink", <<>>) = {} /\ ActAt("restore", <<>>) = {}
  BY DEF ActAt
<1> HIDE DEF y
<1>3. Falls(y) = <<>>
  BY <1>1 DEF Falls
<1>4. BacksOf(y) = {} /\ UnlinksOf(y) = {p} /\ NeedsOf(y) = {}
      /\ MadeBy(y) = {} /\ LinkedBy(y) = {} /\ GoneBy(y) = {p} /\ VerifiedBy(y) = {}
  BY <1>1, <1>2, <1>3 DEF BacksOf, UnlinksOf, NeedsOf, MadeBy, LinkedBy, GoneBy, VerifiedBy
<1>5. Single(y)'
  <2>1. \A j \in 1 .. Len(Falls(y)) : FALSE
    BY <1>3
  <2> QED  BY <1>1, <1>4, <2>1 DEF Single
<1>6. \A a \in B : Base(a) \notin U2 \cup B
  BY DEF Planned
<1>7. Planned(<< y >> \o r, B, U2, N, E, M, V, {})'
  BY <1>1, <1>4, <1>5, <1>6, ConsPlanned
<1> QED  BY <1>7 DEF y

(* The canonical file that a stage was linked to goes last. *)
LEMMA ConsRemove ==
  ASSUME NEW p \in Paths, NEW r \in Seq(PlanStep), \A i \in 1 .. Len(r) : r[i].act = "release"
  PROVE  Planned(<< S("remove", p) >> \o r, {}, {}, {}, {}, {}, {}, {})'
<1> DEFINE y == S("remove", p)
<1>1. y \in PlanStep /\ y.act = "remove"
  BY DEF S, PlanStep
<1>2. ActAt("unlink", <<>>) = {} /\ ActAt("restore", <<>>) = {}
  BY DEF ActAt
<1> HIDE DEF y
<1>3. Falls(y) = <<>>
  BY <1>1 DEF Falls
<1>4. BacksOf(y) = {} /\ UnlinksOf(y) = {} /\ NeedsOf(y) = {}
      /\ MadeBy(y) = {} /\ LinkedBy(y) = {} /\ GoneBy(y) = {} /\ VerifiedBy(y) = {}
  BY <1>1, <1>2, <1>3 DEF BacksOf, UnlinksOf, NeedsOf, MadeBy, LinkedBy, GoneBy, VerifiedBy
<1>5. Single(y)'
  <2>1. \A j \in 1 .. Len(Falls(y)) : FALSE
    BY <1>3
  <2> QED  BY <1>1, <1>4, <2>1 DEF Single
<1>6. Planned(r, {}, {}, {}, {}, {}, {}, {})'
  BY PlannedReleases
<1>7. Planned(<< y >> \o r, {}, {}, {}, {}, {}, {}, {})'
  BY <1>1, <1>4, <1>5, <1>6, ConsPlanned
<1> QED  BY <1>7 DEF y

(* a file of ours created before it,                                       *)
LEMMA ConsCreate ==
  ASSUME NEW p \in Paths, Long(p), Numbered(p)', NEW r,
         NEW B, NEW U, NEW N, NEW E, NEW M, NEW V, NEW W,
         Planned(r, B, U, N, E, M, V, W)', p \notin M,
         NEW E2, NEW M2, E2 = E \ {p}, M2 = M \cup {p}
  PROVE  Planned(<< S("create", p) >> \o r, B, U, N, E2, M2, V, W)'
<1> DEFINE y == S("create", p)
<1>1. y \in PlanStep /\ y.act = "create" /\ y.at = p
  BY DEF S, PlanStep
<1>2. ActAt("unlink", <<>>) = {} /\ ActAt("restore", <<>>) = {}
  BY DEF ActAt
<1> HIDE DEF y
<1>3. Falls(y) = <<>>
  BY <1>1 DEF Falls
<1>4. BacksOf(y) = {} /\ UnlinksOf(y) = {} /\ NeedsOf(y) = {}
      /\ MadeBy(y) = {p} /\ LinkedBy(y) = {} /\ GoneBy(y) = {} /\ VerifiedBy(y) = {}
  BY <1>1, <1>2, <1>3 DEF BacksOf, UnlinksOf, NeedsOf, MadeBy, LinkedBy, GoneBy, VerifiedBy
<1>5. Single(y)'
  <2>1. \A j \in 1 .. Len(Falls(y)) : FALSE
    BY <1>3
  <2> QED  BY <1>1, <1>4, <2>1 DEF Single
<1>6. \A a \in B : Base(a) \notin U \cup B
  BY DEF Planned
<1>7. Planned(<< y >> \o r, B, U, N, E2, M2, V, W)'
  BY <1>1, <1>4, <1>5, <1>6, ConsPlanned
<1> QED  BY <1>7 DEF y

(* and written,                                                            *)
LEMMA ConsWrite ==
  ASSUME NEW p \in Paths, Long(p), NEW r,
         NEW B, NEW U, NEW N, NEW E, NEW M, NEW V,
         Planned(r, B, U, N, E, M, V, {})',
         NEW N2, NEW E2, N2 = N \cup {p}, E2 = E \cup {p}
  PROVE  Planned(<< S("write", p) >> \o r, B, U, N2, E2, M, V, {p})'
<1> DEFINE y == S("write", p)
<1>1. y \in PlanStep /\ y.act = "write" /\ y.at = p
  BY DEF S, PlanStep
<1>2. ActAt("unlink", <<>>) = {} /\ ActAt("restore", <<>>) = {}
  BY DEF ActAt
<1> HIDE DEF y
<1>3. Falls(y) = <<>>
  BY <1>1 DEF Falls
<1>4. BacksOf(y) = {} /\ UnlinksOf(y) = {} /\ NeedsOf(y) = {p}
      /\ MadeBy(y) = {} /\ LinkedBy(y) = {} /\ GoneBy(y) = {} /\ VerifiedBy(y) = {}
  BY <1>1, <1>2, <1>3 DEF BacksOf, UnlinksOf, NeedsOf, MadeBy, LinkedBy, GoneBy, VerifiedBy
<1>5. Single(y)'
  <2>1. \A j \in 1 .. Len(Falls(y)) : FALSE
    BY <1>3
  <2> QED  BY <1>1, <1>4, <2>1 DEF Single
<1>6. \A a \in B : Base(a) \notin U \cup B
  BY DEF Planned
<1>7. Planned(<< y >> \o r, B, U, N2, E2, M, V, {p})'
  BY <1>1, <1>4, <1>5, <1>6, ConsPlanned
<1> QED  BY <1>7 DEF y

(* a file moved aside, which the plan verifies,                            *)
LEMMA ConsRename ==
  ASSUME NEW p \in Paths, NEW to \in Paths, Long(to), to[1] = p[1], Numbered(to)', NEW o, NEW u,
         FallOK(o, {}, u), \A q \in u : Long(q), NEW r,
         NEW B, NEW U, NEW N, NEW E, NEW M, NEW V,
         Planned(r, B, U, N, E, M, V, {})', p \notin N, to \notin M, to \in V, V \cap u = {},
         NEW U2, NEW E2, NEW M2, U2 = U \cup u, E2 = E \ {to}, M2 = M \cup {to},
         \A a \in B : Base(a) \notin u
  PROVE  Planned(<< Move("rename", p, to, o) >> \o r, B, U2, N, E2, M2, V, {})'
<1> DEFINE y == Move("rename", p, to, o)
<1>1. y \in PlanStep /\ y.act = "rename" /\ y.at = p /\ y.to = to /\ y.otherwise = o
  BY DEF Move, PlanStep, FallOK
<1> HIDE DEF y
<1>3. Falls(y) = o
  BY <1>1 DEF Falls
<1>2. ActAt("unlink", o) = u /\ ActAt("restore", o) = {}
  BY DEF FallOK
<1>4. BacksOf(y) = {} /\ UnlinksOf(y) = u /\ NeedsOf(y) = {}
      /\ MadeBy(y) = {to} /\ LinkedBy(y) = {} /\ GoneBy(y) = {p} /\ VerifiedBy(y) = {}
  BY <1>1, <1>2, <1>3 DEF BacksOf, UnlinksOf, NeedsOf, MadeBy, LinkedBy, GoneBy, VerifiedBy
<1>5. Single(y)'
  BY <1>1, <1>3, <1>4 DEF Single, FallOK
<1>6. \A a \in B : Base(a) \notin U2 \cup B
  BY DEF Planned
<1>7. Planned(<< y >> \o r, B, U2, N, E2, M2, V, {})'
  BY <1>1, <1>4, <1>5, <1>6, ConsPlanned
<1> QED  BY <1>7 DEF y

(* and verified,                                                           *)
LEMMA ConsVerify ==
  ASSUME NEW p \in Paths, BackOK(p)', NEW to \in Paths, NEW inode \in Nat, NEW was \in Ours, NEW o, NEW u,
         FallOK(o, {}, u), p \notin u, \A q \in u : Long(q), NEW r,
         NEW B, NEW U, NEW N, NEW E, NEW M, NEW V,
         Planned(r, B, U, N, E, M, V, {})', p \notin M, V \cap u = {},
         NEW B2, NEW U2, NEW N2, NEW E2, NEW V2, B2 = B \cup {p}, U2 = U \cup u, N2 = N \cup {p},
         E2 = E \cup {p}, V2 = V \cup {p},
         \A a \in B2 : Base(a) \notin U2 \cup B2
  PROVE  Planned(<< [act |-> "verify", at |-> p, to |-> to, file |-> inode, was |-> was, otherwise |-> o] >> \o r,
                 B2, U2, N2, E2, M, V2, {})'
<1> DEFINE y == [act |-> "verify", at |-> p, to |-> to, file |-> inode, was |-> was, otherwise |-> o]
<1>1. y \in PlanStep /\ y.act = "verify" /\ y.at = p /\ y.otherwise = o
  BY DEF PlanStep, FallOK
<1> HIDE DEF y
<1>3. Falls(y) = o
  BY <1>1 DEF Falls
<1>2. ActAt("unlink", o) = u /\ ActAt("restore", o) = {}
  BY DEF FallOK
<1>4. BacksOf(y) = {p} /\ UnlinksOf(y) = u /\ NeedsOf(y) = {p}
      /\ MadeBy(y) = {} /\ LinkedBy(y) = {} /\ GoneBy(y) = {} /\ VerifiedBy(y) = {p}
  BY <1>1, <1>2, <1>3 DEF BacksOf, UnlinksOf, NeedsOf, MadeBy, LinkedBy, GoneBy, VerifiedBy
<1>5. Single(y)'
  BY <1>1, <1>2, <1>3, <1>4 DEF Single, FallOK
<1>7. Planned(<< y >> \o r, B2, U2, N2, E2, M, V2, {})'
  BY <1>1, <1>4, <1>5, ConsPlanned
<1> QED  BY <1>7 DEF y

(* a file linked,                                                          *)
LEMMA ConsLink ==
  ASSUME NEW p \in Paths, Long(p), NEW to \in Paths, to[1] = p[1], Numbered(to)', NEW o, NEW b, NEW u,
         FallOK(o, b, u), \A q \in u : Long(q), \A q \in b : BackOK(q)', NEW r,
         NEW B, NEW U, NEW N, NEW E, NEW M, NEW V,
         Planned(r, B, U, N, E, M, V, {})', to \notin M, V \cap u = {},
         NEW B2, NEW U2, NEW N2, NEW E2, B2 = B \cup b, U2 = U \cup u, N2 = N \cup b \cup {p},
         E2 = E \cup b \cup {p},
         \A a \in B2 : Base(a) \notin U2 \cup B2
  PROVE  Planned(<< Move("link", p, to, o) >> \o r, B2, U2, N2, E2, M, V, {})'
<1> DEFINE y == Move("link", p, to, o)
<1>1. y \in PlanStep /\ y.act = "link" /\ y.at = p /\ y.to = to /\ y.otherwise = o
  BY DEF Move, PlanStep, FallOK
<1> HIDE DEF y
<1>3. Falls(y) = o
  BY <1>1 DEF Falls
<1>2. ActAt("unlink", o) = u /\ ActAt("restore", o) = b
  BY DEF FallOK
<1>4. BacksOf(y) = b /\ UnlinksOf(y) = u /\ NeedsOf(y) = b \cup {p}
      /\ MadeBy(y) = {} /\ LinkedBy(y) = {to} /\ GoneBy(y) = {} /\ VerifiedBy(y) = {}
  BY <1>1, <1>2, <1>3 DEF BacksOf, UnlinksOf, NeedsOf, MadeBy, LinkedBy, GoneBy, VerifiedBy
<1>5. Single(y)'
  BY <1>1, <1>3, <1>4 DEF Single, FallOK
<1>7. Planned(<< y >> \o r, B2, U2, N2, E2, M, V, {})'
  BY <1>1, <1>4, <1>5, ConsPlanned
<1> QED  BY <1>7 DEF y

(* or the published plugin looked at.                                      *)
LEMMA ConsCurrent ==
  ASSUME NEW p \in Paths, NEW o, NEW b, NEW u,
         FallOK(o, b, u), \A q \in u : Long(q), \A q \in b : BackOK(q)', NEW r,
         NEW B, NEW U, NEW N, NEW E, NEW M, NEW V,
         Planned(r, B, U, N, E, M, V, {})', V \cap u = {},
         NEW B2, NEW U2, NEW N2, NEW E2, B2 = B \cup b, U2 = U \cup u, N2 = N \cup b, E2 = E \cup b,
         \A a \in B2 : Base(a) \notin U2 \cup B2
  PROVE  Planned(<< [act |-> "current", at |-> p, otherwise |-> o] >> \o r, B2, U2, N2, E2, M, V, {})'
<1> DEFINE y == [act |-> "current", at |-> p, otherwise |-> o]
<1>1. y \in PlanStep /\ y.act = "current" /\ y.at = p /\ y.otherwise = o
  BY DEF PlanStep, FallOK
<1> HIDE DEF y
<1>3. Falls(y) = o
  BY <1>1 DEF Falls
<1>2. ActAt("unlink", o) = u /\ ActAt("restore", o) = b
  BY DEF FallOK
<1>4. BacksOf(y) = b /\ UnlinksOf(y) = u /\ NeedsOf(y) = b
      /\ MadeBy(y) = {} /\ LinkedBy(y) = {} /\ GoneBy(y) = {} /\ VerifiedBy(y) = {}
  BY <1>1, <1>2, <1>3 DEF BacksOf, UnlinksOf, NeedsOf, MadeBy, LinkedBy, GoneBy, VerifiedBy
<1>5. Single(y)'
  BY <1>1, <1>3, <1>4 DEF Single, FallOK
<1>7. Planned(<< y >> \o r, B2, U2, N2, E2, M, V, {})'
  BY <1>1, <1>4, <1>5, ConsPlanned
<1> QED  BY <1>7 DEF y

(* The steps that a fallback is makes of. *)
LEMMA FallCons ==
  ASSUME NEW act \in {"release", "unlink", "restore", "fail"}, NEW p \in Paths, NEW o, NEW b, NEW u,
         FallOK(o, b, u), act \in {"unlink", "restore"} => p \notin b,
         NEW b2, b2 = IF act = "restore" THEN b \cup {p} ELSE b,
         NEW u2, u2 = IF act = "unlink" THEN u \cup {p} ELSE u
  PROVE  FallOK(<< S(act, p) >> \o o, b2, u2)
<1> DEFINE y == S(act, p)
           t == << y >> \o o
<1>1. y \in FallStep /\ y.act = act /\ y.at = p
  BY DEF S, FallStep
<1>2. ActAt("unlink", <<>>) = {} /\ ActAt("restore", <<>>) = {}
  BY DEF ActAt
<1> HIDE DEF y
<1>3. Falls(y) = <<>>
  BY <1>1 DEF Falls
<1>4. GoneBy(y) \subseteq (IF act \in {"unlink", "restore"} THEN {p} ELSE {})
  BY <1>1 DEF GoneBy
<1>5. /\ o \in Seq(FallStep) /\ ActAt("restore", o) = b /\ ActAt("unlink", o) = u
      /\ \A i, j \in 1 .. Len(o) : i < j => GoneBy(o[i]) \cap NeedsOf(o[j]) = {}
  BY DEF FallOK
<1>6. /\ t \in Seq(FallStep) /\ Len(t) = Len(o) + 1 /\ t[1] = y
      /\ \A i \in 1 .. Len(o) : t[i + 1] = o[i]
      /\ \A i \in 1 .. Len(o) + 1 : i = 1 \/ (i - 1 \in 1 .. Len(o) /\ t[i] = o[i - 1])
  BY <1>1, <1>5, ConsIs
<1>7. Len(o) \in Nat /\ \A i \in 1 .. Len(o) : o[i] \in FallStep
  BY <1>5
<1> HIDE DEF t
<1>8. ASSUME NEW i \in 1 .. Len(t)
      PROVE  i \in Nat /\ (i # 1 => i - 1 \in 1 .. Len(o) /\ t[i] = o[i - 1])
  BY <1>6, <1>7
<1>9. ASSUME NEW k \in {"restore", "unlink"}
      PROVE  ActAt(k, t) = ActAt(k, o) \cup (IF act = k THEN {p} ELSE {})
  <2>1. ASSUME NEW q \in ActAt(k, t) PROVE q \in ActAt(k, o) \cup (IF act = k THEN {p} ELSE {})
    <3>1. PICK i \in 1 .. Len(t) : t[i].act = k /\ t[i].at = q /\ q \in Paths
      BY DEF ActAt
    <3>2. CASE i = 1
      BY <1>1, <1>6, <3>1, <3>2
    <3>3. CASE i # 1
      BY <1>8, <3>1, <3>3 DEF ActAt
    <3> QED  BY <3>2, <3>3
  <2>2. ASSUME NEW q \in ActAt(k, o) PROVE q \in ActAt(k, t)
    <3>1. PICK i \in 1 .. Len(o) : o[i].act = k /\ o[i].at = q /\ q \in Paths
      BY DEF ActAt
    <3>2. i + 1 \in 1 .. Len(t) /\ t[i + 1] = o[i]
      BY <1>6, <1>7
    <3> QED  BY <3>1, <3>2 DEF ActAt
  <2>3. ASSUME act = k PROVE p \in ActAt(k, t)
    <3>1. 1 \in 1 .. Len(t) /\ t[1].act = k /\ t[1].at = p
      BY <1>1, <1>6, <1>7, <2>3
    <3> QED  BY <3>1 DEF ActAt
  <2> QED  BY <2>1, <2>2, <2>3
<1>10. ActAt("restore", t) = b2 /\ ActAt("unlink", t) = u2
  BY <1>5, <1>9
<1>11. ASSUME NEW i \in 1 .. Len(t), NEW j \in 1 .. Len(t), i < j
       PROVE  GoneBy(t[i]) \cap NeedsOf(t[j]) = {}
  <2>1. j # 1 /\ j - 1 \in 1 .. Len(o) /\ t[j] = o[j - 1]
    BY <1>8, <1>11
  <2>2. CASE i = 1
    <3>1. NeedsOf(t[j]) \subseteq b
      <4>1. PICK x : x = o[j - 1]
        OBVIOUS
      <4>2. x \in FallStep /\ t[j] = x
        BY <1>7, <2>1, <4>1
      <4>3. x.act \in {"release", "unlink", "restore", "fail"} /\ x.at \in Paths /\ Falls(x) = <<>>
        BY <4>2 DEF FallStep, Falls
      <4>4. x.act = "restore" => x.at \in b
        BY <1>5, <2>1, <4>1, <4>3 DEF ActAt
      <4>5. NeedsOf(x) \subseteq b
        BY <1>2, <4>3, <4>4 DEF NeedsOf, BacksOf
      <4> QED  BY <4>2, <4>5
    <3> QED  BY <1>4, <1>6, <2>2, <3>1
  <2>3. CASE i # 1
    <3>1. i - 1 \in 1 .. Len(o) /\ t[i] = o[i - 1] /\ i - 1 < j - 1
      BY <1>8, <1>11, <2>3
    <3> QED  BY <1>5, <2>1, <3>1
  <2> QED  BY <2>2, <2>3
<1>12. FallOK(t, b2, u2)
  BY <1>6, <1>10, <1>11 DEF FallOK
<1> QED  BY <1>12 DEF t, y

(* No fallback at all.                                                     *)
LEMMA FallNone == FallOK(<<>>, {}, {})
BY DEF FallOK, ActAt

(* The fallbacks of the plans. *)
LEMMA Fallbacks ==
  ASSUME NEW path \in Paths
  PROVE  /\ FallOK(<< S("fail", path) >>, {}, {})
         /\ \A staged \in Paths :
              /\ FallOK(Discard(staged) \o << S("fail", path) >>, {}, {staged})
              /\ \A aside \in Paths : aside # staged =>
                   /\ FallOK(<< S("restore", aside) >> \o << S("fail", path) >>, {aside}, {})
                   /\ FallOK(<< S("restore", aside) >> \o Discard(staged) \o << S("fail", path) >>,
                             {aside}, {staged})
<1> DEFINE f == S("fail", path)
<1>1. FallOK(<< f >>, {}, {})
  <2>1. << f >> \o <<>> = << f >>
    OBVIOUS
  <2> HIDE DEF f
  <2>2. FallOK(<< S("fail", path) >> \o <<>>, {}, {})
    BY FallNone, FallCons
  <2> QED  BY <2>1, <2>2 DEF f
<1>2. ASSUME NEW staged \in Paths PROVE FallOK(Discard(staged) \o << f >>, {}, {staged})
  <2> DEFINE g == S("release", staged)
             h == S("unlink", staged)
  <2>1. FallOK(<< g >> \o << f >>, {}, {})
    BY <1>1, FallCons
  <2>2. FallOK(<< h >> \o (<< g >> \o << f >>), {}, {staged})
    BY <2>1, FallCons
  <2>3. f \in FallStep /\ g \in FallStep /\ h \in FallStep
    BY DEF S, FallStep
  <2> HIDE DEF f, g, h
  <2>4. << f >> \in Seq(FallStep)
    BY <2>3
  <2>5. << h, g >> \o << f >> = << h >> \o (<< g >> \o << f >>)
    BY <2>3, <2>4, Cons2
  <2> QED  BY <2>2, <2>5, Zenon DEF Discard, g, h
<1>3. ASSUME NEW staged \in Paths, NEW aside \in Paths, aside # staged
      PROVE  /\ FallOK(<< S("restore", aside) >> \o << f >>, {aside}, {})
             /\ FallOK(<< S("restore", aside) >> \o Discard(staged) \o << f >>, {aside}, {staged})
  <2>1. FallOK(<< S("restore", aside) >> \o << f >>, {aside}, {})
    BY <1>1, FallCons
  <2>2. FallOK(Discard(staged) \o << f >>, {}, {staged})
    BY <1>2
  <2>3. FallOK(<< S("restore", aside) >> \o (Discard(staged) \o << f >>), {aside}, {staged})
    BY <2>2, FallCons
  <2>4. S("restore", aside) \in FallStep /\ S("unlink", staged) \in FallStep /\ S("release", staged) \in FallStep
        /\ f \in FallStep
    BY DEF S, FallStep
  <2>5. << S("restore", aside) >> \in Seq(FallStep) /\ Discard(staged) \in Seq(FallStep) /\ << f >> \in Seq(FallStep)
    BY <2>4 DEF Discard
  <2>6. << S("restore", aside) >> \o Discard(staged) \o << f >>
          = << S("restore", aside) >> \o (Discard(staged) \o << f >>)
    BY <2>5, ConcatAssociative
  <2> QED  BY <2>1, <2>3, <2>6, Zenon
<1> QED  BY <1>1, <1>2, <1>3 DEF f

(* A fresh name: nothing is there, and it goes with the path beside it.    *)
LEMMA FreshName ==
  ASSUME DirOK, NEW path \in Paths, NEW kind \in {"stage", "probe", "quarantine"},
         NEW b, b = Beside(path, kind), UNCHANGED dir, used'.names = used.names + 1
  PROVE  /\ b \in Paths /\ Long(b) /\ Len(b) = Len(path) + 2 /\ b[1] = path[1] /\ Base(b) = path /\ b # path
         /\ b[Len(path) + 1] = kind /\ Numbered(b)' /\ ~Present(b) /\ ~Present(b)'
<1>1. used.names \in Nat
  BY DEF DirOK
<1>2. /\ b \in Paths /\ Long(b) /\ Len(b) = Len(path) + 2 /\ b[1] = path[1]
      /\ b[Len(b)] = used.names + 1 /\ b[Len(path) + 1] = kind /\ Base(b) = path
  BY <1>1, BesideIs
<1>3. Numbered(b)'
  BY <1>1, <1>2 DEF Numbered
<1>4. ~Present(b)
  BY <1>1, <1>2 DEF DirOK, Present, Numbered
<1>5. ~Present(b)'
  BY <1>4 DEF Present
<1>6. b # path
  BY <1>2 DEF Paths
<1> QED  BY <1>2, <1>3, <1>4, <1>5, <1>6

(* The name for what is moved aside is new.                                *)
LEMMA AsideName ==
  ASSUME DirOK, NEW path \in Paths, NEW b, b = Beside(path, "quarantine"), dir' = dir,
         used'.names = used.names + 1
  PROVE  /\ b \in Paths /\ Long(b) /\ Len(b) = Len(path) + 2 /\ b[1] = path[1] /\ Base(b) = path /\ b # path
         /\ b[Len(path) + 1] = "quarantine" /\ Numbered(b)' /\ ~Present(b) /\ ~Present(b)'
<1>1. PICK k \in {"stage", "probe", "quarantine"} : k = "quarantine"
  OBVIOUS
<1>2. b = Beside(path, k)
  BY <1>1
<1>3. /\ b \in Paths /\ Long(b) /\ Len(b) = Len(path) + 2 /\ b[1] = path[1] /\ Base(b) = path /\ b # path
      /\ b[Len(path) + 1] = k /\ Numbered(b)' /\ ~Present(b) /\ ~Present(b)'
  BY <1>2, FreshName, Zenon
<1> QED  BY <1>1, <1>3

(* A file of ours is not the user's. *)
LEMMA NotUsers ==
  ASSUME DirOK, NEW f, body[f] \in {"torn", "current", "older"}
  PROVE  f \notin users
BY DEF DirOK

(* A path beside another is long, the directory's own is not. *)
LEMMA KindIs ==
  ASSUME NEW p \in Paths
  PROVE  /\ Kind(p) # "canonical" => Long(p)
         /\ Canonical(p) \in Canon /\ Canonical(p) \in Paths /\ Canonical(p)[1] = p[1]
         /\ ~Long(p) => p = Canonical(p)
<1> DEFINE U == Home \cup Nat \cup {"stage", "probe", "quarantine"}
<1>1. p \in Seq(U) /\ Len(p) \in Nat /\ Len(p) >= 1 /\ p[1] \in U
  BY DEF Paths
<1> HIDE DEF U
<1>2. << p[1] >> \in Seq(U) /\ Len(<< p[1] >>) = 1 /\ << p[1] >>[1] = p[1]
  BY <1>1
<1>3. Canonical(p) \in Canon /\ Canonical(p) \in Paths /\ Canonical(p)[1] = p[1]
  BY <1>2 DEF Canonical, Canon, Paths, U
<1>6. Len(p) = 1 \/ Len(p) > 1
  <2>1. \A n \in Nat : n >= 1 => n = 1 \/ n > 1
    OBVIOUS
  <2> QED  BY <1>1, <2>1
<1>4. ~Long(p) => p = << p[1] >>
  <2>1. SUFFICES ASSUME ~Long(p) PROVE p = << p[1] >>
    OBVIOUS
  <2>2. Len(p) = 1
    BY <1>6, <2>1 DEF Long
  <2>3. \A i \in 1 .. 1 : p[i] = << p[1] >>[i]
    BY <1>2
  <2> QED  BY <1>1, <1>2, <2>2, <2>3, SeqEqual
<1>5. Kind(p) # "canonical" => Long(p)
  BY <1>6 DEF Kind, Long
<1> QED  BY <1>3, <1>4, <1>5 DEF Canonical

(* Lists put together in pieces. *)
LEMMA Pieces ==
  ASSUME NEW U, NEW a \in Seq(U), NEW b \in Seq(U), NEW c \in Seq(U)
  PROVE  (a \o b) \o c = a \o (b \o c) /\ a \o b \in Seq(U) /\ b \o c \in Seq(U)
BY ConcatAssociative

(* Three steps in front of a plan.                                         *)
LEMMA PlanCons ==
  ASSUME NEW x \in PlanStep, NEW y \in PlanStep, NEW z \in PlanStep, NEW r \in Seq(PlanStep)
  PROVE  << x, y, z >> \o r = << x >> \o (<< y >> \o (<< z >> \o r))
<1>1. PICK P : P = PlanStep
  OBVIOUS
<1>2. x \in P /\ y \in P /\ z \in P /\ r \in Seq(P)
  BY <1>1
<1> QED  BY <1>2, Cons3, SMTT(40)

(* A file is dropped under a name and the name is released. *)
LEMMA ConsDiscard ==
  ASSUME NEW p \in Paths, Long(p), NEW r,
         NEW B, NEW U, NEW N, NEW E, NEW M, NEW V,
         Planned(r, B, U, N, E, M, V, {})', p \notin N, p \notin V, \A a \in B : Base(a) # p,
         NEW U2, U2 = U \cup {p}
  PROVE  Planned(Discard(p) \o r, B, U2, N, E, M, V, {})'
<1> DEFINE l == S("release", p)
           u == S("unlink", p)
<1>1. l \in PlanStep /\ u \in PlanStep /\ r \in Seq(PlanStep)
  BY DEF S, PlanStep, Planned
<1>2. Planned(<< l >> \o r, B, U, N, E, M, V, {})'
  BY ConsQuiet
<1> DEFINE t1 == << l >> \o r
<1> HIDE DEF t1
<1>3. Planned(t1, B, U, N, E, M, V, {})'
  BY <1>2 DEF t1
<1>4. Planned(<< u >> \o t1, B, U2, N, E, M, V, {})'
  BY <1>3, ConsUnlink
<1> HIDE DEF l, u
<1>5. << u, l >> \o r = << u >> \o t1
  BY <1>1, Cons2 DEF t1
<1>6. Discard(p) \o r = << u >> \o t1
  BY <1>5, Zenon DEF Discard, u, l
<1> QED  BY <1>4, <1>6

(* What a plan must be to follow a file's move aside. *)
Movable(path, aside, o, u, r, B, U, N, E, M, V) ==
  /\ path \in Paths /\ aside \in Paths /\ Long(aside) /\ aside[1] = path[1] /\ Base(aside) = path
  /\ aside # path /\ Numbered(aside) /\ Numbered(path)
  /\ FallOK(o, {}, u) /\ aside \notin u /\ path \notin u /\ \A q \in u : Long(q)
  /\ Planned(r, B, U, N, E, M, V, {}) /\ aside \notin M /\ V \cap u = {} /\ path \notin N
  /\ \A a \in B \cup {aside} : Base(a) \notin U \cup u \cup B \cup {aside}

(* A file is moved aside. *)
LEMMA ConsQuarantine ==
  ASSUME NEW path, NEW aside, NEW o, NEW u, NEW r, NEW B, NEW U, NEW N, NEW E, NEW M, NEW V,
         Movable(path, aside, o, u, r, B, U, N, E, M, V)', dir[path] \in Nat, body[dir[path]] \in Ours,
         NEW B2, B2 = B \cup {aside}, NEW U2, U2 = U \cup u, NEW N2, N2 = N \cup {aside},
         NEW E2, E2 = E \ {aside}, NEW M2, M2 = M \cup {aside}, NEW V2, V2 = V \cup {aside},
         NEW s, s = Quarantine(path, aside, o) \o r
  PROVE  Planned(s, B2, U2, N2, E2, M2, V2, {})'
<1>17. /\ path \in Paths /\ aside \in Paths /\ Long(aside) /\ aside[1] = path[1] /\ Base(aside) = path
       /\ aside # path /\ Numbered(aside)' /\ Numbered(path)'
       /\ FallOK(o, {}, u) /\ aside \notin u /\ path \notin u /\ \A q \in u : Long(q)
       /\ Planned(r, B, U, N, E, M, V, {})' /\ aside \notin M /\ V \cap u = {} /\ path \notin N
       /\ \A a \in B \cup {aside} : Base(a) \notin U \cup u \cup B \cup {aside}
  BY DEF Movable
<1>1. PICK inode \in Nat, was \in Ours : inode = dir[path] /\ was = body[dir[path]]
  OBVIOUS
<1> DEFINE v == [act |-> "verify", at |-> aside, to |-> path, file |-> inode, was |-> was, otherwise |-> o]
           m == Move("rename", path, aside, o)
           n == S("retain", aside)
<1>2. BackOK(aside)'
  BY <1>17 DEF BackOK
<1>3. r \in Seq(PlanStep)
  BY <1>17 DEF Planned
<1>4. n \in PlanStep /\ m \in PlanStep /\ v \in PlanStep
  BY <1>17 DEF S, Move, PlanStep, FallOK
<1>5. PICK E1 : E1 = E \cup {aside}
  OBVIOUS
<1>6. \A a \in B2 : Base(a) \notin U2 \cup B2
  BY <1>17
<1>7. Planned(<< v >> \o r, B2, U2, N2, E1, M, V2, {})'
  BY <1>2, <1>5, <1>6, <1>17, ConsVerify
<1> DEFINE t1 == << v >> \o r
<1> HIDE DEF t1
<1>8. Planned(t1, B2, U2, N2, E1, M, V2, {})'
  BY <1>7 DEF t1
<1>9. E2 = E1 \ {aside} /\ U2 = U2 \cup u /\ aside \in V2 /\ V2 \cap u = {} /\ path \notin N2
      /\ \A a \in B2 : Base(a) \notin u
  BY <1>5, <1>6, <1>17
<1>10. Planned(<< m >> \o t1, B2, U2, N2, E2, M2, V2, {})'
  BY <1>8, <1>9, <1>17, ConsRename
<1> DEFINE t2 == << m >> \o t1
<1> HIDE DEF t2
<1>11. Planned(t2, B2, U2, N2, E2, M2, V2, {})'
  BY <1>10 DEF t2
<1>12. Planned(<< n >> \o t2, B2, U2, N2, E2, M2, V2, {})'
  BY <1>11, <1>17, ConsQuiet
<1>14. Quarantine(path, aside, o) = << n, m, v >>
  BY <1>1 DEF Quarantine
<1> HIDE DEF n, m, v
<1>15. t1 = << v >> \o r /\ t2 = << m >> \o t1
  BY Zenon DEF t2, t1
<1>13. << n, m, v >> \o r = << n >> \o t2
  <2>1. << n, m, v >> \o r = << n >> \o (<< m >> \o (<< v >> \o r))
    BY <1>3, <1>4, PlanCons, SMTT(40)
  <2> QED  BY <1>15, <2>1, Zenon
<1>16. s = << n >> \o t2
  BY <1>13, <1>14
<1> QED  BY <1>12, <1>16

(* reconcileOpenCodePlugin, desired: false: what it plans for a file is    *)
(* ready to run.                                                           *)
LEMMA RemovalPlanned ==
  ASSUME NEW path \in Paths, NEW aside \in Paths, Long(aside), aside[1] = path[1], Base(aside) = path,
         aside # path, Numbered(aside)', Numbered(path)',
         dir[path] \in Nat, body[dir[path]] \in Ours,
         NEW r \in Seq(PlanStep), \A i \in 1 .. Len(r) : r[i].act = "release",
         NEW A, A = {aside}, NEW q,
         q = Quarantine(path, aside, << S("fail", path) >>)
               \o (Discard(aside) \o (<< S("gone", path) >> \o r))
  PROVE  Planned(q, A, A, A, {}, A, A, {})'
<1>7. Planned(r, {}, {}, {}, {}, {}, {}, {})'
  BY PlannedReleases
<1> DEFINE t1 == << S("gone", path) >> \o r
           t2 == Discard(aside) \o t1
           o == << S("fail", path) >>
<1>8. Planned(<< S("gone", path) >> \o r, {}, {}, {}, {}, {}, {}, {})'
  BY <1>7, ConsQuiet
<1>10. A = {} \cup {aside} /\ {} = {} \ {aside} /\ {} = {} \cup {} /\ A = A \cup {}
  OBVIOUS
<1>11. Planned(t1, {}, {}, {}, {}, {}, {}, {})'
  BY <1>8
<1> HIDE DEF t1
<1>12. Planned(Discard(aside) \o t1, {}, A, {}, {}, {}, {}, {})'
  BY <1>10, <1>11, ConsDiscard
<1>13. Planned(t2, {}, A, {}, {}, {}, {}, {})'
  BY <1>12
<1> HIDE DEF t2
<1>14. \A a \in {} \cup {aside} : Base(a) \notin A \cup {} \cup {} \cup {aside}
  OBVIOUS
<1>15. FallOK(o, {}, {})
  BY Fallbacks
<1>16. aside \notin {} /\ path \notin {} /\ (\A x \in {} : Long(x)) /\ {} \cap {} = {}
  OBVIOUS
<1>18. q = Quarantine(path, aside, o) \o t2
  BY Zenon DEF o, t2, t1
<1> HIDE DEF o
<1>19. PICK Z : Z = {}
  OBVIOUS
<1>20. A = Z \cup {aside} /\ Z = Z \ {aside} /\ A = A \cup Z
  BY <1>19
<1>21. Planned(t2, Z, A, Z, Z, Z, Z, {})'
  BY <1>13, <1>19
<1>22. FallOK(o, {}, Z)
  BY <1>15, <1>19
<1>24. Movable(path, aside, o, Z, t2, Z, A, Z, Z, Z, Z)'
  BY <1>19, <1>21, <1>22 DEF Movable
<1>23. Planned(q, A, A, A, Z, A, A, {})'
  <2>1. Planned(q, Z \cup {aside}, A \cup Z, Z \cup {aside}, Z \ {aside}, Z \cup {aside}, Z \cup {aside}, {})'
    <3>1. dir[path] \in Nat /\ body[dir[path]] \in Ours
      OBVIOUS
    <3> QED  BY <1>18, <1>24, <3>1, ConsQuarantine, Zenon
  <2> QED  BY <1>20, <2>1
<1> QED  BY <1>19, <1>23

(* The removal of a plugin of ours is ready to go.                         *)
LEMMA RemovalOwned ==
  ASSUME PluginInv, NEW path \in Paths, Owned(path), NEW r \in Seq(PlanStep),
         \A i \in 1 .. Len(r) : r[i].act = "release", UNCHANGED <<dir, body, users>>,
         used'.names = used.names + 1
  PROVE  \E aside, q :
           /\ aside = Beside(path, "quarantine")
           /\ q = Quarantine(path, aside, << S("fail", path) >>)
                     \o (Discard(aside) \o (<< S("gone", path) >> \o r))
           /\ StepsOK(q)'
<1>1. DirOK /\ StepsOK(job.steps)
  BY DEF PluginInv
<1>6. PICK aside : aside = Beside(path, "quarantine")
  OBVIOUS
<1>2. /\ aside \in Paths /\ Long(aside) /\ aside[1] = path[1] /\ Base(aside) = path /\ aside # path
      /\ Numbered(aside)' /\ ~Present(aside)'
  <2>1. DirOK /\ dir' = dir
    BY <1>1
  <2> QED  BY <1>6, <2>1, AsideName, Zenon
<1>3. Present(path) /\ body[dir[path]] \in Ours
  BY DEF Owned
<1>4. dir[path] \in Nat /\ Numbered(path)'
  <2>1. path \in DOMAIN dir /\ body \in Seq({"torn", "current", "older", "foreign"}) /\ used.names \in Nat
    BY <1>1, <1>3 DEF DirOK, Present
  <2>2. dir[path] \in 1 .. Len(body) /\ Len(body) \in Nat /\ Numbered(path)
    BY <1>1, <2>1 DEF DirOK
  <2> QED  BY <2>1, <2>2 DEF Numbered
<1>7. PICK q : q = Quarantine(path, aside, << S("fail", path) >>)
                     \o (Discard(aside) \o (<< S("gone", path) >> \o r))
  OBVIOUS
<1>9. PICK A : A = {aside}
  OBVIOUS
<1>8. Planned(q, A, A, A, {}, A, A, {})'
  BY <1>2, <1>3, <1>4, <1>7, <1>9, RemovalPlanned
<1>18. \A n \in users' : \E p \in Names(n)' : p \in A \/ p \notin A
  <2>1. PICK s : s = job.steps
    OBVIOUS
  <2> QED  BY <1>1, <2>1, Named
<1>19. \A p \in A : ~Present(p)'
  BY <1>2, <1>9
<1>20. StepsOK(q)'
  BY <1>8, <1>18, <1>19, PlannedReady
<1> QED  BY <1>6, <1>7, <1>20

(* A name is dropped, and then there is only releasing.                    *)
LEMMA DropPlan ==
  ASSUME NEW x \in PlanStep, x.act = "drop", NEW r \in Seq(PlanStep),
         \A i \in 1 .. Len(r) : r[i].act = "release", DropOK(x)',
         \A n \in users' : \E q \in Names(n)' : TRUE
  PROVE  StepsOK(<< x >> \o r)'
<1> DEFINE t == << x >> \o r
<1>1. /\ t \in Seq(PlanStep) /\ Len(t) = Len(r) + 1 /\ t[1] = x
      /\ \A i \in 1 .. Len(r) + 1 : i = 1 \/ (i - 1 \in 1 .. Len(r) /\ t[i] = r[i - 1])
  BY ConsIs
<1>2. Len(r) \in Nat /\ \A i \in 1 .. Len(r) : r[i] \in PlanStep
  OBVIOUS
<1> HIDE DEF t
<1>3. ASSUME NEW i \in 1 .. Len(t)
      PROVE  /\ i \in Nat /\ t[i] \in PlanStep
             /\ i = 1 => t[i] = x
             /\ i # 1 => t[i].act = "release"
  <2>1. i \in Nat /\ (i # 1 => i - 1 \in 1 .. Len(r) /\ t[i] = r[i - 1])
    BY <1>1, <1>2
  <2>2. CASE i = 1
    BY <1>1, <2>1, <2>2
  <2>3. CASE i # 1
    <3>1. PICK j \in 1 .. Len(r) : t[i] = r[j]
      BY <2>1, <2>3
    <3> QED  BY <1>2, <2>1, <2>3, <3>1
  <2> QED  BY <2>2, <2>3
<1>4. ActAt("unlink", <<>>) = {} /\ ActAt("restore", <<>>) = {}
  BY DEF ActAt
<1>5. ASSUME NEW i \in 1 .. Len(t)
      PROVE  /\ Falls(t[i]) = <<>> /\ BacksOf(t[i]) = {} /\ UnlinksOf(t[i]) = {} /\ NeedsOf(t[i]) = {}
             /\ MadeBy(t[i]) = {} /\ LinkedBy(t[i]) = {} /\ GoneBy(t[i]) = {} /\ VerifiedBy(t[i]) = {}
             /\ t[i].act \in {"drop", "release"}
  <2>1. t[i].act \in {"drop", "release"}
    BY <1>3
  <2>2. Falls(t[i]) = <<>>
    BY <2>1 DEF Falls
  <2> QED  BY <1>4, <2>1, <2>2 DEF BacksOf, UnlinksOf, NeedsOf, MadeBy, LinkedBy, GoneBy, VerifiedBy
<1>6. ASSUME NEW i \in 1 .. Len(t) PROVE Single(t[i])'
  <2> DEFINE y == t[i]
  <2>1. y \in PlanStep /\ y.act \in {"drop", "release"} /\ Falls(y) = <<>> /\ BacksOf(y) = {} /\ UnlinksOf(y) = {}
    BY <1>3, <1>5
  <2> HIDE DEF y
  <2>2. \A j \in 1 .. Len(Falls(y)) : FALSE
    BY <2>1
  <2> QED  BY <2>1, <2>2 DEF Single, y
<1>7. ASSUME NEW i \in 1 .. Len(t), NEW j \in 1 .. Len(t) PROVE Apart(t[i], t[j]) /\ (i < j => Before(t[i], t[j]))
  <2>1. Apart(t[i], t[j])
    BY <1>5 DEF Apart
  <2>2. i < j => t[j].act = "release"
    BY <1>3
  <2>3. i < j => Before(t[i], t[j])
    BY <1>5, <2>2 DEF Before
  <2> QED  BY <2>1, <2>3
<1>8. Ordered(t)'
  BY <1>5, <1>6, <1>7 DEF Ordered
<1>9. \A p : p \notin Doomed(t)
  BY <1>5, InDoomed
<1>10. \A i \in 1 .. Len(t) : t[i].act = "drop" => t[i] = x
  BY <1>3
<1>11. Ready(t)'
  BY <1>5, <1>9, <1>10 DEF Ready
<1>12. StepsOK(t)'
  BY <1>1, <1>8, <1>11 DEF StepsOK
<1> QED  BY <1>12 DEF t

(* A second name of a file of ours, or a half written stage, may be        *)
(* dropped.                                                                *)
LEMMA DropsFine ==
  ASSUME DirOK, NEW path \in Paths, NEW peers, UNCHANGED <<dir, body, users>>,
         \/ Kind(path) = "quarantine" /\ HardLinked(path, Base(path))
         \/ LinkedToPeer(path, peers)
         \/ HalfWritten(path) /\ Present(path),
         NEW x, x = [act |-> "drop", at |-> path, file |-> dir[path]]
  PROVE  x \in PlanStep /\ x.act = "drop" /\ DropOK(x)'
<1>1. x.act = "drop" /\ x.at = path /\ x.file = dir[path]
  OBVIOUS
<1>2. path \in DOMAIN dir
  BY DEF HardLinked, LinkedToPeer, Present
<1>3. dir[path] \in 1 .. Len(body) /\ Len(body) \in Nat
  BY <1>2 DEF DirOK
<1>4. x \in PlanStep
  BY <1>3 DEF PlanStep
<1>5. ASSUME NEW q, path # q, Names(dir[path]) = {path, q}, body[dir[path]] \in Ours PROVE DropOK(x)
  <2>1. q \in Names(x.file) /\ q \in DOMAIN dir /\ dir[q] = dir[path] /\ q # x.at
    BY <1>1, <1>5 DEF Names
  <2>2. q \in Paths /\ q[1] = path[1]
    BY <1>2, <2>1 DEF DirOK
  <2>3. Long(path) \/ Long(q)
    <3>1. ~Long(path) => path = Canonical(path)
      BY KindIs
    <3>2. ~Long(q) => q = Canonical(q)
      BY <2>2, KindIs
    <3>3. Canonical(path) = Canonical(q)
      BY <2>2 DEF Canonical
    <3> QED  BY <1>5, <3>1, <3>2, <3>3
  <2> QED  BY <1>1, <1>3, <2>1, <2>3 DEF DropOK
<1>6. ASSUME HalfWritten(path) PROVE DropOK(x)
  <2>1. Long(path)
    BY <1>6, KindIs DEF HalfWritten
  <2>2. x.file \notin users
    BY <1>1, <1>6, NotUsers DEF HalfWritten
  <2> QED  BY <1>1, <1>3, <2>1, <2>2 DEF DropOK
<1>7. DropOK(x)
  BY <1>5, <1>6 DEF HardLinked, LinkedToPeer
<1>8. DropOK(x)'
  BY <1>7 DEF DropOK, Present, Names
<1> QED  BY <1>1, <1>4, <1>8

(* The stage that the canonical file is linked to goes, and then that file.*)
LEMMA StagePlan ==
  ASSUME NEW path \in Paths, Long(path), NEW canonical \in Paths, NEW r \in Seq(PlanStep),
         \A i \in 1 .. Len(r) : r[i].act = "release",
         \A n \in users' : \E q \in Names(n)' : q # path, NEW t,
         t = << S("retain", canonical) >>
               \o (Discard(path) \o (<< S("remove", canonical) >> \o (<< S("release", canonical) >> \o r)))
  PROVE  StepsOK(t)'
<1> DEFINE l == S("release", canonical)
           r3 == << l >> \o r
           r4 == << S("remove", canonical) >> \o r3
           r5 == Discard(path) \o r4
<1>1. l \in PlanStep /\ l.act = "release"
  BY DEF S, PlanStep
<1> HIDE DEF l
<1>2. /\ r3 \in Seq(PlanStep) /\ Len(r3) = Len(r) + 1 /\ r3[1] = l /\ Len(r) \in Nat
      /\ \A i \in 1 .. Len(r) + 1 : i = 1 \/ (i - 1 \in 1 .. Len(r) /\ r3[i] = r[i - 1])
  BY <1>1, ConsIs
<1> HIDE DEF r3
<1>3. \A i \in 1 .. Len(r3) : r3[i].act = "release"
  BY <1>1, <1>2
<1>4. Planned(<< S("remove", canonical) >> \o r3, {}, {}, {}, {}, {}, {}, {})'
  BY <1>2, <1>3, ConsRemove
<1>5. Planned(r4, {}, {}, {}, {}, {}, {}, {})'
  BY <1>4
<1> HIDE DEF r4
<1>6. PICK U : U = {path}
  OBVIOUS
<1>7. U = {} \cup {path}
  BY <1>6
<1>8. Planned(Discard(path) \o r4, {}, U, {}, {}, {}, {}, {})'
  BY <1>5, <1>7, ConsDiscard
<1>9. Planned(r5, {}, U, {}, {}, {}, {}, {})'
  BY <1>8
<1> HIDE DEF r5
<1>10. Planned(<< S("retain", canonical) >> \o r5, {}, U, {}, {}, {}, {}, {})'
  BY <1>9, ConsQuiet
<1>11. t = << S("retain", canonical) >> \o r5
  BY Zenon DEF r5, r4, r3, l
<1>12. Planned(t, {}, U, {}, {}, {}, {}, {})'
  BY <1>10, <1>11, Zenon
<1>15. PICK Z : Z = {}
  OBVIOUS
<1>16. Planned(t, Z, U, Z, {}, Z, Z, Z)'
  BY <1>12, <1>15
<1>13. \A n \in users' : \E q \in Names(n)' : q \in Z \/ q \notin U
  BY <1>6
<1>14. \A p \in Z : ~Present(p)'
  BY <1>15
<1> QED  BY <1>13, <1>14, <1>16, PlannedReady, Zenon

(* A plan in three pieces, before another. *)
Joins(a, b, c, r) == (a \o b \o c) \o r = a \o (b \o (c \o r))

(* Four lists joined one way or the other.                                 *)
LEMMA FourPieces ==
  ASSUME NEW U, NEW a, NEW b, NEW c, NEW r
  PROVE  a \in Seq(U) /\ b \in Seq(U) /\ c \in Seq(U) /\ r \in Seq(U)
           => Joins(a, b, c, r)
<1>1. SUFFICES ASSUME a \in Seq(U) /\ b \in Seq(U) /\ c \in Seq(U) /\ r \in Seq(U)
               PROVE  (a \o b \o c) \o r = a \o (b \o (c \o r))
  BY DEF Joins
<1>2. PICK e : e = a \o b
  OBVIOUS
<1>3. PICK f : f = c \o r
  OBVIOUS
<1>4. e \in Seq(U) /\ c \in Seq(U) /\ r \in Seq(U)
  BY <1>1, <1>2
<1>5. a \in Seq(U) /\ b \in Seq(U) /\ f \in Seq(U)
  BY <1>1, <1>3
<1>6. (e \o c) \o r = e \o (c \o r)
  BY <1>4, ConcatAssociative
<1>7. (a \o b) \o f = a \o (b \o f)
  BY <1>5, ConcatAssociative
<1> QED  BY <1>2, <1>3, <1>6, <1>7

(* Two steps in front of a plan.                                           *)
LEMMA TwoCons ==
  ASSUME NEW x \in PlanStep, NEW y \in PlanStep, NEW r \in Seq(PlanStep)
  PROVE  << x, y >> \o r = << x >> \o (<< y >> \o r)
<1>1. PICK P : P = PlanStep
  OBVIOUS
<1>2. x \in P /\ y \in P /\ r \in Seq(P)
  BY <1>1
<1> QED  BY <1>2, Cons2

(* The steps of a quarantine are steps,                                    *)
LEMMA QuarantineIs ==
  ASSUME NEW path \in Paths, NEW aside \in Paths, NEW o \in Seq(FallStep),
         dir[path] \in Nat, body[dir[path]] \in Ours
  PROVE  Quarantine(path, aside, o) \in Seq(PlanStep)
<1>1. PICK inode \in Nat, was \in Ours : inode = dir[path] /\ was = body[dir[path]]
  OBVIOUS
<1> DEFINE v == [act |-> "verify", at |-> aside, to |-> path, file |-> inode, was |-> was, otherwise |-> o]
           m == Move("rename", path, aside, o)
           n == S("retain", aside)
<1>4. n \in PlanStep /\ m \in PlanStep /\ v \in PlanStep
  BY DEF S, Move, PlanStep
<1>14. Quarantine(path, aside, o) = << n, m, v >>
  BY <1>1 DEF Quarantine
<1> HIDE DEF n, m, v
<1>2. << n, m, v >> \in Seq(PlanStep)
  BY <1>4
<1> QED  BY <1>2, <1>14

(* so are those that discard a file,                                       *)
LEMMA DiscardIs ==
  ASSUME NEW path \in Paths
  PROVE  Discard(path) \in Seq(PlanStep)
BY DEF Discard, S, PlanStep

(* What is planned to take a file away is ready to run, before whatever    *)
(* releases follow (reconcileOpenCodePlugin).                              *)
LEMMA RemovalOK ==
  ASSUME PluginInv, NEW path \in Paths, NEW peers, NEW due, UNCHANGED <<dir, body, users>>,
         used'.names = used.names + (IF Owned(path) THEN 1 ELSE 0),
         NEW r \in Seq(PlanStep), \A i \in 1 .. Len(r) : r[i].act = "release",
         NEW t, t = Removal(path, peers, due) \o r
  PROVE  StepsOK(t)'
<1> DEFINE aside == Beside(path, "quarantine")
           fail == << S("fail", path) >>
           gone == << S("gone", path) >>
           C == Canonical(path)
           x == [act |-> "drop", at |-> path, file |-> dir[path]]
           Tied == Kind(path) = "stage" /\ HardLinked(path, C)
           Drops == \/ Kind(path) = "quarantine" /\ HardLinked(path, Base(path))
                    \/ LinkedToPeer(path, peers)
                    \/ due /\ HalfWritten(path)
           q1 == Quarantine(path, aside, fail) \o Discard(aside) \o gone
           l1 == << S("retain", C) >> \o Discard(path) \o << S("remove", C), S("release", C) >>
           d1 == << x, S("release", path) >>
           q == q1 \o r
           l == l1 \o r
           d == d1 \o r
           f == fail \o r
           R == Removal(path, peers, due)
<1>1. \/ ~Present(path) /\ t = <<>> \o r
      \/ Owned(path) /\ t = q
      \/ Present(path) /\ ~Owned(path) /\ Tied /\ t = l
      \/ Present(path) /\ ~Owned(path) /\ Drops /\ t = d
      \/ Present(path) /\ ~Owned(path) /\ t = f
  <2>7. ~Present(path) => ~Owned(path) /\ ~Tied /\ ~Drops
    BY DEF Owned, HardLinked, LinkedToPeer, HalfWritten, Names, Present
  <2>8. Owned(path) => ~Tied /\ ~Drops
    BY DEF Owned, HardLinked, LinkedToPeer, HalfWritten, Ours
  <2>1. ~Present(path) => R = <<>>
    BY <2>7 DEF Removal
  <2>2. Present(path) /\ Owned(path) => R = q1
    BY <2>8 DEF Removal
  <2>3. Present(path) /\ ~Owned(path) => (Tied /\ R = l1) \/ (Drops /\ R = d1) \/ R = fail
    BY DEF Removal
  <2> HIDE DEF R, q1, l1, d1, fail, Tied, Drops
  <2>4. t = R \o r
    BY DEF R
  <2>5. Owned(path) => Present(path)
    BY DEF Owned
  <2> QED  BY <2>1, <2>2, <2>3, <2>4, <2>5
<1>2. DirOK /\ StepsOK(job.steps) /\ used.names \in Nat
  BY DEF PluginInv, DirOK
<1>3. \A n \in users' : \E p \in Names(n)' : TRUE
  <2>1. PICK s : s = job.steps
    OBVIOUS
  <2> QED  BY <1>2, <2>1, Named
<1>4. ASSUME ~Present(path), t = <<>> \o r PROVE StepsOK(t)'
  <2>1. t = r
    BY <1>4
  <2>2. Touchless(r)
    BY DEF Touchless
  <2> QED  BY <1>3, <2>1, <2>2, TouchlessPlan
<1>5. ASSUME Owned(path), t = q PROVE StepsOK(t)'
  <2> HIDE DEF q
  <2>1. used'.names = used.names + 1
    BY <1>5
  <2>2. PICK a, u : /\ a = Beside(path, "quarantine")
                    /\ u = Quarantine(path, a, << S("fail", path) >>)
                             \o (Discard(a) \o (<< S("gone", path) >> \o r))
                    /\ StepsOK(u)'
    BY <1>5, <2>1, RemovalOwned
  <2>3. u = t
    <3>1. /\ dir[path] \in Nat /\ body[dir[path]] \in Ours
      <4>1. dir[path] \in 1 .. Len(body) /\ Len(body) \in Nat
        BY <1>2, <1>5 DEF DirOK, Owned, Present
      <4> QED  BY <1>5, <4>1 DEF Owned
    <3>2. aside \in Paths
      BY <1>2, BesideIs
    <3>3. fail \in Seq(FallStep) /\ gone \in Seq(PlanStep)
      BY DEF S, FallStep, PlanStep
    <3> HIDE DEF aside, fail, gone
    <3>4. Quarantine(path, aside, fail) \in Seq(PlanStep) /\ Discard(aside) \in Seq(PlanStep)
      BY <3>1, <3>2, <3>3, QuarantineIs, DiscardIs
    <3>5. q = Quarantine(path, aside, fail) \o (Discard(aside) \o (gone \o r))
      <4>1. PICK P, b1, b2, b3 : P = PlanStep /\ b1 = Quarantine(path, aside, fail) /\ b2 = Discard(aside) /\ b3 = gone
        OBVIOUS
      <4>2. b1 \in Seq(P) /\ b2 \in Seq(P) /\ b3 \in Seq(P) /\ r \in Seq(P)
        BY <3>3, <3>4, <4>1
      <4>3. Joins(b1, b2, b3, r)
        BY <4>2, FourPieces, Zenon
      <4> QED  BY <4>1, <4>3, Zenon DEF Joins, q
    <3> QED  BY <1>5, <2>2, <3>5, Zenon DEF aside, fail, gone
  <2> QED  BY <2>2, <2>3, Zenon
<1>6. ASSUME Present(path), ~Owned(path), Tied, t = l PROVE StepsOK(t)'
  <2> HIDE DEF l
  <2>1. Long(path) /\ C \in Paths
    BY <1>6, KindIs
  <2>2. S("retain", C) \in PlanStep /\ S("remove", C) \in PlanStep /\ S("release", C) \in PlanStep
    BY <2>1 DEF S, PlanStep
  <2>3. t = << S("retain", C) >> \o (Discard(path) \o (<< S("remove", C) >> \o (<< S("release", C) >> \o r)))
    <3> HIDE DEF C
    <3> DEFINE c1a == S("retain", C)
               c2a == S("remove", C)
               c3a == S("release", C)
    <3>1. c1a \in PlanStep /\ c2a \in PlanStep /\ c3a \in PlanStep
      BY <2>2
    <3> HIDE DEF c1a, c2a, c3a
    <3>2. << c1a >> \in Seq(PlanStep) /\ << c2a, c3a >> \in Seq(PlanStep) /\ Discard(path) \in Seq(PlanStep)
      BY <3>1, DiscardIs
    <3>3. (<< c1a >> \o Discard(path) \o << c2a, c3a >>) \o r = << c1a >> \o (Discard(path) \o (<< c2a, c3a >> \o r))
      <4>1. PICK P, b1, b2, b3 : P = PlanStep /\ b1 = << c1a >> /\ b2 = Discard(path) /\ b3 = << c2a, c3a >>
        OBVIOUS
      <4>2. b1 \in Seq(P) /\ b2 \in Seq(P) /\ b3 \in Seq(P) /\ r \in Seq(P)
        BY <3>2, <4>1
      <4>3. Joins(b1, b2, b3, r)
        BY <4>2, FourPieces, Zenon
      <4> QED  BY <4>1, <4>3, Zenon DEF Joins
    <3>4. << c2a, c3a >> \o r = << c2a >> \o (<< c3a >> \o r)
      BY <3>1, TwoCons
    <3> QED  BY <1>6, <3>3, <3>4, Zenon DEF l, c1a, c2a, c3a
  <2>4. \A n \in users' : \E p \in Names(n)' : p # path
    <3>1. body[dir[path]] \in Ours
      BY <1>6 DEF HardLinked
    <3>2. dir[path] \notin users
      BY <1>2, <3>1, NotUsers DEF Ours
    <3>3. \A n \in users : path \notin Names(n)
      BY <3>2 DEF Names
    <3>4. \A n \in users : path \notin Names(n)'
      BY <3>3 DEF Names
    <3> QED  BY <1>3, <3>4
  <2> HIDE DEF C
  <2> QED  BY <2>1, <2>3, <2>4, StagePlan
<1>7. ASSUME Present(path), ~Owned(path), Drops, t = d PROVE StepsOK(t)'
  <2>1. x \in PlanStep /\ x.act = "drop" /\ DropOK(x)'
    BY <1>2, <1>7, DropsFine
  <2> DEFINE z == S("release", path)
  <2>2. z \in PlanStep /\ z.act = "release"
    BY DEF S, PlanStep
  <2> HIDE DEF x, z
  <2>3. d = << x >> \o (<< z >> \o r)
    BY <2>1, <2>2, TwoCons DEF z
  <2> DEFINE r3 == << z >> \o r
  <2>4. /\ r3 \in Seq(PlanStep) /\ Len(r3) = Len(r) + 1 /\ r3[1] = z /\ Len(r) \in Nat
        /\ \A i \in 1 .. Len(r) + 1 : i = 1 \/ (i - 1 \in 1 .. Len(r) /\ r3[i] = r[i - 1])
    BY <2>2, ConsIs
  <2> HIDE DEF r3
  <2>5. \A i \in 1 .. Len(r3) : r3[i].act = "release"
    BY <2>2, <2>4
  <2>6. PICK y : y = x
    OBVIOUS
  <2>7. y \in PlanStep /\ y.act = "drop" /\ DropOK(y)'
    BY <2>1, <2>6 DEF x
  <2>8. StepsOK(<< y >> \o r3)'
    BY <1>3, <2>4, <2>5, <2>7, DropPlan
  <2>9. t = << y >> \o r3
    BY <1>7, <2>3, <2>6 DEF r3
  <2> QED  BY <2>8, <2>9
<1>8. ASSUME t = f PROVE StepsOK(t)'
  <2> DEFINE z == S("fail", path)
  <2>1. z \in PlanStep /\ z.act = "fail"
    BY DEF S, PlanStep
  <2> HIDE DEF z
  <2>2. f = << z >> \o r
    BY DEF z
  <2>3. /\ t \in Seq(PlanStep) /\ Len(t) = Len(r) + 1 /\ t[1] = z /\ Len(r) \in Nat
        /\ \A i \in 1 .. Len(r) + 1 : i = 1 \/ (i - 1 \in 1 .. Len(r) /\ t[i] = r[i - 1])
    BY <1>8, <2>1, <2>2, ConsIs
  <2>4. Touchless(t)
    BY <2>1, <2>3 DEF Touchless
  <2> QED  BY <1>3, <2>4, TouchlessPlan
<1> QED  BY <1>1, <1>4, <1>5, <1>6, <1>7, <1>8

(* and those of a removal.                                                 *)
LEMMA RemovalIs ==
  ASSUME DirOK, NEW path \in Paths, NEW peers, NEW due
  PROVE  Removal(path, peers, due) \in Seq(PlanStep)
<1> DEFINE aside == Beside(path, "quarantine")
           fail == << S("fail", path) >>
           gone == << S("gone", path) >>
           C == Canonical(path)
           d1 == << [act |-> "drop", at |-> path, file |-> dir[path]], S("release", path) >>
           l1 == << S("retain", C) >> \o Discard(path) \o << S("remove", C), S("release", C) >>
           q1 == Quarantine(path, aside, fail) \o Discard(aside) \o gone
           R == Removal(path, peers, due)
<1>1. used.names \in Nat /\ (Present(path) => dir[path] \in Nat)
  BY DEF DirOK, Present
<1>2. aside \in Paths /\ C \in Paths
  BY <1>1, BesideIs, KindIs
<1>3. fail \in Seq(FallStep) /\ fail \in Seq(PlanStep) /\ gone \in Seq(PlanStep) /\ <<>> \in Seq(PlanStep)
  BY DEF S, FallStep, PlanStep
<1>4. Present(path) => d1 \in Seq(PlanStep)
  BY <1>1 DEF S, PlanStep
<1>5. << S("retain", C) >> \in Seq(PlanStep) /\ << S("remove", C), S("release", C) >> \in Seq(PlanStep)
  BY <1>2 DEF S, PlanStep
<1>6. Discard(path) \in Seq(PlanStep) /\ Discard(aside) \in Seq(PlanStep)
  BY <1>2, DiscardIs
<1>7. Owned(path) => Quarantine(path, aside, fail) \in Seq(PlanStep)
  BY <1>1, <1>2, <1>3, QuarantineIs DEF Owned
<1>8. \/ ~Present(path) /\ R = <<>>
      \/ Present(path) /\ Owned(path) /\ R = q1
      \/ Present(path) /\ R \in {l1, d1, fail}
  <2> DEFINE Tied == Kind(path) = "stage" /\ HardLinked(path, C)
             Drops == \/ Kind(path) = "quarantine" /\ HardLinked(path, Base(path))
                      \/ LinkedToPeer(path, peers)
                      \/ due /\ HalfWritten(path)
  <2>7. ~Present(path) => ~Owned(path) /\ ~Tied /\ ~Drops
    BY DEF Owned, HardLinked, LinkedToPeer, HalfWritten, Names, Present
  <2>8. Owned(path) => ~Tied /\ ~Drops
    BY DEF Owned, HardLinked, LinkedToPeer, HalfWritten, Ours
  <2>1. ~Present(path) => R = <<>>
    BY <2>7 DEF Removal
  <2>2. Present(path) /\ Owned(path) => R = q1
    BY <2>8 DEF Removal
  <2>3. Present(path) /\ ~Owned(path) => (Tied /\ R = l1) \/ (Drops /\ R = d1) \/ R = fail
    BY DEF Removal
  <2> HIDE DEF R, q1, l1, d1, fail, Tied, Drops
  <2> QED  BY <2>1, <2>2, <2>3
<1> HIDE DEF aside, C, fail, gone, R
<1>9. l1 \in Seq(PlanStep)
  BY <1>5, <1>6
<1>10. Owned(path) => q1 \in Seq(PlanStep)
  BY <1>3, <1>6, <1>7
<1> HIDE DEF l1, d1, q1
<1>11. R \in Seq(PlanStep)
  BY <1>3, <1>4, <1>8, <1>9, <1>10
<1> QED  BY <1>11 DEF R

(* A task plans its steps. *)
LEMMA TaskPlans ==
  ASSUME PluginInv, UNCHANGED <<dir, body, users, journal, install, home>>,
         NEW k \in {0, 1}, used' = [used EXCEPT !.names = @ + k], JobOK',
         NEW t, job'.steps = t, StepsOK(t)'
  PROVE  PluginInv'
<1>1. used' \in [names : Nat, commands : Nat, edits : Nat, deaths : Nat] /\ used.names <= used'.names
  BY DEF PluginInv, DirOK
<1>2. DirOK'
  BY <1>1, DirSame DEF PluginInv
<1>3. SavedOK'
  BY DEF PluginInv, SavedOK
<1> QED  BY <1>2, <1>3 DEF PluginInv

(* A plugin is removed.                                                    *)
LEMMA RemoveStep ==
  ASSUME PluginInv, RemoveTask
  PROVE  PluginInv'
<1>1. OnTask("remove") /\ UNCHANGED <<dir, body, users, journal, install, home>>
  BY DEF RemoveTask, disk, saved, others
<1>2. PICK path \in Paths : path = Path
  BY <1>1, TaskIs
<1>3. PICK none, due : none = {} /\ due = FALSE
  OBVIOUS
<1>4. PICK k \in {0, 1} : k = IF Owned(path) THEN 1 ELSE 0
  OBVIOUS
<1>5. used' = [used EXCEPT !.names = @ + k] /\ used'.names = used.names + k
  <2>1. used' = [used EXCEPT !.names = @ + k]
    BY <1>2, <1>4 DEF RemoveTask
  <2> QED  BY <2>1 DEF PluginInv, DirOK
<1>6. PICK t : t = Removal(path, none, due)
  OBVIOUS
<1>7. job' = Plan(t)
  BY <1>2, <1>3, <1>6 DEF RemoveTask
<1>8. t \in Seq(PlanStep)
  BY <1>6, RemovalIs DEF PluginInv
<1>9. t = Removal(path, none, due) \o <<>>
  BY <1>6, <1>8
<1>10. PICK r \in Seq(PlanStep) : r = <<>>
  <2>1. <<>> \in Seq(PlanStep)
    OBVIOUS
  <2> QED  BY <2>1
<1>11. t = Removal(path, none, due) \o r /\ \A i \in 1 .. Len(r) : r[i].act = "release"
  BY <1>9, <1>10
<1>12. used'.names = used.names + (IF Owned(path) THEN 1 ELSE 0)
  BY <1>4, <1>5
<1>13. StepsOK(t)'
  BY <1>1, <1>11, <1>12, RemovalOK
<1>14. JobOK' /\ job'.steps = t
  BY <1>1, <1>7, TaskIs, PlanIsJob DEF PluginInv
<1> QED  BY <1>1, <1>5, <1>13, <1>14, TaskPlans

(* A journaled path is cleaned up.                                         *)
LEMMA CleanStep ==
  ASSUME PluginInv, CleanTarget
  PROVE  PluginInv'
<1>1. OnTask("clean") /\ UNCHANGED <<dir, body, users, journal, install, home>>
  BY DEF CleanTarget, disk, saved, others
<1>2. PICK path \in Paths : path = Path
  BY <1>1, TaskIs
<1>3. PICK peers, due, keep : /\ peers = job.peers /\ due = (path \in peers)
                              /\ keep = (due /\ path = job.committed /\ Owned(path))
  OBVIOUS
<1>4. PICK k \in {0, 1} : k = IF ~keep /\ Owned(path) THEN 1 ELSE 0
  OBVIOUS
<1>5. used' = [used EXCEPT !.names = @ + k] /\ used'.names = used.names + k
  <2>1. used' = [used EXCEPT !.names = @ + k]
    BY <1>2, <1>3, <1>4 DEF CleanTarget
  <2> QED  BY <2>1 DEF PluginInv, DirOK
<1>6. PICK l : l = S("release", path)
  OBVIOUS
<1>7. l \in PlanStep /\ l.act = "release"
  BY <1>6 DEF S, PlanStep
<1>8. PICK t : t = (IF keep THEN <<>> ELSE Removal(path, peers, due)) \o << l >>
  OBVIOUS
<1>9. job' = Plan(t)
  BY <1>2, <1>3, <1>6, <1>8 DEF CleanTarget
<1>10. PICK r \in Seq(PlanStep) : r = << l >>
  <2>1. << l >> \in Seq(PlanStep)
    BY <1>7
  <2> QED  BY <2>1
<1>11. \A i \in 1 .. Len(r) : r[i].act = "release"
  BY <1>7, <1>10
<1>12. CASE keep
  <2>1. t = r
    BY <1>7, <1>8, <1>10, <1>12
  <2>2. Touchless(t)
    BY <1>11, <2>1 DEF Touchless
  <2>3. StepsOK(job.steps)
    BY DEF PluginInv
  <2>4. PICK s : s = job.steps
    OBVIOUS
  <2>5. \A n \in users' : \E q \in Names(n)' : TRUE
    BY <1>1, <2>3, <2>4, Named
  <2>6. StepsOK(t)'
    BY <2>2, <2>5, TouchlessPlan
  <2>7. JobOK' /\ job'.steps = t
    BY <1>1, <1>9, TaskIs, PlanIsJob DEF PluginInv
  <2> QED  BY <1>1, <1>5, <2>6, <2>7, TaskPlans
<1>13. CASE ~keep
  <2>1. t = Removal(path, peers, due) \o r
    BY <1>8, <1>10, <1>13
  <2>2. used'.names = used.names + (IF Owned(path) THEN 1 ELSE 0)
    BY <1>4, <1>5, <1>13
  <2>3. StepsOK(t)'
    BY <1>1, <1>11, <2>1, <2>2, RemovalOK
  <2>4. JobOK' /\ job'.steps = t
    BY <1>1, <1>9, TaskIs, PlanIsJob DEF PluginInv
  <2> QED  BY <1>1, <1>5, <2>3, <2>4, TaskPlans
<1> QED  BY <1>12, <1>13

(* The canonical file behind a stage is removed like any other.            *)
LEMMA InnerStep ==
  ASSUME PluginInv, RemoveInner
  PROVE  PluginInv'
<1>1. /\ StepsOK(job.steps) /\ job.steps # <<>> /\ job.steps[1].act = "remove"
      /\ Step = job.steps[1] /\ UNCHANGED <<dir, body, users, journal, install, home>>
  BY DoingIs DEF RemoveInner, disk, saved, others
<1>2. PICK s : s = job.steps
  OBVIOUS
<1>3. /\ s[1] \in PlanStep /\ Tail(s) \in Seq(PlanStep)
      /\ \A i \in 1 .. Len(Tail(s)) : Before(s[1], Tail(s)[i])
  BY <1>1, <1>2, PlanIs
<1>4. PICK r \in Seq(PlanStep) : r = Tail(s)
  BY <1>3
<1>5. \A i \in 1 .. Len(r) : r[i].act = "release"
  BY <1>1, <1>2, <1>3, <1>4 DEF Before
<1>6. PICK path \in Paths : path = Step.at
  BY <1>1, <1>2, <1>3, FallsIs
<1>7. PICK none, due : none = {} /\ due = FALSE
  OBVIOUS
<1>8. PICK k \in {0, 1} : k = IF Owned(path) THEN 1 ELSE 0
  OBVIOUS
<1>9. used' = [used EXCEPT !.names = @ + k] /\ used'.names = used.names + k
  <2>1. used' = [used EXCEPT !.names = @ + k]
    BY <1>6, <1>8 DEF RemoveInner
  <2> QED  BY <2>1 DEF PluginInv, DirOK
<1>10. PICK t : t = Removal(path, none, due) \o r
  OBVIOUS
<1>11. job' = [job EXCEPT !.steps = t]
  BY <1>2, <1>4, <1>6, <1>7, <1>10 DEF RemoveInner, Instead
<1>12. used'.names = used.names + (IF Owned(path) THEN 1 ELSE 0)
  BY <1>8, <1>9
<1>13. StepsOK(t)'
  BY <1>1, <1>5, <1>10, <1>12, RemovalOK
<1>14. JobOK' /\ job'.steps = t
  BY <1>11, StepsChange DEF PluginInv
<1> QED  BY <1>1, <1>9, <1>13, <1>14, TaskPlans

(* A plan in six pieces, before another. *)
Chains(a, b, c, d, e, f, r) ==
  (a \o b \o c \o d \o e \o f) \o r = a \o (b \o (c \o (d \o (e \o (f \o r)))))

(* Seven lists joined one way or the other.                                *)
LEMMA SevenPieces ==
  ASSUME NEW U, NEW a, NEW b, NEW c, NEW d, NEW e, NEW f, NEW r
  PROVE  a \in Seq(U) /\ b \in Seq(U) /\ c \in Seq(U) /\ d \in Seq(U) /\ e \in Seq(U) /\ f \in Seq(U) /\ r \in Seq(U)
           => Chains(a, b, c, d, e, f, r)
<1>1. SUFFICES ASSUME a \in Seq(U) /\ b \in Seq(U) /\ c \in Seq(U) /\ d \in Seq(U) /\ e \in Seq(U)
                      /\ f \in Seq(U) /\ r \in Seq(U)
               PROVE  (a \o b \o c \o d \o e \o f) \o r = a \o (b \o (c \o (d \o (e \o (f \o r)))))
  BY DEF Chains
<1>2. PICK x1, x2, x3 : x1 = a \o b /\ x2 = x1 \o c /\ x3 = x2 \o d
  OBVIOUS
<1>3. PICK x4 : x4 = x3 \o e
  OBVIOUS
<1>4. PICK y1, y2, y3 : y1 = f \o r /\ y2 = e \o y1 /\ y3 = d \o y2
  OBVIOUS
<1>5. PICK y4 : y4 = c \o y3
  OBVIOUS
<1>6. x1 \in Seq(U)
  BY <1>1, <1>2
<1>7. x2 \in Seq(U)
  BY <1>1, <1>2, <1>6
<1>8. x3 \in Seq(U)
  BY <1>1, <1>2, <1>7
<1>9. x4 \in Seq(U)
  BY <1>1, <1>3, <1>8
<1>10. y1 \in Seq(U)
  BY <1>1, <1>4
<1>11. y2 \in Seq(U)
  BY <1>1, <1>4, <1>10
<1>12. y3 \in Seq(U)
  BY <1>1, <1>4, <1>11
<1>13. y4 \in Seq(U)
  BY <1>1, <1>5, <1>12
<1>14. (x4 \o f) \o r = x4 \o y1
  <2>1. x4 \in Seq(U) /\ f \in Seq(U) /\ r \in Seq(U)
    BY <1>1, <1>9
  <2> QED  BY <1>4, <2>1, ConcatAssociative
<1>15. (x3 \o e) \o y1 = x3 \o y2
  <2>1. x3 \in Seq(U) /\ e \in Seq(U) /\ y1 \in Seq(U)
    BY <1>1, <1>8, <1>10
  <2>2. (x3 \o e) \o y1 = x3 \o (e \o y1)
    BY <2>1, ConcatAssociative
  <2> QED  BY <1>4, <2>2, Zenon
<1>16. (x2 \o d) \o y2 = x2 \o y3
  <2>1. x2 \in Seq(U) /\ d \in Seq(U) /\ y2 \in Seq(U)
    BY <1>1, <1>7, <1>11
  <2>2. (x2 \o d) \o y2 = x2 \o (d \o y2)
    BY <2>1, ConcatAssociative
  <2> QED  BY <1>4, <2>2, Zenon
<1>17. (x1 \o c) \o y3 = x1 \o y4
  <2>1. x1 \in Seq(U) /\ c \in Seq(U) /\ y3 \in Seq(U)
    BY <1>1, <1>6, <1>12
  <2> QED  BY <1>5, <2>1, ConcatAssociative
<1>18. (a \o b) \o y4 = a \o (b \o y4)
  <2>1. a \in Seq(U) /\ b \in Seq(U) /\ y4 \in Seq(U)
    BY <1>1, <1>13
  <2> QED  BY <2>1, ConcatAssociative
<1> QED  BY <1>2, <1>3, <1>4, <1>5, <1>14, <1>15, <1>16, <1>17, <1>18, Zenon

(* The part of an installation that publishes the stage. *)
Publishing(path, aside, staged, o1, o2, b, r) ==
  /\ path \in Paths /\ aside \in Paths /\ staged \in Paths /\ Long(staged) /\ staged[1] = path[1]
  /\ staged # path /\ staged # aside /\ aside # path /\ Base(aside) = path /\ BackOK(aside) /\ Numbered(path)
  /\ b \subseteq {aside} /\ FallOK(o1, b, {}) /\ FallOK(o2, b, {staged})
  /\ Planned(r, {}, b, {}, {}, {}, {}, {})

(* The stage is published, its own name goes, and the result is verified.  *)
LEMMA PublishPlan ==
  ASSUME NEW path, NEW aside, NEW staged, NEW o1, NEW o2, NEW b, NEW r,
         Publishing(path, aside, staged, o1, o2, b, r)',
         NEW U, U = b \cup {staged}, NEW t,
         t = << Move("link", staged, path, o2) >>
               \o (<< S("retain", path) >>
                     \o (Discard(staged) \o (<< [act |-> "current", at |-> path, otherwise |-> o1] >> \o r)))
  PROVE  Planned(t, b, U, U, U, {}, {}, {})'
<1>1. /\ path \in Paths /\ aside \in Paths /\ staged \in Paths /\ Long(staged) /\ staged[1] = path[1]
      /\ staged # path /\ staged # aside /\ aside # path /\ Base(aside) = path /\ BackOK(aside)' /\ Numbered(path)'
      /\ b \subseteq {aside} /\ FallOK(o1, b, {}) /\ FallOK(o2, b, {staged})
      /\ Planned(r, {}, b, {}, {}, {}, {}, {})'
  BY DEF Publishing
<1> DEFINE x1 == [act |-> "current", at |-> path, otherwise |-> o1]
           t1 == << x1 >> \o r
           t2 == Discard(staged) \o t1
           t3 == << S("retain", path) >> \o t2
<1>2. PICK Z, s : Z = {} /\ s = {staged}
  OBVIOUS
<1>3. /\ b = Z \cup b /\ b = b \cup Z /\ (\A q \in Z : Long(q)) /\ (\A q \in b : BackOK(q)') /\ {} \cap Z = {}
      /\ \A a \in b : Base(a) \notin b \cup b
  BY <1>1, <1>2
<1>4. FallOK(o1, b, Z) /\ Planned(r, Z, b, Z, Z, {}, {}, {})'
  BY <1>1, <1>2
<1>5. Planned(<< x1 >> \o r, b, b, b, b, {}, {}, {})'
  BY <1>1, <1>3, <1>4, ConsCurrent
<1>6. Planned(t1, b, b, b, b, {}, {}, {})'
  BY <1>5
<1> HIDE DEF t1
<1>7. staged \notin b /\ staged \notin {} /\ (\A a \in b : Base(a) # staged)
  BY <1>1
<1>8. Planned(Discard(staged) \o t1, b, U, b, b, {}, {}, {})'
  BY <1>1, <1>6, <1>7, ConsDiscard
<1>9. Planned(t2, b, U, b, b, {}, {}, {})'
  BY <1>8
<1> HIDE DEF t2
<1>10. Planned(<< S("retain", path) >> \o t2, b, U, b, b, {}, {}, {})'
  BY <1>1, <1>9, ConsQuiet
<1>11. Planned(t3, b, U, b, b, {}, {}, {})'
  BY <1>10
<1> HIDE DEF t3
<1>12. /\ b = b \cup b /\ U = U \cup s /\ U = b \cup b \cup {staged} /\ (\A q \in s : Long(q))
       /\ path \notin {} /\ {} \cap s = {} /\ path[1] = staged[1]
       /\ (\A q \in b : BackOK(q)') /\ \A a \in b : Base(a) \notin U \cup b
  BY <1>1, <1>2
<1>13. FallOK(o2, b, s)
  BY <1>1, <1>2
<1>14. Planned(<< Move("link", staged, path, o2) >> \o t3, b, U, U, U, {}, {}, {})'
  BY <1>1, <1>11, <1>12, <1>13, ConsLink
<1>15. t = << Move("link", staged, path, o2) >> \o t3
  BY Zenon DEF t3, t2, t1, x1
<1> QED  BY <1>14, <1>15, Zenon

(* The stage is made before a plan that needs no other file.               *)
Staging(staged, q, B, U, N, E, M, V) ==
  /\ staged \in Paths /\ Long(staged) /\ Numbered(staged)
  /\ Planned(q, B, U, N, E, M, V, {}) /\ E = {staged} /\ staged \in N /\ staged \notin M

(* The stage comes first.                                                  *)
LEMMA StagePlanned ==
  ASSUME NEW staged, NEW q, NEW B, NEW U, NEW N, NEW E, NEW M, NEW V, Staging(staged, q, B, U, N, E, M, V)',
         NEW M2, M2 = M \cup {staged}, NEW t,
         t = << S("retain", staged) >> \o (<< S("create", staged) >> \o (<< S("write", staged) >> \o q))
  PROVE  Planned(t, B, U, N, {}, M2, V, E)'
<1>1. /\ staged \in Paths /\ Long(staged) /\ Numbered(staged)'
      /\ Planned(q, B, U, N, E, M, V, {})' /\ E = {staged} /\ staged \in N /\ staged \notin M
  BY DEF Staging
<1> DEFINE t1 == << S("write", staged) >> \o q
           t2 == << S("create", staged) >> \o t1
<1>2. N = N \cup {staged} /\ E = E \cup {staged} /\ {} = E \ {staged}
  BY <1>1
<1>3. Planned(<< S("write", staged) >> \o q, B, U, N, E, M, V, {staged})'
  BY <1>1, <1>2, ConsWrite
<1>4. Planned(t1, B, U, N, E, M, V, E)'
  BY <1>1, <1>3
<1> HIDE DEF t1
<1>5. Planned(<< S("create", staged) >> \o t1, B, U, N, {}, M2, V, E)'
  BY <1>1, <1>2, <1>4, ConsCreate
<1>6. Planned(t2, B, U, N, {}, M2, V, E)'
  BY <1>5
<1> HIDE DEF t2
<1>7. Planned(<< S("retain", staged) >> \o t2, B, U, N, {}, M2, V, E)'
  BY <1>1, <1>6, ConsQuiet
<1> QED  BY <1>7, Zenon DEF t2, t1

(* verifyHardlinkSupport, before such a plan. *)
Probing(staged, probe, q, B, U, N, E, M, V) ==
  /\ staged \in Paths /\ Long(staged) /\ probe \in Paths /\ Long(probe) /\ probe[1] = staged[1] /\ Numbered(probe)
  /\ Planned(q, B, U, N, E, M, V, {}) /\ staged \in N /\ staged \in E
  /\ probe \notin N /\ probe \notin V /\ probe \notin M /\ probe \notin B /\ \A a \in B : Base(a) # probe

(* The probe for hard links makes and drops a name of its own.             *)
LEMMA ProbePlanned ==
  ASSUME NEW staged, NEW probe, NEW q, NEW B, NEW U, NEW N, NEW E, NEW M, NEW V,
         Probing(staged, probe, q, B, U, N, E, M, V)', NEW U2, U2 = U \cup {probe}, NEW t,
         t = << S("retain", probe) >> \o (<< Move("link", staged, probe, <<>>) >> \o (Discard(probe) \o q))
  PROVE  Planned(t, B, U2, N, E, M, V, {})'
<1>1. /\ staged \in Paths /\ Long(staged) /\ probe \in Paths /\ Long(probe) /\ probe[1] = staged[1]
      /\ Numbered(probe)' /\ Planned(q, B, U, N, E, M, V, {})' /\ staged \in N /\ staged \in E
      /\ probe \notin N /\ probe \notin V /\ probe \notin M /\ probe \notin B /\ \A a \in B : Base(a) # probe
  BY DEF Probing
<1> DEFINE t1 == Discard(probe) \o q
<1>2. PICK none, Z : none = <<>> /\ Z = {}
  OBVIOUS
<1> DEFINE t2 == << Move("link", staged, probe, none) >> \o t1
<1>3. Planned(Discard(probe) \o q, B, U2, N, E, M, V, {})'
  BY <1>1, ConsDiscard
<1>4. Planned(t1, B, U2, N, E, M, V, {})'
  BY <1>3
<1> HIDE DEF t1
<1>5. FallOK(none, Z, Z)
  BY <1>2, FallNone
<1>6. /\ B = B \cup Z /\ U2 = U2 \cup Z /\ N = N \cup Z \cup {staged} /\ E = E \cup Z \cup {staged}
      /\ (\A p \in Z : Long(p)) /\ (\A p \in Z : BackOK(p)') /\ V \cap Z = {}
  BY <1>1, <1>2
<1>7. \A a \in B : Base(a) \notin U2 \cup B
  BY <1>4 DEF Planned
<1>8. Planned(<< Move("link", staged, probe, none) >> \o t1, B, U2, N, E, M, V, {})'
  BY <1>1, <1>4, <1>5, <1>6, <1>7, ConsLink
<1>9. Planned(t2, B, U2, N, E, M, V, {})'
  BY <1>8
<1> HIDE DEF t2
<1>10. Planned(<< S("retain", probe) >> \o t2, B, U2, N, E, M, V, {})'
  BY <1>1, <1>9, ConsQuiet
<1>11. t = << S("retain", probe) >> \o t2
  BY <1>2, Zenon DEF t2, t1
<1> QED  BY <1>10, <1>11

(* The names of an installation: a stage, its probe, and where the         *)
(* previous plugin is moved aside to, none of which are there yet.         *)
Names3(path, staged, probe, aside) ==
  /\ path \in Paths /\ staged \in Paths /\ probe \in Paths /\ aside \in Paths
  /\ Long(staged) /\ Long(probe) /\ Long(aside)
  /\ staged[1] = path[1] /\ probe[1] = staged[1] /\ aside[1] = path[1]
  /\ Base(aside) = path /\ Numbered(path) /\ Numbered(staged) /\ Numbered(probe) /\ Numbered(aside)
  /\ path # staged /\ path # probe /\ path # aside /\ staged # probe /\ staged # aside /\ probe # aside
  /\ ~Present(staged) /\ ~Present(probe) /\ ~Present(aside)

Staged(staged, q) == << S("retain", staged) >> \o (<< S("create", staged) >> \o (<< S("write", staged) >> \o q))
Probed(staged, probe, q) ==
  << S("retain", probe) >> \o (<< Move("link", staged, probe, <<>>) >> \o (Discard(probe) \o q))
PublishedAt(path, staged, o1, o2, r) ==
  << Move("link", staged, path, o2) >>
    \o (<< S("retain", path) >>
          \o (Discard(staged) \o (<< [act |-> "current", at |-> path, otherwise |-> o1] >> \o r)))

(* Such a plan is ready: nothing is there yet that it unlinks or makes.    *)
LEMMA NewsReady ==
  ASSUME NEW t, NEW B, NEW U, NEW N, NEW M, NEW V, NEW W, Planned(t, B, U, N, {}, M, V, W)',
         M \subseteq U, \A p \in U : ~Present(p)', \A n \in users' : \E q \in Names(n)' : TRUE
  PROVE  StepsOK(t)'
<1>1. \A n, p : p \in Names(n)' => Present(p)'
  BY DEF Names, Present
<1>2. \A n \in users' : \E q \in Names(n)' : q \in V \/ q \notin U
  BY <1>1
<1> QED  BY <1>2, PlannedReady

(* Nothing is in the plugin's place.                                       *)
LEMMA InstallFresh ==
  ASSUME NEW path, NEW staged, NEW probe, NEW aside, Names3(path, staged, probe, aside)',
         \A n \in users' : \E q \in Names(n)' : TRUE,
         NEW r \in Seq(PlanStep), \A i \in 1 .. Len(r) : r[i].act = "release",
         NEW t,
         t = Staged(staged, PublishedAt(path, staged, << S("fail", path) >>,
                                      Discard(staged) \o << S("fail", path) >>, r))
  PROVE  StepsOK(t)'
<1>1. /\ path \in Paths /\ staged \in Paths /\ aside \in Paths /\ Long(staged) /\ Long(aside)
      /\ staged[1] = path[1] /\ aside[1] = path[1] /\ Base(aside) = path
      /\ Numbered(path)' /\ Numbered(staged)' /\ Numbered(aside)'
      /\ path # staged /\ path # aside /\ staged # aside /\ ~Present(staged)'
  BY DEF Names3
<1>2. PICK Z, U, o1, o2 : /\ Z = {} /\ U = {staged} /\ o1 = << S("fail", path) >>
                          /\ o2 = Discard(staged) \o << S("fail", path) >>
  OBVIOUS
<1>3. Planned(r, {}, Z, {}, {}, {}, {}, {})'
  BY <1>2, PlannedReleases
<1>4. FallOK(o1, Z, {}) /\ FallOK(o2, Z, {staged})
  BY <1>1, <1>2, Fallbacks
<1>5. BackOK(aside)'
  BY <1>1 DEF BackOK
<1>6. Publishing(path, aside, staged, o1, o2, Z, r)'
  BY <1>1, <1>2, <1>3, <1>4, <1>5 DEF Publishing
<1>7. PICK q : q = PublishedAt(path, staged, o1, o2, r)
  OBVIOUS
<1>8. U = Z \cup {staged}
  BY <1>2
<1>9. Planned(q, Z, U, U, U, {}, {}, {})'
  <2>1. q = << Move("link", staged, path, o2) >>
               \o (<< S("retain", path) >>
                     \o (Discard(staged) \o (<< [act |-> "current", at |-> path, otherwise |-> o1] >> \o r)))
    BY <1>7, Zenon DEF PublishedAt
  <2> QED  BY <1>6, <1>8, <2>1, PublishPlan, Zenon
<1>10. Planned(q, Z, U, U, U, Z, Z, {})'
  BY <1>2, <1>9
<1>11. Staging(staged, q, Z, U, U, U, Z, Z)'
  BY <1>1, <1>2, <1>10 DEF Staging
<1>12. Planned(t, Z, U, U, {}, U, Z, U)'
  <2>1. t = << S("retain", staged) >> \o (<< S("create", staged) >> \o (<< S("write", staged) >> \o q))
    BY <1>2, <1>7, Zenon DEF Staged
  <2> QED  BY <1>8, <1>11, <2>1, StagePlanned, Zenon
<1>13. \A p \in U : ~Present(p)'
  BY <1>1, <1>2
<1>14. \A n \in users' : \E p \in Names(n)' : p \in Z \/ p \notin U
  <2>1. \A n, p : p \in Names(n)' => Present(p)'
    BY DEF Names, Present
  <2> QED  BY <1>13, <2>1
<1> QED  BY <1>12, <1>13, <1>14, PlannedReady, Zenon

(* A plugin of ours is replaced.                                           *)
LEMMA InstallOver ==
  ASSUME NEW path, NEW staged, NEW probe, NEW aside, Names3(path, staged, probe, aside)',
         dir[path] \in Nat, body[dir[path]] \in Ours,
         \A n \in users' : \E q \in Names(n)' : TRUE,
         NEW r \in Seq(PlanStep), \A i \in 1 .. Len(r) : r[i].act = "release",
         NEW o1, o1 = << S("restore", aside) >> \o << S("fail", path) >>,
         NEW o2, o2 = << S("restore", aside) >> \o Discard(staged) \o << S("fail", path) >>,
         NEW o3, o3 = Discard(staged) \o << S("fail", path) >>,
         NEW q1, q1 = PublishedAt(path, staged, o1, o2, Discard(aside) \o r),
         NEW q2, q2 = Quarantine(path, aside, o3) \o q1,
         NEW q3, q3 = Probed(staged, probe, q2),
         NEW t, t = Staged(staged, q3)
  PROVE  StepsOK(t)'
<1>1. /\ path \in Paths /\ staged \in Paths /\ aside \in Paths /\ Long(staged) /\ Long(aside)
      /\ staged[1] = path[1] /\ aside[1] = path[1] /\ Base(aside) = path
      /\ Numbered(path)' /\ Numbered(staged)' /\ Numbered(aside)'
      /\ path # staged /\ path # aside /\ staged # aside /\ ~Present(staged)' /\ ~Present(aside)'
  BY DEF Names3
<1>2. /\ probe \in Paths /\ Long(probe) /\ probe[1] = staged[1] /\ Numbered(probe)' /\ ~Present(probe)'
      /\ path # probe /\ staged # probe /\ probe # aside
  BY DEF Names3
<1>3. PICK Z, b, s, U : Z = {} /\ b = {aside} /\ s = {staged} /\ U = {aside, staged}
  OBVIOUS
<1>4. Planned(r, {}, {}, {}, {}, {}, {}, {})'
  BY PlannedReleases
<1>5. PICK r3 : r3 = Discard(aside) \o r
  OBVIOUS
<1>6. Planned(r3, {}, b, {}, {}, {}, {}, {})'
  <2>1. b = {} \cup {aside}
    BY <1>3
  <2>2. Planned(Discard(aside) \o r, {}, b, {}, {}, {}, {}, {})'
    BY <1>1, <1>4, <2>1, ConsDiscard
  <2> QED  BY <1>5, <2>2
<1>7. FallOK(o1, b, {}) /\ FallOK(o2, b, {staged}) /\ FallOK(o3, {}, s)
  BY <1>1, <1>3, Fallbacks
<1>8. BackOK(aside)'
  BY <1>1 DEF BackOK
<1>9. Publishing(path, aside, staged, o1, o2, b, r3)'
  BY <1>1, <1>3, <1>6, <1>7, <1>8 DEF Publishing
<1>10. Planned(q1, b, U, U, U, {}, {}, {})'
  <2>1. U = b \cup {staged}
    BY <1>3
  <2>2. q1 = << Move("link", staged, path, o2) >>
               \o (<< S("retain", path) >>
                     \o (Discard(staged) \o (<< [act |-> "current", at |-> path, otherwise |-> o1] >> \o r3)))
    BY <1>5, Zenon DEF PublishedAt
  <2> QED  BY <1>9, <2>1, <2>2, PublishPlan, Zenon
<1>11. Movable(path, aside, o3, s, q1, b, U, U, U, Z, Z)'
  BY <1>1, <1>3, <1>7, <1>10 DEF Movable
<1>12. Planned(q2, b, U, U, s, b, b, {})'
  <2>1. b = b \cup {aside} /\ U = U \cup s /\ U = U \cup {aside} /\ s = U \ {aside} /\ b = Z \cup {aside}
    BY <1>1, <1>3
  <2>2. dir[path] \in Nat /\ body[dir[path]] \in Ours
    OBVIOUS
  <2>3. Planned(q2, b \cup {aside}, U \cup s, U \cup {aside}, U \ {aside}, Z \cup {aside}, Z \cup {aside}, {})'
    BY <1>11, <2>2, ConsQuarantine, Zenon
  <2> QED  BY <2>1, <2>3
<1>13. Probing(staged, probe, q2, b, U, U, s, b, b)'
  BY <1>1, <1>2, <1>3, <1>12 DEF Probing
<1>14. PICK U2 : U2 = U \cup {probe}
  OBVIOUS
<1>15. Planned(q3, b, U2, U, s, b, b, {})'
  <2>1. q3 = << S("retain", probe) >> \o (<< Move("link", staged, probe, <<>>) >> \o (Discard(probe) \o q2))
    BY Zenon DEF Probed
  <2> QED  BY <1>13, <1>14, <2>1, ProbePlanned, Zenon
<1>16. Staging(staged, q3, b, U2, U, s, b, b)'
  BY <1>1, <1>3, <1>15 DEF Staging
<1>17. Planned(t, b, U2, U, {}, U, b, s)'
  <2>1. t = << S("retain", staged) >> \o (<< S("create", staged) >> \o (<< S("write", staged) >> \o q3))
    BY Zenon DEF Staged
  <2>2. U = b \cup {staged}
    BY <1>3
  <2> QED  BY <1>16, <2>1, <2>2, StagePlanned, Zenon
<1>18. \A p \in U2 : ~Present(p)'
  BY <1>1, <1>2, <1>3, <1>14
<1>19. U \subseteq U2
  BY <1>14
<1> QED  BY <1>17, <1>18, <1>19, NewsReady, Zenon

(* The pieces of an installation, one step after another.                  *)
Assembles(x1, x2, x3, b, y1, y2, d, z, f, r) ==
  (<< x1, x2, x3 >> \o b \o << y1, y2 >> \o d \o << z >> \o f) \o r
    = << x1 >> \o (<< x2 >> \o (<< x3 >> \o (b \o (<< y1 >> \o (<< y2 >> \o (d \o (<< z >> \o (f \o r))))))))

(* The pieces fit together.                                                *)
LEMMA Assembling ==
  ASSUME NEW x1, NEW x2, NEW x3, NEW b, NEW y1, NEW y2, NEW d, NEW z, NEW f, NEW r
  PROVE  /\ x1 \in PlanStep /\ x2 \in PlanStep /\ x3 \in PlanStep /\ b \in Seq(PlanStep)
         /\ y1 \in PlanStep /\ y2 \in PlanStep /\ d \in Seq(PlanStep) /\ z \in PlanStep
         /\ f \in Seq(PlanStep) /\ r \in Seq(PlanStep)
         => Assembles(x1, x2, x3, b, y1, y2, d, z, f, r)
<1>1. SUFFICES ASSUME /\ x1 \in PlanStep /\ x2 \in PlanStep /\ x3 \in PlanStep /\ b \in Seq(PlanStep)
                      /\ y1 \in PlanStep /\ y2 \in PlanStep /\ d \in Seq(PlanStep) /\ z \in PlanStep
                      /\ f \in Seq(PlanStep) /\ r \in Seq(PlanStep)
               PROVE  Assembles(x1, x2, x3, b, y1, y2, d, z, f, r)
  OBVIOUS
<1>2. PICK x, y, w : x = << x1, x2, x3 >> /\ y = << y1, y2 >> /\ w = << z >>
  OBVIOUS
<1>3. x \in Seq(PlanStep) /\ y \in Seq(PlanStep) /\ w \in Seq(PlanStep)
  BY <1>1, <1>2
<1>4. Chains(x, b, y, d, w, f, r)
  BY <1>1, <1>3, SevenPieces, Zenon
<1>5. PICK v1 : v1 = f \o r
  OBVIOUS
<1>6. v1 \in Seq(PlanStep)
  BY <1>1, <1>5
<1>7. PICK v2 : v2 = w \o v1
  OBVIOUS
<1>8. v2 \in Seq(PlanStep)
  BY <1>3, <1>6, <1>7
<1>9. PICK v3 : v3 = d \o v2
  OBVIOUS
<1>10. v3 \in Seq(PlanStep)
  BY <1>1, <1>8, <1>9
<1>11. PICK v4 : v4 = y \o v3
  OBVIOUS
<1>12. v4 \in Seq(PlanStep)
  BY <1>3, <1>10, <1>11
<1>13. PICK v5 : v5 = b \o v4
  OBVIOUS
<1>14. v5 \in Seq(PlanStep)
  BY <1>1, <1>12, <1>13
<1>15. << y1, y2 >> \o v3 = << y1 >> \o (<< y2 >> \o v3)
  BY <1>1, <1>10, TwoCons
<1>16. << x1, x2, x3 >> \o v5 = << x1 >> \o (<< x2 >> \o (<< x3 >> \o v5))
  BY <1>1, <1>14, PlanCons, SMTT(60)
<1> QED  BY <1>2, <1>4, <1>5, <1>7, <1>9, <1>11, <1>13, <1>15, <1>16, Zenon DEF Chains, Assembles

(* The name of a stage is new,                                             *)
LEMMA StageName ==
  ASSUME DirOK, NEW path \in Paths, NEW b, b = Beside(path, "stage"), dir' = dir,
         used'.names = used.names + 1
  PROVE  /\ b \in Paths /\ Long(b) /\ Len(b) = Len(path) + 2 /\ b[1] = path[1] /\ Base(b) = path /\ b # path
         /\ b[Len(path) + 1] = "stage" /\ Numbered(b)' /\ ~Present(b) /\ ~Present(b)'
<1>1. PICK k \in {"stage", "probe", "quarantine"} : k = "stage"
  OBVIOUS
<1>2. b = Beside(path, k)
  BY <1>1
<1>3. /\ b \in Paths /\ Long(b) /\ Len(b) = Len(path) + 2 /\ b[1] = path[1] /\ Base(b) = path /\ b # path
      /\ b[Len(path) + 1] = k /\ Numbered(b)' /\ ~Present(b) /\ ~Present(b)'
  BY <1>2, FreshName, Zenon
<1> QED  BY <1>1, <1>3

(* and so is that of its probe.                                            *)
LEMMA ProbeName ==
  ASSUME DirOK, NEW path \in Paths, NEW b, b = Beside(path, "probe"), dir' = dir,
         used'.names = used.names + 1
  PROVE  /\ b \in Paths /\ Long(b) /\ Len(b) = Len(path) + 2 /\ b[1] = path[1] /\ Base(b) = path /\ b # path
         /\ b[Len(path) + 1] = "probe" /\ Numbered(b)' /\ ~Present(b) /\ ~Present(b)'
<1>1. PICK k \in {"stage", "probe", "quarantine"} : k = "probe"
  OBVIOUS
<1>2. b = Beside(path, k)
  BY <1>1
<1>3. /\ b \in Paths /\ Long(b) /\ Len(b) = Len(path) + 2 /\ b[1] = path[1] /\ Base(b) = path /\ b # path
      /\ b[Len(path) + 1] = k /\ Numbered(b)' /\ ~Present(b) /\ ~Present(b)'
  BY <1>2, FreshName, SMTT(60)
<1> QED  BY <1>1, <1>3

(* The names that an installation chooses.                                 *)
LEMMA InstallNames ==
  ASSUME DirOK, NEW path \in Canon, dir' = dir, used'.names = used.names + 1,
         NEW staged, staged = Beside(path, "stage"), NEW aside, aside = Beside(path, "quarantine"),
         NEW probe, probe = Beside(staged, "probe")
  PROVE  Names3(path, staged, probe, aside)'
<1>1. path \in Paths /\ Len(path) = 1
  BY DEF Canon
<1>5. /\ staged \in Paths /\ Long(staged) /\ Len(staged) = Len(path) + 2 /\ staged[1] = path[1]
      /\ Base(staged) = path /\ staged # path
      /\ staged[Len(path) + 1] = "stage" /\ Numbered(staged)' /\ ~Present(staged) /\ ~Present(staged)'
  BY <1>1, StageName, Zenon
<1>6. /\ probe \in Paths /\ Long(probe) /\ Len(probe) = Len(staged) + 2 /\ probe[1] = staged[1]
      /\ Base(probe) = staged /\ probe # staged
      /\ probe[Len(staged) + 1] = "probe" /\ Numbered(probe)' /\ ~Present(probe) /\ ~Present(probe)'
  BY <1>5, ProbeName, Zenon
<1>7. /\ aside \in Paths /\ Long(aside) /\ Len(aside) = Len(path) + 2 /\ aside[1] = path[1]
      /\ Base(aside) = path /\ aside # path
      /\ aside[Len(path) + 1] = "quarantine" /\ Numbered(aside)' /\ ~Present(aside) /\ ~Present(aside)'
  BY <1>1, AsideName, Zenon
<1>8. Numbered(path)'
  BY <1>1 DEF Numbered, Long
<1>9. staged # aside
  BY <1>5, <1>7
<1>10. probe # path /\ probe # aside
  <2>1. Len(staged) = 3 /\ Len(probe) = 5 /\ Len(aside) = 3
    <3>1. Len(staged) = Len(path) + 2 /\ Len(probe) = Len(staged) + 2 /\ Len(aside) = Len(path) + 2
      BY <1>5, <1>6, <1>7, Zenon
    <3>2. PICK l, m, n : l = Len(staged) /\ m = Len(probe) /\ n = Len(aside)
      OBVIOUS
    <3>3. l = 1 + 2 /\ m = l + 2 /\ n = 1 + 2
      BY <1>1, <3>1, <3>2, Zenon
    <3>4. l = 3 /\ m = 5 /\ n = 3
      BY <3>3
    <3> QED  BY <3>2, <3>4, Zenon
  <2> QED  BY <1>1, <2>1
<1> QED  BY <1>1, <1>5, <1>6, <1>7, <1>8, <1>9, <1>10 DEF Names3

(* What is planned to publish a plugin where there is none.                *)
LEMMA FreshPlan ==
  ASSUME NEW path \in Paths, NEW staged \in Paths, staged = Beside(path, "stage"), ~Owned(path),
         NEW r \in Seq(PlanStep)
  PROVE  /\ Installation(path) \o r
              = Staged(staged, PublishedAt(path, staged, << S("fail", path) >>,
                                           Discard(staged) \o << S("fail", path) >>, r))
         /\ Installation(path) \in Seq(PlanStep)
<1> DEFINE f == << S("fail", path) >>
           x1 == S("retain", staged)
           x2 == S("create", staged)
           x3 == S("write", staged)
           d == Discard(staged)
           y1 == Move("link", staged, path, <<>> \o d \o f)
           y2 == S("retain", path)
           z == [act |-> "current", at |-> path, otherwise |-> <<>> \o f]
           I == << x1, x2, x3 >> \o <<>> \o << y1, y2 >> \o d \o << z >> \o <<>>
<1>1. Installation(path) = I
  BY DEF Installation
<1>2. f \in Seq(FallStep) /\ d \in Seq(FallStep) /\ d \in Seq(PlanStep)
  BY DEF S, FallStep, PlanStep, Discard
<1> HIDE DEF f, d
<1>3. <<>> \o f = f /\ <<>> \o d = d
  BY <1>2
<1>4. d \o f \in Seq(FallStep)
  BY <1>2
<1>5. x1 \in PlanStep /\ x2 \in PlanStep /\ x3 \in PlanStep /\ y2 \in PlanStep
  BY DEF S, PlanStep
<1>6. y1 = Move("link", staged, path, d \o f) /\ z = [act |-> "current", at |-> path, otherwise |-> f]
  BY <1>3
<1>7. y1 \in PlanStep /\ z \in PlanStep
  BY <1>2, <1>4, <1>6 DEF Move, PlanStep
<1> HIDE DEF x1, x2, x3, y1, y2, z
<1>8. PICK e : e = <<>>
  OBVIOUS
<1>9. e \in Seq(PlanStep) /\ r \in Seq(PlanStep)
  BY <1>8
<1>10. Assembles(x1, x2, x3, e, y1, y2, d, z, e, r)
  BY <1>2, <1>5, <1>7, <1>9, Assembling, Zenon
<1> DEFINE v1 == << z >> \o r
           v2 == d \o v1
           v3 == << y2 >> \o v2
           v4 == << y1 >> \o v3
<1>11. v1 \in Seq(PlanStep)
  BY <1>7
<1> HIDE DEF v1
<1>12. v2 \in Seq(PlanStep)
  BY <1>2, <1>11
<1> HIDE DEF v2
<1>13. v3 \in Seq(PlanStep)
  BY <1>5, <1>12
<1> HIDE DEF v3
<1>14. v4 \in Seq(PlanStep)
  BY <1>7, <1>13
<1> HIDE DEF v4
<1>15. e \o r = r /\ e \o v4 = v4
  BY <1>8, <1>14
<1>16. I \o r = << x1 >> \o (<< x2 >> \o (<< x3 >> \o v4))
  BY <1>8, <1>10, <1>15, Zenon DEF Assembles, v1, v2, v3, v4
<1>17. I \in Seq(PlanStep)
  <2>1. << x1, x2, x3 >> \in Seq(PlanStep) /\ << y1, y2 >> \in Seq(PlanStep) /\ << z >> \in Seq(PlanStep)
    BY <1>5, <1>7
  <2> QED  BY <1>2, <2>1
<1>18. v4 = PublishedAt(path, staged, f, d \o f, r)
  BY <1>6, Zenon DEF PublishedAt, v1, v2, v3, v4, y2, d
<1> QED  BY <1>1, <1>16, <1>17, <1>18, Zenon DEF Staged, x1, x2, x3, f, d

(* What is planned to replace a plugin.                                    *)
Replaces(path, staged, probe, aside, o1, o2, o3) ==
  /\ path \in Paths /\ staged \in Paths /\ aside \in Paths /\ probe \in Paths
  /\ staged = Beside(path, "stage") /\ aside = Beside(path, "quarantine") /\ probe = Beside(staged, "probe")
  /\ Owned(path) /\ dir[path] \in Nat
  /\ o1 = << S("restore", aside) >> \o << S("fail", path) >>
  /\ o2 = << S("restore", aside) >> \o Discard(staged) \o << S("fail", path) >>
  /\ o3 = Discard(staged) \o << S("fail", path) >>

ReplacedBy(path, staged, probe, aside, o1, o2, o3, r) ==
  Installation(path) \o r
    = Staged(staged, Probed(staged, probe,
        Quarantine(path, aside, o3) \o PublishedAt(path, staged, o1, o2, Discard(aside) \o r)))

(* Such an installation is planned in this order.                          *)
LEMMA OverPlan ==
  ASSUME NEW path, NEW staged, NEW probe, NEW aside, NEW o1, NEW o2, NEW o3, NEW r,
         Replaces(path, staged, probe, aside, o1, o2, o3), r \in Seq(PlanStep)
  PROVE  ReplacedBy(path, staged, probe, aside, o1, o2, o3, r)
<1>0. /\ path \in Paths /\ staged \in Paths /\ aside \in Paths /\ probe \in Paths
      /\ staged = Beside(path, "stage") /\ aside = Beside(path, "quarantine") /\ probe = Beside(staged, "probe")
      /\ Owned(path) /\ dir[path] \in Nat
      /\ o1 = << S("restore", aside) >> \o << S("fail", path) >>
      /\ o2 = << S("restore", aside) >> \o Discard(staged) \o << S("fail", path) >>
      /\ o3 = Discard(staged) \o << S("fail", path) >>
  BY Zenon DEF Replaces
<1> DEFINE x1 == S("retain", staged)
           x2 == S("create", staged)
           x3 == S("write", staged)
           d == Discard(staged)
           g == Discard(aside)
           h == Discard(probe)
           q == Quarantine(path, aside, o3)
           w1 == S("retain", probe)
           w2 == Move("link", staged, probe, <<>>)
           w == << w1, w2 >> \o h
           b == w \o q
           y1 == Move("link", staged, path, o2)
           y2 == S("retain", path)
           z == [act |-> "current", at |-> path, otherwise |-> o1]
           I == << x1, x2, x3 >> \o b \o << y1, y2 >> \o d \o << z >> \o g
<1>1. Installation(path) = I
  BY <1>0 DEF Installation, Probe
<1>2. d \in Seq(FallStep) /\ d \in Seq(PlanStep) /\ g \in Seq(PlanStep) /\ h \in Seq(PlanStep)
  BY <1>0 DEF S, FallStep, PlanStep, Discard
<1>3. o1 \in Seq(FallStep) /\ o2 \in Seq(FallStep) /\ o3 \in Seq(FallStep)
  <2>1. << S("fail", path) >> \in Seq(FallStep) /\ << S("restore", aside) >> \in Seq(FallStep)
    BY <1>0 DEF S, FallStep
  <2> HIDE DEF d
  <2> QED  BY <1>0, <1>2, <2>1 DEF d
<1>4. q \in Seq(PlanStep)
  BY <1>0, <1>3, QuarantineIs DEF Owned
<1>5. x1 \in PlanStep /\ x2 \in PlanStep /\ x3 \in PlanStep /\ y2 \in PlanStep /\ w1 \in PlanStep
  BY <1>0 DEF S, PlanStep
<1>6. y1 \in PlanStep /\ z \in PlanStep /\ w2 \in PlanStep
  BY <1>0, <1>3 DEF Move, PlanStep
<1> HIDE DEF x1, x2, x3, y1, y2, z, d, g, h, q, w1, w2
<1>7. << w1, w2 >> \in Seq(PlanStep)
  BY <1>5, <1>6
<1>8. w \in Seq(PlanStep)
  BY <1>2, <1>7
<1> HIDE DEF w
<1>9. b \in Seq(PlanStep)
  BY <1>4, <1>8
<1> HIDE DEF b
<1>10. Assembles(x1, x2, x3, b, y1, y2, d, z, g, r)
  BY <1>2, <1>5, <1>6, <1>9, Assembling, Zenon
<1> DEFINE v0 == g \o r
           v1 == << z >> \o v0
           v2 == d \o v1
           v3 == << y2 >> \o v2
           v4 == << y1 >> \o v3
           v5 == q \o v4
           v6 == h \o v5
<1>11. v0 \in Seq(PlanStep)
  BY <1>2
<1> HIDE DEF v0
<1>12. v1 \in Seq(PlanStep)
  BY <1>6, <1>11
<1> HIDE DEF v1
<1>13. v2 \in Seq(PlanStep)
  BY <1>2, <1>12
<1> HIDE DEF v2
<1>14. v3 \in Seq(PlanStep)
  BY <1>5, <1>13
<1> HIDE DEF v3
<1>15. v4 \in Seq(PlanStep)
  BY <1>6, <1>14
<1> HIDE DEF v4
<1>16. v5 \in Seq(PlanStep)
  BY <1>4, <1>15
<1> HIDE DEF v5
<1>17. v6 \in Seq(PlanStep)
  BY <1>2, <1>16
<1> HIDE DEF v6
<1>18. I \o r = << x1 >> \o (<< x2 >> \o (<< x3 >> \o (b \o v4)))
  BY <1>10, Zenon DEF Assembles, v0, v1, v2, v3, v4
<1>19. b \o v4 = w \o v5
  <2>1. (w \o q) \o v4 = w \o (q \o v4)
    BY <1>4, <1>8, <1>15, ConcatAssociative
  <2> QED  BY <2>1, Zenon DEF b, v5
<1>20. w \o v5 = << w1, w2 >> \o v6
  <2>1. (<< w1, w2 >> \o h) \o v5 = << w1, w2 >> \o (h \o v5)
    <3>1. PICK p : p = << w1, w2 >>
      OBVIOUS
    <3>2. p \in Seq(PlanStep) /\ h \in Seq(PlanStep) /\ v5 \in Seq(PlanStep)
      BY <1>2, <1>7, <1>16, <3>1
    <3>3. (p \o h) \o v5 = p \o (h \o v5)
      BY <3>2, ConcatAssociative
    <3> QED  BY <3>1, <3>3, Zenon
  <2> QED  BY <2>1, Zenon DEF w, v6
<1>21. << w1, w2 >> \o v6 = << w1 >> \o (<< w2 >> \o v6)
  BY <1>5, <1>6, <1>17, TwoCons
<1>22. v4 = PublishedAt(path, staged, o1, o2, g \o r)
  BY Zenon DEF PublishedAt, v0, v1, v2, v3, v4, y1, y2, z, d
<1>23. b \o v4 = Probed(staged, probe, q \o v4)
  BY <1>19, <1>20, <1>21, Zenon DEF Probed, v5, v6, w1, w2, h
<1>25. I \o r = Staged(staged, Probed(staged, probe, q \o PublishedAt(path, staged, o1, o2, g \o r)))
  BY <1>18, <1>22, <1>23, Zenon DEF Staged, x1, x2, x3
<1> QED  BY <1>1, <1>25, Zenon DEF q, g, ReplacedBy

(* A job whose plugin is fresh. *)
LEMMA FreshJob ==
  ASSUME JobOK, NEW s, Rest \in Seq(Task), job' = [Plan(s) EXCEPT !.fresh = TRUE]
  PROVE  JobOK' /\ job'.steps = s
<1>1. PICK h : h = Head(job.tasks)
  OBVIOUS
<1>2. PICK l \in Seq(Task) : l = Rest
  OBVIOUS
<1>3. PICK j : j = job
  OBVIOUS
<1>4. job' = [[j EXCEPT !.now = h, !.tasks = l, !.steps = s] EXCEPT !.fresh = TRUE]
  BY <1>1, <1>2, <1>3 DEF Plan
<1>5. j = Parts(j) /\ (j.cmd # "none" => j.context.install \in Installs)
  BY <1>3, JobIs DEF JobOK
<1>6. /\ job' = Parts(job') /\ job'.tasks = l /\ job'.cmd = j.cmd /\ job'.context = j.context
      /\ job'.steps = s
  BY <1>4, <1>5 DEF Parts
<1> QED  BY <1>5, <1>6, JobIs

(* What is installed, with what follows it, is a plan. *)
LEMMA InstallationOK ==
  ASSUME DirOK, UNCHANGED <<dir, body, users>>, used'.names = used.names + 1,
         \A n \in users' : \E q \in Names(n)' : TRUE,
         NEW path \in Canon, ~Present(path) \/ Owned(path),
         NEW r \in Seq(PlanStep), \A i \in 1 .. Len(r) : r[i].act = "release",
         NEW t, t = Installation(path) \o r
  PROVE  StepsOK(t)'
<1>1. path \in Paths
  BY DEF Canon
<1>2. PICK staged, aside : staged = Beside(path, "stage") /\ aside = Beside(path, "quarantine")
  OBVIOUS
<1>3. PICK probe : probe = Beside(staged, "probe")
  OBVIOUS
<1>4. Names3(path, staged, probe, aside)'
  BY <1>2, <1>3, InstallNames, Zenon
<1>5. staged \in Paths /\ probe \in Paths /\ aside \in Paths
  BY <1>4 DEF Names3
<1>6. CASE ~Owned(path)
  <2>1. t = Staged(staged, PublishedAt(path, staged, << S("fail", path) >>,
                                       Discard(staged) \o << S("fail", path) >>, r))
    BY <1>1, <1>2, <1>5, <1>6, FreshPlan, Zenon
  <2> QED  BY <1>4, <2>1, InstallFresh, Zenon
<1>7. CASE Owned(path)
  <2>1. dir[path] \in Nat /\ body[dir[path]] \in Ours
    BY <1>7 DEF Owned, Present, DirOK
  <2>2. PICK o1, o2, o3 :
          /\ o1 = << S("restore", aside) >> \o << S("fail", path) >>
          /\ o2 = << S("restore", aside) >> \o Discard(staged) \o << S("fail", path) >>
          /\ o3 = Discard(staged) \o << S("fail", path) >>
    BY Zenon
  <2>3. PICK q1 : q1 = PublishedAt(path, staged, o1, o2, Discard(aside) \o r)
    OBVIOUS
  <2>4. PICK q2 : q2 = Quarantine(path, aside, o3) \o q1
    OBVIOUS
  <2>5. PICK q3 : q3 = Probed(staged, probe, q2)
    OBVIOUS
  <2>6. t = Staged(staged, q3)
    <3>1. path \in Paths /\ staged \in Paths /\ aside \in Paths /\ probe \in Paths /\ dir[path] \in Nat
      BY <1>1, <1>5, <2>1
    <3>2. Replaces(path, staged, probe, aside, o1, o2, o3)
      BY <1>2, <1>3, <1>7, <2>2, <3>1, Zenon DEF Replaces
    <3>3. ReplacedBy(path, staged, probe, aside, o1, o2, o3, r)
      BY <3>2, OverPlan, Zenon
    <3> QED  BY <2>3, <2>4, <2>5, <3>3, Zenon DEF ReplacedBy
  <2> QED  BY <1>4, <2>1, <2>2, <2>3, <2>4, <2>5, <2>6, InstallOver, Zenon
<1> QED  BY <1>6, <1>7

(* A plugin is installed, replaced, or found in place.                     *)
LEMMA EnsureStep ==
  ASSUME PluginInv, Ensure
  PROVE  PluginInv'
<1>1. OnTask("ensure") /\ UNCHANGED <<dir, body, users, journal, install, home>>
  BY DEF Ensure, disk, saved, others
<1>2. PICK path \in Canon : path = Path
  BY <1>1, TaskIs
<1>3. path \in Paths
  BY DEF Canon
<1>4. Rest \in Seq(Task) /\ JobOK /\ DirOK /\ StepsOK(job.steps)
  BY <1>1, TaskIs DEF PluginInv
<1>5. PICK s : s = job.steps
  OBVIOUS
<1>6. \A n \in users' : \E q \in Names(n)' : TRUE
  BY <1>1, <1>4, <1>5, Named
<1>7. used = [used EXCEPT !.names = @ + 0]
  BY <1>4 DEF DirOK
<1>8. ASSUME NEW t, Touchless(t), job' = Plan(t), used' = used
      PROVE  PluginInv'
  <2>1. StepsOK(t)'
    BY <1>6, <1>8, TouchlessPlan
  <2>2. JobOK' /\ job'.steps = t
    BY <1>4, <1>8, PlanIsJob
  <2>3. PICK k \in {0, 1} : k = 0
    OBVIOUS
  <2>4. used' = [used EXCEPT !.names = @ + k]
    BY <1>7, <1>8, <2>3
  <2> QED  BY <1>1, <2>1, <2>2, <2>4, TaskPlans
<1> DEFINE r == IF Head(job.tasks).failing = "retain" THEN << S("release", Path) >> ELSE <<>>
<1>9. \/ job' = Plan(<<>>) /\ UNCHANGED used
      \/ /\ ~Present(path) \/ Owned(path)
         /\ job' = [Plan(Installation(path) \o r) EXCEPT !.fresh = TRUE]
         /\ used' = [used EXCEPT !.names = @ + 1]
      \/ job' = Plan(<< S("fail", path) >>) /\ UNCHANGED used
  <2>1. body \in Seq({"torn", "current", "older", "foreign"}) /\ (Present(path) => dir[path] \in 1 .. Len(body))
    BY <1>4 DEF DirOK, Present
  <2>2. Present(path) => body[dir[path]] # "missing"
    <3> SUFFICES ASSUME Present(path) PROVE body[dir[path]] # "missing"
      OBVIOUS
    <3>1. body[dir[path]] \in {"torn", "current", "older", "foreign"}
      BY <2>1
    <3> QED  BY <3>1
  <2> QED  BY <1>2, <2>2 DEF Ensure
<1>10. CASE job' = Plan(<<>>) /\ UNCHANGED used
  BY <1>8, <1>10, NoSteps
<1>11. CASE job' = Plan(<< S("fail", path) >>) /\ UNCHANGED used
  <2>1. Touchless(<< S("fail", path) >>)
    BY <1>3, OneStep
  <2> QED  BY <1>8, <1>11, <2>1
<1>12. CASE /\ ~Present(path) \/ Owned(path)
            /\ job' = [Plan(Installation(path) \o r) EXCEPT !.fresh = TRUE]
            /\ used' = [used EXCEPT !.names = @ + 1]
  <2>1. S("release", Path) \in PlanStep /\ S("release", Path).act = "release"
    BY <1>2, <1>3 DEF S, PlanStep
  <2>2. r \in Seq(PlanStep) /\ \A i \in 1 .. Len(r) : r[i].act = "release"
    <3>1. CASE r = <<>>
      BY <3>1
    <3>2. CASE r = << S("release", Path) >>
      BY <2>1, <3>2
    <3> QED  BY <3>1, <3>2
  <2> HIDE DEF r
  <2>3. PICK e \in Seq(PlanStep) : e = r /\ \A i \in 1 .. Len(e) : e[i].act = "release"
    BY <2>2
  <2>4. PICK t : t = Installation(path) \o e
    OBVIOUS
  <2>5. used'.names = used.names + 1
    BY <1>4, <1>12 DEF DirOK
  <2>6. StepsOK(t)'
    BY <1>1, <1>4, <1>6, <1>12, <2>3, <2>4, <2>5, InstallationOK
  <2>7. job' = [Plan(t) EXCEPT !.fresh = TRUE]
    BY <1>12, <2>3, <2>4
  <2>8. JobOK' /\ job'.steps = t
    BY <1>4, <2>7, FreshJob
  <2>9. PICK k \in {0, 1} : k = 1
    OBVIOUS
  <2>10. used' = [used EXCEPT !.names = @ + k]
    BY <1>12, <2>9
  <2> QED  BY <1>1, <2>6, <2>8, <2>10, TaskPlans
<1> QED  BY <1>9, <1>10, <1>11, <1>12

(* The user changes one canonical name: another file is there, or none, or *)
(* the file has become the user's.  No other file of the user's is touched. *)
UserAt(p, lo, hi) ==
  /\ p \in Canon
  /\ \A q : q # p => (Present(q)' <=> Present(q)) /\ (Present(q) => dir'[q] = dir[q])
  /\ Present(p)' => dir'[p] \notin 1 .. lo \/ (Present(p) /\ dir'[p] = dir[p])
  /\ lo \in Nat /\ hi \in Nat /\ lo <= hi
  /\ \A n \in users' : n \notin users => p \in Names(n)'
  /\ \A n \in users' : n \in users /\ p \in Names(n) => p \in Names(n)'

(* No plan is thrown off by that: all it does is under names of its own.   *)
LEMMA UserPlan ==
  ASSUME DirOK, DirOK', NEW p, UserAt(p, Len(body), Len(body')), used'.names = used.names,
         NEW t, StepsOK(t)
  PROVE  StepsOK(t)'
<1>1. /\ p \in Canon /\ ~Long(p)
      /\ \A q : q # p => (Present(q)' <=> Present(q)) /\ (Present(q) => dir'[q] = dir[q])
      /\ Present(p)' => dir'[p] \notin 1 .. Len(body) \/ (Present(p) /\ dir'[p] = dir[p])
      /\ Len(body) \in Nat /\ Len(body') \in Nat /\ Len(body) <= Len(body')
      /\ \A n \in users' : n \notin users => p \in Names(n)'
      /\ \A n \in users' : n \in users /\ p \in Names(n) => p \in Names(n)'
  <2>1. p \in Canon
    BY DEF UserAt
  <2>2. ~Long(p)
    <3>1. Len(p) = 1
      BY <2>1 DEF Canon
    <3> QED  BY <3>1 DEF Long
  <2> QED  BY <2>1, <2>2, Zenon DEF UserAt
<1>2. t \in Seq(PlanStep) /\ Ordered(t) /\ Ready(t) /\ \A i \in 1 .. Len(t) : t[i] \in PlanStep /\ Single(t[i])
  BY DEF StepsOK, Ordered
<1>3. Ordered(t)'
  <2>1. used.names \in Nat /\ used'.names \in Nat /\ used.names <= used'.names
    BY DEF DirOK
  <2> QED  BY <1>2, <2>1, OrderedStays
<1>4. \A q, n : q # p => (q \in Names(n)' <=> q \in Names(n))
  BY <1>1 DEF Names, Present
<1>5. \A q \in DOMAIN dir : dir[q] \in 1 .. Len(body)
  BY DEF DirOK
<1>6. \A n : p \in Names(n)' => p \in Names(n) \/ n \notin 1 .. Len(body)
  BY <1>1 DEF Names, Present
<1>7. ASSUME NEW i \in 1 .. Len(t), NEW q \in NeedsOf(t[i]) \cup MadeBy(t[i]) \cup UnlinksOf(t[i])
      PROVE  q # p
  <2>1. Long(q)
    BY <1>2 DEF Single, BackOK, NeedsOf, MadeBy
  <2> QED  BY <1>1, <2>1
<1>8. ASSUME NEW n \in users' PROVE \E q \in Names(n)' : q \notin Doomed(t)
  <2>1. p \notin Doomed(t)
    BY <1>7, InDoomed
  <2>2. CASE n \notin users
    BY <1>1, <2>1, <2>2
  <2>3. CASE n \in users
    <3>1. PICK q \in Names(n) : q \notin Doomed(t)
      BY <1>2, <2>3 DEF Ready
    <3> QED  BY <1>1, <1>4, <2>3, <3>1
  <2> QED  BY <2>2, <2>3
<1>9. ASSUME NEW i \in 1 .. Len(t), NEW q \in NeedsOf(t[i])
      PROVE  Present(q)' \/ \E k \in 1 .. i - 1 : q \in MadeBy(t[k])
  BY <1>1, <1>2, <1>7 DEF Ready
<1>10. ASSUME NEW i \in 1 .. Len(t), NEW q \in MadeBy(t[i]) PROVE ~Present(q)'
  BY <1>1, <1>2, <1>7 DEF Ready
<1>11. ASSUME NEW i \in 1 .. Len(t), t[i].act = "write"
       PROVE  (\E k \in 1 .. i - 1 : t[i].at \in MadeBy(t[k])) \/ Secluded(dir[t[i].at])'
  <2>1. t[i].at \in NeedsOf(t[i])
    BY <1>11 DEF NeedsOf
  <2>2. CASE \E k \in 1 .. i - 1 : t[i].at \in MadeBy(t[k])
    BY <2>2
  <2>3. CASE ~ \E k \in 1 .. i - 1 : t[i].at \in MadeBy(t[k])
    <3>1. Present(t[i].at) /\ Secluded(dir[t[i].at])
      BY <1>2, <1>11, <2>1, <2>3 DEF Ready
    <3>2. dir'[t[i].at] = dir[t[i].at]
      BY <1>1, <1>7, <2>1, <3>1
    <3>3. PICK f : f = dir[t[i].at]
      OBVIOUS
    <3>4. f \in 1 .. Len(body) /\ f \notin users /\ \A q \in Names(f) : Long(q)
      BY <1>5, <3>1, <3>3 DEF Present, Secluded
    <3>5. p \notin Names(f)'
      BY <1>1, <1>6, <3>4
    <3>6. f \notin users' /\ \A q \in Names(f)' : Long(q)
      BY <1>1, <1>4, <3>4, <3>5
    <3>7. Secluded(f)'
      BY <3>6 DEF Secluded
    <3> QED  BY <3>2, <3>3, <3>6 DEF Secluded, Names
  <2> QED  BY <2>2, <2>3
<1>12. ASSUME NEW i \in 1 .. Len(t), t[i].act = "drop" PROVE DropOK(t[i])'
  <2>1. PICK x : x = t[i]
    OBVIOUS
  <2>2. DropOK(x)
    BY <1>2, <1>12, <2>1 DEF Ready
  <2>3. PICK f, a : f = x.file /\ a = x.at
    OBVIOUS
  <2>4. f \in 1 .. Len(body) /\ f \in 1 .. Len(body')
    BY <1>1, <2>2, <2>3 DEF DropOK
  <2>5. ASSUME Present(a)', dir'[a] = f
        PROVE  \/ \E q \in Names(f)' : q # a /\ Long(q)
               \/ Long(a) /\ (f \in users' => \E q \in Names(f)' : q # a)
    <3>1. Present(a) /\ dir[a] = f
      BY <1>1, <2>4, <2>5
    <3>2. \/ \E q \in Names(f) : q # a /\ Long(q)
          \/ Long(a) /\ (f \in users => \E q \in Names(f) : q # a)
      BY <2>2, <2>3, <3>1 DEF DropOK
    <3>3. CASE \E q \in Names(f) : q # a /\ Long(q)
      BY <1>1, <1>4, <3>3
    <3>4. CASE Long(a) /\ (f \in users => \E q \in Names(f) : q # a)
      <4>1. ASSUME f \in users' PROVE \E q \in Names(f)' : q # a
        <5>1. CASE f \notin users
          BY <1>1, <3>4, <4>1, <5>1
        <5>2. CASE f \in users
          <6>1. PICK q \in Names(f) : q # a
            BY <3>4, <5>2
          <6> QED  BY <1>1, <1>4, <4>1, <5>2, <6>1
        <5> QED  BY <5>1, <5>2
      <4> QED  BY <3>4, <4>1
    <3> QED  BY <3>2, <3>3, <3>4
  <2>6. DropOK(x)'
    BY <2>3, <2>4, <2>5 DEF DropOK, Names, Present
  <2> QED  BY <2>1, <2>6 DEF DropOK, Names, Present
<1>13. Ready(t)'
  BY <1>8, <1>9, <1>10, <1>11, <1>12 DEF Ready
<1> QED  BY <1>2, <1>3, <1>13 DEF StepsOK

(* The user's step keeps the job and what is saved. *)
LEMMA UserInv ==
  ASSUME PluginInv, DirOK', NEW p, UserAt(p, Len(body), Len(body')), used'.names = used.names,
         UNCHANGED <<job, journal, install, home>>
  PROVE  PluginInv'
<1>1. PICK t : t = job.steps
  OBVIOUS
<1>2. StepsOK(t)'
  BY <1>1, UserPlan DEF PluginInv
<1>3. SavedOK' /\ JobOK'
  BY DEF PluginInv, SavedOK, JobOK
<1>4. job'.steps = t
  BY <1>1
<1> QED  BY <1>2, <1>3, <1>4 DEF PluginInv

(* The plugin's place in a directory.                                      *)
LEMMA CanonIs ==
  ASSUME NEW h \in Home
  PROVE  <<h>> \in Canon /\ <<h>> \in Paths /\ Len(<<h>>) = 1 /\ <<h>>[1] = h /\ Numbered(<<h>>)'
<1> DEFINE U == Home \cup Nat \cup {"stage", "probe", "quarantine"}
<1>1. h \in U
  OBVIOUS
<1> HIDE DEF U
<1>2. << h >> \in Seq(U) /\ Len(<< h >>) = 1 /\ << h >>[1] = h
  BY <1>1
<1> QED  BY <1>2 DEF Canon, Paths, U, Numbered, Long

(* The user's steps count as edits and choose no names of ours.            *)
LEMMA EditsIs ==
  ASSUME DirOK, Edits
  PROVE  /\ used' \in [names : Nat, commands : Nat, edits : Nat, deaths : Nat] /\ used'.names = used.names
         /\ \A p : Numbered(p) => Numbered(p)'
<1>1. used' \in [names : Nat, commands : Nat, edits : Nat, deaths : Nat] /\ used'.names = used.names
  BY DEF DirOK, Edits
<1> QED  BY <1>1 DEF Numbered

(* The user deletes a plugin or a file of the user's,                      *)
LEMMA DeleteStep ==
  ASSUME PluginInv, NEW h \in Home, DeleteFile(<<h>>)
  PROVE  PluginInv'
<1>1. PICK p : p = <<h>>
  OBVIOUS
<1>2. p \in Canon /\ p \in Paths
  BY <1>1, CanonIs
<1>3. /\ Edits /\ Present(p) /\ dir' = Without(p) /\ users' = users \ {dir[p]}
      /\ UNCHANGED <<body, journal, install, job, home>>
  BY <1>1 DEF DeleteFile, saved
<1>4. DirOK /\ body \in Seq({"torn", "current", "older", "foreign"}) /\ Len(body) \in Nat
  BY DEF PluginInv, DirOK
<1>5. DOMAIN dir' = DOMAIN dir \ {p} /\ \A q \in DOMAIN dir' : dir'[q] = dir[q]
  BY <1>3, WithoutIs
<1>6. DirOK'
  <2>1. dir' = [q \in DOMAIN dir' |-> dir'[q]]
    BY <1>3 DEF Without
  <2>2. \A q \in DOMAIN dir' : dir'[q] \in 1 .. Len(body)
    BY <1>4, <1>5 DEF DirOK
  <2>3. dir' \in [DOMAIN dir' -> 1 .. Len(body)]
    BY <2>1, <2>2
  <2>4. \A q \in DOMAIN dir' : q \in Paths /\ Numbered(q)'
    BY <1>3, <1>4, <1>5, EditsIs DEF DirOK
  <2>5. \A q, r \in DOMAIN dir' : dir'[q] = dir'[r] => q[1] = r[1]
    BY <1>4, <1>5 DEF DirOK
  <2>6. \A n \in users' : n \in 1 .. Len(body') /\ body'[n] = "foreign"
    BY <1>3, <1>4 DEF DirOK
  <2> QED  BY <1>3, <1>4, <2>3, <2>4, <2>5, <2>6, EditsIs DEF DirOK
<1>7. UserAt(p, Len(body), Len(body'))
  <2>1. \A q : q # p => (Present(q)' <=> Present(q)) /\ (Present(q) => dir'[q] = dir[q])
    BY <1>5 DEF Present
  <2>2. ~Present(p)'
    BY <1>5 DEF Present
  <2>3. \A n \in users' : n \in users /\ p \notin Names(n)
    BY <1>3 DEF Names
  <2> QED  BY <1>2, <1>3, <1>4, <2>1, <2>2, <2>3 DEF UserAt
<1>8. used'.names = used.names
  BY <1>3, <1>4, EditsIs
<1> QED  BY <1>3, <1>6, <1>7, <1>8, UserInv

(* edits a plugin in place, which may make it the user's,                  *)
LEMMA EditStep ==
  ASSUME PluginInv, NEW h \in Home, EditInPlace(<<h>>)
  PROVE  PluginInv'
<1>1. PICK p : p = <<h>>
  OBVIOUS
<1>2. p \in Canon /\ p \in Paths
  BY <1>1, CanonIs
<1>3. PICK f : f = dir[p]
  OBVIOUS
<1>4. PICK to \in {"older", "foreign"} :
        /\ body' = [body EXCEPT ![f] = to]
        /\ users' = IF to = "foreign" THEN users \cup {f} ELSE users
  BY <1>1, <1>3 DEF EditInPlace
<1>5. Edits /\ Present(p) /\ body[f] \in Ours /\ UNCHANGED <<dir, journal, install, job, home>>
  BY <1>1, <1>3 DEF EditInPlace, saved
<1>6. DirOK /\ body \in Seq({"torn", "current", "older", "foreign"}) /\ Len(body) \in Nat /\ f \in 1 .. Len(body)
  BY <1>3, <1>5 DEF PluginInv, DirOK, Present
<1>7. /\ body' \in Seq({"torn", "current", "older", "foreign"}) /\ Len(body') = Len(body)
      /\ \A n \in 1 .. Len(body) : body'[n] = IF n = f THEN to ELSE body[n]
  BY <1>4, <1>6
<1>8. f \notin users
  BY <1>5, <1>6 DEF DirOK, Ours
<1>9. DirOK'
  <2>1. \A n \in users' : n \in 1 .. Len(body') /\ body'[n] = "foreign"
    <3>1. \A n \in users : n \in 1 .. Len(body) /\ body[n] = "foreign"
      BY <1>6 DEF DirOK
    <3> QED  BY <1>4, <1>6, <1>7, <1>8, <3>1
  <2>2. \A q \in DOMAIN dir' : q \in Paths /\ Numbered(q)'
    BY <1>5, <1>6, EditsIs DEF DirOK
  <2>3. dir' \in [DOMAIN dir' -> 1 .. Len(body')]
    BY <1>5, <1>6, <1>7 DEF DirOK
  <2>4. \A q, r \in DOMAIN dir' : dir'[q] = dir'[r] => q[1] = r[1]
    BY <1>5, <1>6 DEF DirOK
  <2> QED  BY <1>5, <1>6, <1>7, <2>1, <2>2, <2>3, <2>4, EditsIs DEF DirOK
<1>10. UserAt(p, Len(body), Len(body'))
  <2>1. \A q : (Present(q)' <=> Present(q)) /\ (Present(q) => dir'[q] = dir[q])
    BY <1>5 DEF Present
  <2>2. \A n : Names(n)' = Names(n)
    BY <1>5 DEF Names
  <2>3. p \in Names(f)
    BY <1>3, <1>5 DEF Names, Present
  <2>4. \A n \in users' : n \notin users => n = f
    BY <1>4
  <2> QED  BY <1>2, <1>5, <1>6, <1>7, <2>1, <2>2, <2>3, <2>4 DEF UserAt
<1>11. used'.names = used.names
  BY <1>5, <1>6, EditsIs
<1> QED  BY <1>5, <1>9, <1>10, <1>11, UserInv

(* puts another file there,                                                *)
LEMMA PutStep ==
  ASSUME PluginInv, NEW h \in Home, PutFile(<<h>>)
  PROVE  PluginInv'
<1>1. PICK p : p = <<h>>
  OBVIOUS
<1>2. p \in Canon /\ p \in Paths /\ Numbered(p)'
  BY <1>1, CanonIs
<1>3. PICK new : new = Len(body) + 1
  OBVIOUS
<1>4. /\ Edits /\ body' = Append(body, "foreign") /\ dir' = With(p, new)
      /\ users' = (users \cup {new}) \ (IF Present(p) THEN {dir[p]} ELSE {})
      /\ UNCHANGED <<journal, install, job, home>>
  BY <1>1, <1>3 DEF PutFile, NewFile, saved
<1>5. DirOK /\ body \in Seq({"torn", "current", "older", "foreign"}) /\ Len(body) \in Nat
  BY DEF PluginInv, DirOK
<1>6. /\ body' \in Seq({"torn", "current", "older", "foreign"}) /\ Len(body') = new /\ new \in Nat
      /\ (\A n \in 1 .. Len(body) : body'[n] = body[n]) /\ body'[new] = "foreign"
  BY <1>3, <1>4, <1>5
<1>7. /\ DOMAIN dir' = DOMAIN dir \cup {p} /\ dir'[p] = new
      /\ \A q \in DOMAIN dir : q # p => dir'[q] = dir[q]
  BY <1>4, WithIs
<1>8. \A q \in DOMAIN dir : dir[q] \in 1 .. Len(body) /\ q \in Paths /\ Numbered(q)' /\ dir[q] # new
  BY <1>3, <1>4, <1>5, EditsIs DEF DirOK
<1>9. \A n \in users : n \in 1 .. Len(body) /\ body[n] = "foreign" /\ n # new
  BY <1>3, <1>5 DEF DirOK
<1>10. DirOK'
  <2>1. dir' = [q \in DOMAIN dir' |-> dir'[q]]
    BY <1>4 DEF With
  <2>2. \A q \in DOMAIN dir' : dir'[q] \in 1 .. Len(body')
    BY <1>3, <1>5, <1>6, <1>7, <1>8
  <2>3. dir' \in [DOMAIN dir' -> 1 .. Len(body')]
    BY <2>1, <2>2
  <2>4. \A q \in DOMAIN dir' : q \in Paths /\ Numbered(q)'
    BY <1>2, <1>7, <1>8
  <2>5. \A q, r \in DOMAIN dir' : dir'[q] = dir'[r] => q[1] = r[1]
    <3>1. \A q, r \in DOMAIN dir : dir[q] = dir[r] => q[1] = r[1]
      BY <1>5 DEF DirOK
    <3> QED  BY <1>7, <1>8, <3>1
  <2>6. \A n \in users' : n \in 1 .. Len(body') /\ body'[n] = "foreign"
    <3>1. \A n \in users' : n \in users \/ n = new
      BY <1>4
    <3>2. \A n \in 1 .. Len(body) : n \in 1 .. Len(body')
      BY <1>3, <1>5, <1>6
    <3>3. new \in 1 .. Len(body')
      BY <1>3, <1>5, <1>6
    <3> QED  BY <1>6, <1>9, <3>1, <3>2, <3>3
  <2> QED  BY <1>4, <1>5, <1>6, <2>3, <2>4, <2>5, <2>6, EditsIs DEF DirOK
<1>11. UserAt(p, Len(body), Len(body'))
  <2>1. \A q : q # p => (Present(q)' <=> Present(q)) /\ (Present(q) => dir'[q] = dir[q])
    BY <1>7 DEF Present
  <2>2. dir'[p] \notin 1 .. Len(body)
    BY <1>3, <1>5, <1>7
  <2>3. \A n \in users' : n \notin users => n = new
    BY <1>4
  <2>4. p \in Names(new)'
    BY <1>7 DEF Names
  <2>5. \A n \in users' : n \in users => p \notin Names(n)
    <3>1. \A n \in users' : Present(p) => n # dir[p]
      BY <1>4
    <3> QED  BY <3>1 DEF Names, Present
  <2>6. Len(body) \in Nat /\ Len(body') \in Nat /\ Len(body) <= Len(body')
    BY <1>3, <1>5, <1>6
  <2> QED  BY <1>2, <2>1, <2>2, <2>3, <2>4, <2>5, <2>6 DEF UserAt
<1>12. used'.names = used.names
  BY <1>4, <1>5, EditsIs
<1> QED  BY <1>4, <1>10, <1>11, <1>12, UserInv

(* or moves the configuration.                                             *)
LEMMA MoveStep ==
  ASSUME PluginInv, MoveHome
  PROVE  PluginInv'
<1>1. Edits /\ home' \in Home /\ job.cmd = "none" /\ UNCHANGED <<dir, body, users, job, journal, install>>
  BY DEF MoveHome, NoCommand, disk, saved
<1>2. DirOK /\ StepsOK(job.steps)
  BY DEF PluginInv
<1>3. used' \in [names : Nat, commands : Nat, edits : Nat, deaths : Nat] /\ used'.names = used.names
  BY <1>1, <1>2, EditsIs
<1>4. used.names \in Nat /\ used.names <= used'.names
  BY <1>2, <1>3 DEF DirOK
<1>5. DirOK'
  BY <1>1, <1>2, <1>3, <1>4, DirSame
<1>6. PICK t : t = job.steps
  OBVIOUS
<1>7. StepsOK(t)'
  <2>1. t \in Seq(PlanStep) /\ Ordered(t) /\ Ready(t)
    BY <1>2, <1>6 DEF StepsOK
  <2>2. Ordered(t)'
    BY <1>3, <1>4, <2>1, OrderedStays
  <2>3. Ready(t)'
    BY <1>1, <2>1 DEF Ready, Names, Present, Secluded, DropOK
  <2> QED  BY <2>1, <2>2, <2>3 DEF StepsOK
<1>8. SavedOK' /\ JobOK'
  BY <1>1 DEF PluginInv, SavedOK, JobOK
<1>9. job'.steps = t
  BY <1>1, <1>6
<1> QED  BY <1>5, <1>7, <1>8, <1>9 DEF PluginInv

(* Whatever the user does, the plan stands.                                *)
LEMMA UserStep ==
  ASSUME PluginInv, User
  PROVE  PluginInv'
BY DeleteStep, EditStep, PutStep, MoveStep DEF User

(* There is nothing at first.                                              *)
LEMMA PluginStarts ==
  ASSUME PluginInit
  PROVE  PluginInv
<1>1. /\ dir = <<>> /\ body = <<>> /\ journal = <<>> /\ install = NoPath /\ home \in Home
      /\ job = NoJob /\ used = [names |-> 0, commands |-> 0, edits |-> 0, deaths |-> 0] /\ users = {}
  BY DEF PluginInit
<1>2. DOMAIN dir = {}
  BY <1>1
<1>3. DirOK
  <2>1. dir \in [DOMAIN dir -> 1 .. Len(body)]
    BY <1>1, <1>2
  <2>2. body \in Seq({"torn", "current", "older", "foreign"})
    BY <1>1
  <2> QED  BY <1>1, <1>2, <2>1, <2>2 DEF DirOK
<1>4. SavedOK
  BY <1>1 DEF SavedOK, Installs
<1>5. JobOK
  BY <1>1 DEF JobOK, NoJob
<1>6. StepsOK(job.steps)
  <2>1. PICK t : t = job.steps
    OBVIOUS
  <2>2. t = <<>> /\ Len(t) = 0 /\ t \in Seq(PlanStep)
    BY <1>1, <2>1 DEF NoJob
  <2>3. \A i \in 1 .. Len(t) : FALSE
    BY <2>2
  <2>4. Ordered(t) /\ Ready(t)
    BY <1>1, <2>3 DEF Ordered, Ready
  <2> QED  BY <2>1, <2>2, <2>4 DEF StepsOK
<1> QED  BY <1>3, <1>4, <1>5, <1>6 DEF PluginInv

(* Every step keeps the invariant.                                         *)
LEMMA PluginGoesOn ==
  ASSUME PluginInv, PluginNext
  PROVE  PluginInv'
<1>1. CASE \E cmd \in {"connect", "unsource", "repair", "disconnect", "uninstall"} : Command(cmd)
  BY <1>1, CommandStep
<1>2. CASE PluginStep
  <2>1. CASE Prepare \/ Configure \/ Unconfigure \/ RemoveIdentity \/ Forget
    BY <2>1, PrepareStep, ConfigSteps
  <2>2. CASE CollectTargets \/ CleanTarget \/ CheckCleanup \/ ReconcilePlugin \/ Ensure
    BY <2>2, CollectStep, CleanStep, CheckStep, ReconcileStep, EnsureStep
  <2>3. CASE RemoveTask \/ Record \/ CommandEnds
    BY <2>3, RemoveStep, RecordStep, EndStep
  <2>4. CASE \/ Create \/ WriteStage \/ UnlinkFile \/ DropLink \/ LinkFile \/ RenameFile \/ Verify
             \/ RestoreFile
    BY <2>4, DiskStep
  <2>5. CASE Retain \/ Release \/ RemoveInner \/ Gone \/ VerifyPublished \/ StepFails
    BY <2>5, RetainStep, InnerStep, GoneStep, PublishedStep, FailStep
  <2> QED  BY <1>2, <2>1, <2>2, <2>3, <2>4, <2>5, Zenon DEF PluginStep
<1>3. CASE RecordFails \/ Die \/ User
  BY <1>3, RecordFailsStep, EndStep, UserStep
<1> QED  BY <1>1, <1>2, <1>3, Zenon DEF PluginNext

(* No step of another part disturbs it.                                    *)
LEMMA PluginStays ==
  ASSUME PluginInv, UNCHANGED pluginVars
  PROVE  PluginInv'
<1>1. UNCHANGED <<dir, body, users, used, job, journal, install, home>>
  BY DEF pluginVars
<1>2. PICK t : t = job.steps
  OBVIOUS
<1>3. t \in Seq(PlanStep) /\ Ordered(t) /\ Ready(t)
  BY <1>2 DEF PluginInv, StepsOK
<1>4. Ordered(t)'
  BY <1>1, <1>3, OrderedStays DEF PluginInv, DirOK
<1>5. Ready(t)'
  BY <1>1, <1>3 DEF Ready, Names, Present, Secluded, DropOK
<1>6. StepsOK(t)' /\ job'.steps = t
  BY <1>1, <1>2, <1>3, <1>4, <1>5 DEF StepsOK
<1>7. DirOK' /\ SavedOK' /\ JobOK'
  BY <1>1 DEF PluginInv, DirOK, Numbered, SavedOK, JobOK
<1> QED  BY <1>6, <1>7 DEF PluginInv

(* Each of the user's files is named while a plan is under way. *)
LEMMA PluginKeeps ==
  ASSUME PluginInv
  PROVE  UserFilesKept
<1>1. PICK t : t = job.steps
  OBVIOUS
<1>2. \A n \in users : \E q \in Names(n) : TRUE
  BY <1>1 DEF PluginInv, StepsOK, Ready
<1> QED  BY <1>2 DEF UserFilesKept

(* A file that the user put into OpenCode's plugin directory, or has       *)
(* edited there, and has not removed, keeps a name: through every command, *)
(* fallback, death and clean-up, whatever the user's editor does between.  *)
THEOREM PluginKept == PluginSpec => []UserFilesKept
<1>1. PluginInit => PluginInv
  BY PluginStarts
<1>2. PluginInv /\ [PluginNext]_pluginVars => PluginInv'
  BY PluginGoesOn, PluginStays
<1>3. PluginInv => UserFilesKept
  BY PluginKeeps
<1> QED  BY <1>1, <1>2, <1>3, PTL DEF PluginSpec

(* In the run of all parts each step is one of the hooks file's or leaves  *)
(* it alone, and the same holds of the plugin.                             *)
LEMMA OnePart ==
  ASSUME ServicesNext
  PROVE  (HooksNext \/ UNCHANGED hooksVars) /\ (PluginNext \/ UNCHANGED pluginVars)
<1>1. ASSUME NEW name, Only(name)
      PROVE  (name = "hooks" \/ UNCHANGED hooksVars) /\ (name = "plugin" \/ UNCHANGED pluginVars)
  BY <1>1, Zenon DEF Only
<1>2. \/ \E name \in {"delivery", "disconnect", "browser", "diagnostics", "admission", "history"} : Only(name)
      \/ Only("hooks") /\ HooksNext
      \/ Only("plugin") /\ PluginNext
  BY DEF ServicesNext
<1>3. CASE \E name \in {"delivery", "disconnect", "browser", "diagnostics", "admission", "history"} : Only(name)
  <2>1. PICK name \in {"delivery", "disconnect", "browser", "diagnostics", "admission", "history"} : Only(name)
    BY <1>3
  <2>2. name # "hooks" /\ name # "plugin"
    OBVIOUS
  <2> QED  BY <1>1, <2>1, <2>2
<1>4. CASE Only("hooks") /\ HooksNext
  <2>1. PICK name : name = "hooks"
    OBVIOUS
  <2>2. Only(name) /\ name # "plugin"
    BY <1>4, <2>1
  <2> QED  BY <1>1, <1>4, <2>2
<1>5. CASE Only("plugin") /\ PluginNext
  <2>1. PICK name : name = "plugin"
    OBVIOUS
  <2>2. Only(name) /\ name # "hooks"
    BY <1>5, <2>1
  <2> QED  BY <1>1, <1>5, <2>2
<1> QED  BY <1>2, <1>3, <1>4, <1>5

(* Neither foreign hooks nor foreign plugin files are ever lost: what the  *)
(* run of all services checks, for every number of edits, crashes and      *)
(* commands.                                                               *)
THEOREM NothingLost == ServicesSpec => []NothingForeignLost
<1>1. ServicesInit => HooksInv /\ PluginInv
  BY HooksInitInv, PluginStarts DEF ServicesInit
<1>2. HooksInv /\ PluginInv /\ [ServicesNext]_servicesVars => HooksInv' /\ PluginInv'
  <2> SUFFICES ASSUME HooksInv, PluginInv, [ServicesNext]_servicesVars PROVE HooksInv' /\ PluginInv'
    OBVIOUS
  <2>1. (HooksNext \/ UNCHANGED hooksVars) /\ (PluginNext \/ UNCHANGED pluginVars)
    <3>1. CASE ServicesNext
      BY <3>1, OnePart
    <3>2. CASE UNCHANGED servicesVars
      BY <3>2 DEF servicesVars
    <3> QED  BY <3>1, <3>2
  <2>2. HooksInv'
    BY <2>1, HooksStep, HooksStutter
  <2>3. PluginInv'
    BY <2>1, PluginGoesOn, PluginStays
  <2> QED  BY <2>2, <2>3
<1>3. HooksInv /\ PluginInv => NothingForeignLost
  BY HooksInvKeeps, PluginKeeps DEF NothingForeignLost
<1> QED  BY <1>1, <1>2, <1>3, PTL DEF ServicesSpec

=============================================================================
