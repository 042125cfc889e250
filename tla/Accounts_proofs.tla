--------------------------- MODULE Accounts_proofs ---------------------------
(***************************************************************************)
(* Proofs about Accounts: that the public summary is what the rows say,    *)
(* that every merge that stands can be undone, that decisions of the user  *)
(* stand, and that late observations change no total.                      *)
(***************************************************************************)
EXTENDS MCWeb, Pairing_proofs, FiniteSetTheorems, WellFoundedInduction, TLAPS

SourceType == [st : {"none", "active", "disconnected"}, acct : 0 .. MaxAccount,
               decided : BOOLEAN, profile : Src \cup {Nil}]
AccountType == [live : BOOLEAN, into : 0 .. MaxAccount]
EventType == [st : {"none", "active", "undone", "superseded"},
              prev : 0 .. MaxAccount, target : 0 .. MaxAccount]
RowType == [n : Nat, full : BOOLEAN, at : 0 .. MaxTickets + 1]

(* Everything but the summary and its signals, which are derived.          *)
TypesInv ==
  /\ mode \in {"account_max", "source_sum"}
  /\ src \in [Src -> SourceType] /\ acct \in [Account -> AccountType]
  /\ event \in [Src -> EventType] /\ row \in [Src -> [Days -> RowType]]
  /\ now \in Nat /\ cutover \in Nat /\ edits \in 0 .. MaxEdits
  /\ queue \in [Src -> Seq(Payload)]

(* Who is mapped anywhere is mapped to an account that exists.             *)
HomesInv ==
  /\ \A s \in Src : src[s].st = "none" <=> src[s].acct = 0
  /\ \A s \in Src : src[s].acct # 0 => acct[src[s].acct].live
  /\ \A a \in Account : acct[a].into # 0 => acct[a].live /\ acct[acct[a].into].live

(* Only sources have rows.                                                 *)
BareInv == \A s \in Src : src[s].st = "none" => row[s] = NoRows

(* An account is merged away at most once at a time: undoing one merge     *)
(* leaves the account of no other to point nowhere.                        *)
PrevInv ==
  \A s \in Src : event[s].st = "active" =>
    /\ event[s].prev \in Account
    /\ \A q \in Src : event[q].st = "active" /\ event[q].prev = event[s].prev => q = s

StructInv == TypesInv /\ HomesInv /\ BareInv /\ PrevInv /\ MergesAreReversible

-----------------------------------------------------------------------------
(* Numbers and sums *)

(* Every nonempty set of naturals has a least element. *)
LEMMA Least ==
  ASSUME NEW T, T \subseteq Nat, T # {}
  PROVE  \E x \in T : \A y \in T : x <= y
<1>1. \E x \in T : \A y \in T : ~(<<y, x>> \in OpToRel(<, Nat))
  BY WFMin, NatLessThanWellFounded
<1>2. PICK x \in T : \A y \in T : ~(<<y, x>> \in OpToRel(<, Nat))
  BY <1>1
<1>3. \A y \in T : ~(y < x) /\ y \in Nat /\ x \in Nat
  BY <1>2 DEF OpToRel
<1> QED
  BY <1>3

(* A bounded nonempty set of naturals has a greatest element, which Max    *)
(* finds.                                                                  *)
LEMMA MaxOf ==
  ASSUME NEW n \in Nat, NEW T, T \subseteq 0 .. n, T # {}
  PROVE  Max(T) \in T /\ \A y \in T : y <= Max(T)
<1> DEFINE U == {m \in Nat : n - m \in T}
<1>1. U # {}
  <2>1. PICK y \in T : TRUE
    OBVIOUS
  <2>2. y \in 0 .. n
    BY <2>1
  <2>3. n - y \in Nat /\ n - (n - y) = y
    BY <2>2
  <2>4. n - y \in U
    BY <2>1, <2>3
  <2> QED
    BY <2>4
<1>2. \E x \in U : \A y \in U : ~(<<y, x>> \in OpToRel(<, Nat))
  BY <1>1, WFMin, NatLessThanWellFounded
<1>3. PICK x \in U : \A y \in U : ~(y < x)
  BY <1>2 DEF OpToRel
<1>4. n - x \in T /\ \A y \in T : y <= n - x
  <2>1. x \in Nat /\ n - x \in T
    BY <1>3
  <2>2. ASSUME NEW y \in T
        PROVE  y <= n - x
    <3>1. y \in 0 .. n
      BY <2>2
    <3>2. n - y \in Nat /\ n - (n - y) = y
      BY <3>1
    <3>3. n - y \in U
      BY <3>2, <2>2
    <3>4. ~(n - y < x)
      BY <1>3, <3>3
    <3> QED
      BY <3>1, <3>2, <3>4, <2>1
  <2> QED
    BY <2>1, <2>2
<1>5. \E m \in T : \A y \in T : y <= m
  BY <1>4
<1>6. Max(T) = CHOOSE m \in T : \A y \in T : m >= y
  BY DEF Max
<1>7. T \subseteq Int
  OBVIOUS
<1>8. \E m \in T : \A y \in T : m >= y
  BY <1>5, <1>7
<1> QED
  BY <1>6, <1>7, <1>8

(* A finite sum of naturals is a natural, although its terms are added in   *)
(* an order nobody knows: by induction over the sets of summands.           *)
LEMMA SumType ==
  ASSUME NEW S, IsFiniteSet(S), NEW f \in [S -> Nat]
  PROVE  SumFunction(f) \in Nat
<1> DEFINE c(s) == CHOOSE x \in s : TRUE
           D(n) == {s \in SUBSET S : Cardinality(s) <= n}
           Sums(g, E) == \A s \in E : g[s] = IF s = {} THEN 0 ELSE f[c(s)] + g[s \ {c(s)}]
           It(g) == g = [s \in SUBSET S |-> IF s = {} THEN 0 ELSE f[c(s)] + g[s \ {c(s)}]]
<1>1. ASSUME NEW s \in SUBSET S
      PROVE  /\ Cardinality(s) \in Nat /\ (Cardinality(s) = 0 <=> s = {})
             /\ s # {} => c(s) \in s /\ s \ {c(s)} \in SUBSET S
                          /\ Cardinality(s \ {c(s)}) = Cardinality(s) - 1
  <2>1. IsFiniteSet(s)
    BY FS_Subset
  <2>2. s # {} => c(s) \in s
    OBVIOUS
  <2> QED
    BY <2>1, <2>2, FS_CardinalityType, FS_EmptySet, FS_RemoveElement
<1> HIDE DEF c
<1>2. \A n \in Nat : \E g \in [D(n) -> Nat] : Sums(g, D(n))
  <2> DEFINE Bad == {n \in Nat : ~\E g \in [D(n) -> Nat] : Sums(g, D(n))}
  <2>1. SUFFICES ASSUME Bad # {}
                 PROVE  FALSE
    OBVIOUS
  <2>2. PICK b \in Bad : \A m \in Bad : b <= m
    BY <2>1, Least
  <2>3. b # 0
    <3>1. \A s \in D(0) : s = {}
      <4>1. ASSUME NEW s \in SUBSET S, Cardinality(s) <= 0
            PROVE  s = {}
        <5>1. Cardinality(s) \in Nat /\ (Cardinality(s) = 0 => s = {})
          BY <1>1
        <5>2. Cardinality(s) = 0
          BY <4>1, <5>1
        <5> QED
          BY <5>1, <5>2
      <4> QED
        BY <4>1
    <3> DEFINE g == [s \in D(0) |-> 0]
    <3>2. g \in [D(0) -> Nat] /\ Sums(g, D(0))
      BY <3>1
    <3> QED
      BY <3>2
  <2>4. b \in Nat /\ b - 1 \in Nat /\ b - 1 \notin Bad
    <3>1. b \in Nat /\ b - 1 \in Nat /\ ~(b <= b - 1)
      BY <2>2, <2>3
    <3> QED
      BY <2>2, <3>1
  <2>5. PICK g \in [D(b - 1) -> Nat] : Sums(g, D(b - 1))
    BY <2>4
  <2> DEFINE h == [s \in D(b) |-> IF s = {} THEN 0 ELSE f[c(s)] + g[s \ {c(s)}]]
  <2>6. \A s \in D(b) : s # {} => s \ {c(s)} \in D(b - 1) /\ c(s) \in S
    BY <1>1, <2>4
  <2>7. h \in [D(b) -> Nat]
    BY <2>6
  <2>8. \A s \in D(b - 1) : s \in D(b) /\ h[s] = g[s]
    <3>1. ASSUME NEW s \in D(b - 1)
          PROVE  s \in D(b)
      <4>1. s \in SUBSET S /\ Cardinality(s) <= b - 1
        OBVIOUS
      <4>2. Cardinality(s) <= b
        <5>1. Cardinality(s) \in Nat
          BY <1>1, <4>1
        <5> QED
          BY <2>4, <4>1, <5>1
      <4> QED
        BY <4>1, <4>2
    <3> QED
      BY <3>1, <2>5
  <2>9. Sums(h, D(b))
    BY <2>6, <2>8
  <2> HIDE DEF h
  <2> QED
    BY <2>7, <2>9
<1>3. \E g : It(g)
  <2>1. Cardinality(S) \in Nat /\ D(Cardinality(S)) = SUBSET S
    BY FS_CardinalityType, FS_Subset
  <2>2. PICK g \in [SUBSET S -> Nat] : Sums(g, SUBSET S)
    BY <1>2, <2>1
  <2> QED
    BY <2>2
<1> DEFINE iter == CHOOSE g : It(g)
<1>4. It(iter)
  BY <1>3
<1> HIDE DEF iter
<1>5. \A s \in SUBSET S : iter[s] \in Nat
  <2> DEFINE Bad == {n \in Nat : \E s \in SUBSET S : Cardinality(s) = n /\ iter[s] \notin Nat}
  <2>1. SUFFICES ASSUME Bad # {}
                 PROVE  FALSE
    BY <1>1
  <2>2. PICK b \in Bad : \A m \in Bad : b <= m
    BY <2>1, Least
  <2>3. PICK s \in SUBSET S : Cardinality(s) = b /\ iter[s] \notin Nat
    BY <2>2
  <2>4. s # {}
    BY <1>4, <2>3
  <2>5. iter[s \ {c(s)}] \in Nat
    <3>1. s \ {c(s)} \in SUBSET S /\ Cardinality(s \ {c(s)}) = b - 1 /\ b - 1 \in Nat
      BY <1>1, <2>3, <2>4
    <3>2. b - 1 \notin Bad
      BY <2>2, <3>1
    <3> QED
      BY <3>1, <3>2
  <2>6. iter[s] = f[c(s)] + iter[s \ {c(s)}] /\ c(s) \in S
    BY <1>1, <1>4, <2>4
  <2> QED
    BY <2>3, <2>5, <2>6
<1>6. SumFunction(f) = iter[S]
  BY DEF SumFunction, SumFunctionOnSet, FoldFunctionOnSet, MapThenFoldSet, iter, c
<1> QED
  BY <1>5, <1>6
-----------------------------------------------------------------------------
(* Accounts *)

(* The next account does not exist, and no merge remembers it.             *)
LEMMA Fresh ==
  ASSUME TypesInv, NEW a \in Account, a = NextAccount
  PROVE  ~acct[a].live /\ \A s \in Src : event[s].prev # a
<1> DEFINE Used == {0} \cup {b \in Account : acct[b].live \/ \E s \in Src : event[s].prev = b}
<1>1. MaxAccount \in Nat /\ Used \subseteq 0 .. MaxAccount /\ Used # {}
  BY AccountsAssumption DEF Account
<1>2. Max(Used) \in Used /\ \A y \in Used : y <= Max(Used)
  BY <1>1, MaxOf
<1>3. a = Max(Used) + 1
  BY DEF NextAccount
<1> HIDE DEF Used
<1>4. Max(Used) \in Nat /\ a \notin Used
  <2>1. Max(Used) \in 0 .. MaxAccount
    BY <1>1, <1>2
  <2>2. Max(Used) \in Nat /\ ~(Max(Used) + 1 <= Max(Used))
    BY <1>1, <2>1
  <2> QED
    BY <1>2, <1>3, <2>2
<1> QED
  BY <1>4 DEF Used

(* An account that is opened exists and is not merged; the others are as   *)
(* they were.                                                              *)
LEMMA OpenedAcct ==
  ASSUME StructInv, NEW a \in Account,
         Open(a) \/ a = NextAccount \/ \E s \in Src : src[s].acct = a
  PROVE  /\ Opened(a) \in [Account -> AccountType]
         /\ Opened(a)[a] = [live |-> TRUE, into |-> 0]
         /\ \A b \in Account : acct[b].live => Opened(a)[b] = acct[b]
         /\ \A b \in Account : Opened(a)[b].into = acct[b].into
<1>1. acct \in [Account -> AccountType] /\ acct[a] \in AccountType
  BY DEF StructInv, TypesInv
<1>2. acct[a].into = 0
  <2>1. CASE Open(a)
    BY <2>1 DEF Open
  <2>2. CASE a = NextAccount
    BY <2>2, Fresh DEF StructInv, HomesInv, TypesInv
  <2>3. CASE \E s \in Src : src[s].acct = a
    BY <2>3 DEF StructInv, MergesAreReversible, Owned
  <2> QED
    BY <2>1, <2>2, <2>3
<1>3. CASE acct[a].live
  <2>1. Opened(a) = acct
    BY <1>3 DEF Opened
  <2> QED
    BY <1>1, <1>2, <1>3, <2>1 DEF AccountType
<1>4. CASE ~acct[a].live
  <2>1. Opened(a) = [acct EXCEPT ![a].live = TRUE]
    BY <1>4 DEF Opened, Open
  <2>2. Opened(a)[a] = [acct[a] EXCEPT !.live = TRUE] /\ \A b \in Account \ {a} : Opened(a)[b] = acct[b]
    BY <1>1, <2>1
  <2> QED
    BY <1>1, <1>2, <1>4, <2>1, <2>2 DEF AccountType
<1> QED
  BY <1>3, <1>4

(* A merge that stands is of a source.                                     *)
LEMMA ActiveIsMapped ==
  ASSUME StructInv, NEW s \in Src, event[s].st = "active"
  PROVE  /\ src[s].acct = event[s].target /\ src[s].decided /\ src[s].acct # 0
         /\ event[s].prev \in Account /\ event[s].target \in Account
         /\ acct[event[s].prev] = [live |-> TRUE, into |-> event[s].target]
         /\ Open(event[s].target) /\ event[s].prev # event[s].target
<1>1. /\ src[s].acct = event[s].target /\ src[s].decided
      /\ acct[event[s].prev] = [live |-> TRUE, into |-> event[s].target]
      /\ Open(event[s].target)
  BY DEF StructInv, MergesAreReversible
<1>2. event[s].target \in Account /\ event[s].target # 0 /\ acct[event[s].target].into = 0
  BY <1>1, AccountsAssumption DEF Open, Account
<1>3. event[s].prev \in Account
  BY DEF StructInv, PrevInv
<1> QED
  BY <1>1, <1>2, <1>3

-----------------------------------------------------------------------------
(* Each step keeps the structure. *)

(* What a step that merges nothing has to respect.                         *)
Respects ==
  /\ \A q \in Src : src'[q].st = "none" <=> src'[q].acct = 0
  /\ \A q \in Src : src'[q].acct # 0 => acct'[src'[q].acct].live /\ acct'[src'[q].acct].into = 0
  /\ \A b \in Account : acct'[b].into # 0 => acct'[b].live /\ acct'[acct'[b].into].live
  /\ \A q \in Src : src'[q].st = "none" => row'[q] = NoRows
  /\ \A q \in Src : event'[q].st = "active" =>
       /\ event'[q] = event[q] /\ src'[q].acct = src[q].acct /\ src'[q].decided
       /\ acct'[event[q].prev] = acct[event[q].prev]
       /\ acct'[event[q].target] = acct[event[q].target]

(* A step that merges nothing and respects what Respects lists keeps the   *)
(* structure.                                                              *)
LEMMA RespectsKeeps ==
  ASSUME StructInv, TypesInv', Respects
  PROVE  StructInv'
<1>1. HomesInv' /\ BareInv'
  BY DEF Respects, HomesInv, BareInv
<1>2. PrevInv'
  BY DEF Respects, StructInv, PrevInv
<1>3. ASSUME NEW q \in Src, event'[q].st = "active"
      PROVE  /\ src'[q].acct = event'[q].target /\ src'[q].decided
             /\ acct'[event'[q].prev] = [live |-> TRUE, into |-> event'[q].target]
             /\ (Open(event[q].target))'
  <2>1. /\ event'[q] = event[q] /\ src'[q].acct = src[q].acct /\ src'[q].decided
        /\ acct'[event[q].prev] = acct[event[q].prev]
        /\ acct'[event[q].target] = acct[event[q].target]
    BY <1>3 DEF Respects
  <2>2. event[q].st = "active"
    BY <1>3, <2>1
  <2> QED
    BY <2>1, <2>2, ActiveIsMapped DEF Open
<1>4. ASSUME NEW b \in Account, acct'[b].into # 0
      PROVE  (Owned(b))' = {}
  <2>1. b # 0
    BY AccountsAssumption DEF Account
  <2> QED
    BY <1>4, <2>1 DEF Respects, Owned
<1>5. MergesAreReversible'
  BY <1>3, <1>4 DEF MergesAreReversible
<1> QED
  BY <1>1, <1>2, <1>5 DEF StructInv

(* Facts about single rows that every step starts from.                    *)
LEMMA Rows ==
  ASSUME StructInv
  PROVE  /\ \A q \in Src : /\ src[q] \in SourceType /\ event[q] \in EventType
                           /\ row[q] \in [Days -> RowType] /\ queue[q] \in Seq(Payload)
         /\ \A b \in Account : acct[b] \in AccountType
         /\ \A q \in Src : src[q].acct # 0 =>
              src[q].acct \in Account /\ acct[src[q].acct].live /\ acct[src[q].acct].into = 0
         /\ \A b \in Account : acct[b].into # 0 => acct[b].into \in Account
         /\ NoRows \in [Days -> RowType] /\ NoSrc \in SourceType /\ NoEvent \in EventType
         /\ 0 \notin Account
<1>1. /\ \A q \in Src : /\ src[q] \in SourceType /\ event[q] \in EventType
                        /\ row[q] \in [Days -> RowType] /\ queue[q] \in Seq(Payload)
      /\ \A b \in Account : acct[b] \in AccountType
  BY DEF StructInv, TypesInv
<1>2. ASSUME NEW q \in Src, src[q].acct # 0
      PROVE  src[q].acct \in Account /\ acct[src[q].acct].live /\ acct[src[q].acct].into = 0
  <2>1. src[q].acct \in 0 .. MaxAccount
    BY <1>1 DEF SourceType
  <2>2. src[q].acct \in Account
    BY <1>2, <2>1, AccountsAssumption DEF Account
  <2> QED
    BY <1>2, <2>2 DEF StructInv, HomesInv, MergesAreReversible, Owned
<1>3. ASSUME NEW b \in Account, acct[b].into # 0
      PROVE  acct[b].into \in Account
  <2>1. acct[b].into \in 0 .. MaxAccount
    BY <1>1 DEF AccountType
  <2> QED
    BY <1>3, <2>1, AccountsAssumption DEF Account
<1>4. 0 \notin Account /\ 0 \in 0 .. MaxAccount /\ 0 \in 0 .. MaxTickets + 1
  BY AccountsAssumption DEF Account
<1>5. NoRows \in [Days -> RowType] /\ NoSrc \in SourceType /\ NoEvent \in EventType
  BY <1>4 DEF NoRows, NoRow, RowType, NoSrc, SourceType, NoEvent, EventType
<1> QED
  BY <1>1, <1>2, <1>3, <1>4, <1>5

(* What is left of an event when its source leaves its account.            *)
LEMMA SupersededType ==
  ASSUME NEW e \in EventType
  PROVE  Superseded(e) \in EventType /\ Superseded(e).st # "active"
BY DEF Superseded, EventType

(* An approval maps its source to an open or a new account, and the        *)
(* merges of the sources it moves or drops no longer stand.                *)
LEMMA ApproveStep ==
  ASSUME StructInv, NEW s \in Src, NEW a \in Mappable(s),
         NEW D \in SUBSET {q \in Src \ {s} : ComputerOf[q] = ComputerOf[s] /\ src[q].st = "active"},
         ApproveSource(s, a, D)
  PROVE  StructInv'
<1> DEFINE moved == src[s].acct # 0 /\ src[s].acct # a
<1>1. /\ TypesInv /\ HomesInv /\ BareInv /\ PrevInv /\ MergesAreReversible
      /\ a \in Account /\ D \subseteq Src /\ s \notin D
  BY DEF StructInv, Mappable
<1>2. /\ Opened(a) \in [Account -> AccountType] /\ Opened(a)[a] = [live |-> TRUE, into |-> 0]
      /\ \A b \in Account : acct[b].live => Opened(a)[b] = acct[b]
      /\ \A b \in Account : Opened(a)[b].into = acct[b].into
  BY <1>1, OpenedAcct DEF Mappable
<1>3. acct' = Opened(a) /\ mode' = mode /\ now' = now /\ cutover' = cutover /\ queue' = queue
      /\ edits' \in 0 .. MaxEdits
  BY <1>1, AccountsAssumption DEF ApproveSource, Unedited, Edit, TypesInv
<1>4. src' = [q \in Src |->
           CASE q = s -> [src[s] EXCEPT !.st = "active", !.acct = a,
                            !.decided = src[s].decided \/ (moved /\ mode = "account_max")]
             [] q \in D -> [src[q] EXCEPT !.st = "disconnected"]
             [] OTHER -> src[q]]
  BY DEF ApproveSource
<1>5. /\ \A q \in Src : src[q] \in SourceType /\ event[q] \in EventType
      /\ acct \in [Account -> AccountType]
  BY <1>1 DEF TypesInv
<1>6. /\ src' \in [Src -> SourceType]
      /\ src'[s].st = "active" /\ src'[s].acct = a /\ (src[s].decided => src'[s].decided)
      /\ \A q \in Src \ {s} : src'[q].acct = src[q].acct /\ src'[q].decided = src[q].decided
                              /\ (src'[q].st = "none" <=> src[q].st = "none")
  <2>1. \A q \in Src : /\ q = s => src'[q] = [src[s] EXCEPT !.st = "active", !.acct = a,
                            !.decided = src[s].decided \/ (moved /\ mode = "account_max")]
                       /\ q \in D => src'[q] = [src[q] EXCEPT !.st = "disconnected"]
                       /\ q # s /\ q \notin D => src'[q] = src[q]
    BY <1>1, <1>4
  <2>2. \A q \in Src : src'[q] \in SourceType
    <3>1. a \in 0 .. MaxAccount
      BY <1>1, AccountsAssumption DEF Account
    <3>2. src[s] \in SourceType /\ (src[s].decided \/ (moved /\ mode = "account_max")) \in BOOLEAN
      BY <1>5 DEF SourceType
    <3>3. src'[s] \in SourceType
      BY <2>1, <3>1, <3>2 DEF SourceType
    <3>4. ASSUME NEW q \in D
          PROVE  src'[q] \in SourceType
      <4>1. q \in Src /\ src'[q] = [src[q] EXCEPT !.st = "disconnected"] /\ src[q] \in SourceType
        BY <1>1, <1>5, <2>1
      <4> QED
        BY <4>1 DEF SourceType
    <3> QED
      BY <1>5, <2>1, <3>3, <3>4
  <2>3. \A q \in D : src[q].st = "active"
    OBVIOUS
  <2>4. DOMAIN src' = Src /\ src' = [q \in Src |-> src'[q]]
    BY <1>4
  <2>5. src'[s].st = "active" /\ src'[s].acct = a /\ (src[s].decided => src'[s].decided)
    <3>1. src[s] \in SourceType /\ src'[s] = [src[s] EXCEPT !.st = "active", !.acct = a,
                            !.decided = src[s].decided \/ (moved /\ mode = "account_max")]
      BY <1>5, <2>1
    <3>2. src'[s].decided = (src[s].decided \/ (moved /\ mode = "account_max"))
      BY <3>1 DEF SourceType
    <3> QED
      BY <3>1, <3>2 DEF SourceType
  <2>6. ASSUME NEW q \in Src \ {s}
        PROVE  src'[q].acct = src[q].acct /\ src'[q].decided = src[q].decided
               /\ (src'[q].st = "none" <=> src[q].st = "none")
    <3>1. CASE q \in D
      <4>1. src'[q] = [src[q] EXCEPT !.st = "disconnected"] /\ src[q].st = "active" /\ src[q] \in SourceType
        BY <1>5, <2>1, <2>3, <3>1
      <4> QED
        BY <4>1 DEF SourceType
    <3>2. CASE q \notin D
      BY <2>1, <3>2
    <3> QED
      BY <3>1, <3>2
  <2> QED
    BY <2>2, <2>4, <2>5, <2>6
<1>7. /\ event' \in [Src -> EventType]
      /\ \A q \in Src : event'[q].st = "active" =>
           event'[q] = event[q] /\ q \notin D /\ (q = s => ~moved)
  <2>1. event' = [q \in Src |-> IF (q = s /\ moved) \/ q \in D
                                 THEN Superseded(event[q]) ELSE event[q]]
    BY DEF ApproveSource
  <2> QED
    BY <1>5, <2>1, SupersededType
<1>8. /\ row' \in [Src -> [Days -> RowType]]
      /\ \A q \in Src : row'[q] = NoRows \/ row'[q] = row[q]
  <2>1. row' = [q \in Src |-> IF q \in D THEN NoRows ELSE row[q]]
    BY DEF ApproveSource
  <2>2. NoRows \in [Days -> RowType]
    BY AccountsAssumption DEF NoRows, NoRow, RowType
  <2> QED
    BY <1>1, <2>1, <2>2 DEF TypesInv
<1>9. TypesInv'
  BY <1>1, <1>2, <1>3, <1>6, <1>7, <1>8 DEF TypesInv
<1>10. HomesInv'
  <2>1. a # 0
    BY <1>1, AccountsAssumption DEF Account
  <2>2. \A q \in Src : q # s /\ src[q].acct # 0 => src[q].acct \in Account
    BY <1>5, AccountsAssumption DEF SourceType, Account
  <2>3. \A b \in Account : acct[b].into # 0 => acct[b].into \in Account
    BY <1>5, AccountsAssumption DEF AccountType, Account
  <2>4. \A q \in Src : src'[q].acct # 0 => acct'[src'[q].acct].live
    BY <1>1, <1>2, <1>3, <1>6, <2>2 DEF HomesInv
  <2>5. \A b \in Account : acct'[b].into # 0 => acct'[b].live /\ acct'[acct'[b].into].live
    BY <1>1, <1>2, <1>3, <2>3 DEF HomesInv
  <2> QED
    BY <1>1, <1>6, <2>1, <2>4, <2>5 DEF HomesInv
<1>11. BareInv'
  BY <1>1, <1>6, <1>8 DEF BareInv
<1>12. PrevInv'
  BY <1>1, <1>7 DEF PrevInv
<1>13. MergesAreReversible'
  <2>1. ASSUME NEW q \in Src, event'[q].st = "active"
        PROVE  /\ src'[q].acct = event'[q].target /\ src'[q].decided
               /\ acct'[event'[q].prev] = [live |-> TRUE, into |-> event'[q].target]
               /\ (Open(event[q].target))'
    <3>1. event'[q] = event[q] /\ event[q].st = "active"
      BY <1>7, <2>1
    <3>2. /\ src[q].acct = event[q].target /\ src[q].decided /\ src[q].acct # 0
          /\ event[q].prev \in Account /\ event[q].target \in Account
          /\ acct[event[q].prev] = [live |-> TRUE, into |-> event[q].target]
          /\ Open(event[q].target)
      BY <3>1, ActiveIsMapped
    <3>3. src'[q].acct = src[q].acct /\ src'[q].decided
      BY <1>6, <1>7, <2>1, <3>2
    <3> QED
      BY <1>2, <1>3, <3>1, <3>2, <3>3 DEF Open
  <2>2. ASSUME NEW b \in Account, acct'[b].into # 0
        PROVE  (Owned(b))' = {}
    <3>1. acct[b].into # 0 /\ b # a
      BY <1>2, <1>3, <2>2
    <3> QED
      BY <1>1, <1>6, <3>1 DEF MergesAreReversible, Owned
  <2> QED
    BY <2>1, <2>2 DEF MergesAreReversible
<1> QED
  BY <1>9, <1>10, <1>11, <1>12, <1>13 DEF StructInv

(* A further account of a profile goes to an account its other sources     *)
(* agree on, or to a new one.                                              *)
LEMMA RegisterStep ==
  ASSUME StructInv, NEW s \in Src, NEW p \in Src, Register(s, p)
  PROVE  StructInv'
<1>1. PICK a \in IF Reusable(s) = {} THEN {NextAccount} \cap Account ELSE Reusable(s) :
        /\ acct' = Opened(a)
        /\ src' = [src EXCEPT ![s] = [st |-> "active", acct |-> a, decided |-> FALSE,
                                      profile |-> p]]
  BY DEF Register
<1>2. /\ src[s].st = "none" /\ UNCHANGED <<event, row, queue, mode, now, cutover, edits>>
  BY DEF Register, Unedited
<1>3. a \in Account /\ (Open(a) \/ a = NextAccount)
  <2>1. CASE Reusable(s) = {}
    BY <1>1, <2>1
  <2>2. CASE Reusable(s) # {}
    <3> DEFINE home(q) == IF acct[src[q].acct].into = 0 THEN src[q].acct ELSE acct[src[q].acct].into
    <3>1. PICK q \in Src : /\ src[q].st # "none" /\ a = home(q) /\ acct[home(q)].into = 0
      BY <1>1, <2>2 DEF Reusable
    <3>2. src[q].acct # 0
      BY <3>1 DEF StructInv, HomesInv
    <3>3. a = src[q].acct
      BY <3>1, <3>2, Rows
    <3> QED
      BY <3>1, <3>2, <3>3, Rows DEF Open
  <2> QED
    BY <2>1, <2>2
<1>4. /\ Opened(a) \in [Account -> AccountType]
      /\ Opened(a)[a] = [live |-> TRUE, into |-> 0]
      /\ \A b \in Account : acct[b].live => Opened(a)[b] = acct[b]
      /\ \A b \in Account : Opened(a)[b].into = acct[b].into
  BY <1>3, OpenedAcct
<1>5. /\ src'[s] = [st |-> "active", acct |-> a, decided |-> FALSE, profile |-> p]
      /\ src'[s] \in SourceType
      /\ \A q \in Src \ {s} : src'[q] = src[q]
      /\ src' \in [Src -> SourceType]
  <2>1. a \in 0 .. MaxAccount
    BY <1>3, AccountsAssumption DEF Account
  <2>2. src \in [Src -> SourceType]
    BY DEF StructInv, TypesInv
  <2>3. [st |-> "active", acct |-> a, decided |-> FALSE, profile |-> p] \in SourceType
    BY <2>1 DEF SourceType
  <2> QED
    BY <1>1, <2>2, <2>3
<1>6. TypesInv'
  BY <1>1, <1>2, <1>4, <1>5 DEF StructInv, TypesInv
<1>7. Respects
  <2>1. src[s].acct = 0 /\ event[s].st # "active" /\ a # 0
    <3>1. src[s].acct = 0
      BY <1>2 DEF StructInv, HomesInv
    <3> QED
      BY <1>3, <3>1, ActiveIsMapped, Rows
  <2>2. \A q \in Src : src'[q].st = "none" <=> src'[q].acct = 0
    BY <1>5, <2>1 DEF StructInv, HomesInv
  <2>3. \A q \in Src : src'[q].acct # 0 => acct'[src'[q].acct].live /\ acct'[src'[q].acct].into = 0
    BY <1>1, <1>4, <1>5, Rows
  <2>4. \A b \in Account : acct'[b].into # 0 => acct'[b].live /\ acct'[acct'[b].into].live
    BY <1>1, <1>4, Rows DEF StructInv, HomesInv
  <2>5. \A q \in Src : src'[q].st = "none" => row'[q] = NoRows
    BY <1>2, <1>5 DEF StructInv, BareInv
  <2>6. ASSUME NEW q \in Src, event'[q].st = "active"
        PROVE  /\ event'[q] = event[q] /\ src'[q].acct = src[q].acct /\ src'[q].decided
               /\ acct'[event[q].prev] = acct[event[q].prev]
               /\ acct'[event[q].target] = acct[event[q].target]
    <3>1. event[q].st = "active" /\ event'[q] = event[q] /\ q # s
      BY <1>2, <2>1, <2>6
    <3>2. /\ event[q].prev \in Account /\ event[q].target \in Account /\ src[q].decided
          /\ acct[event[q].prev] = [live |-> TRUE, into |-> event[q].target]
          /\ Open(event[q].target)
      BY <3>1, ActiveIsMapped
    <3>3. acct[event[q].prev].live /\ acct[event[q].target].live
      BY <3>2 DEF Open
    <3> QED
      BY <1>1, <1>4, <1>5, <3>1, <3>2, <3>3
  <2> QED
    BY <2>2, <2>3, <2>4, <2>5, <2>6 DEF Respects
<1> QED
  BY <1>6, <1>7, RespectsKeeps

(* A source that is moved by the user takes no merge with it.              *)
LEMMA ReassignStep ==
  ASSUME StructInv, NEW s \in Src, NEW a \in Account, Reassign(s, a)
  PROVE  StructInv'
<1>1. /\ src[s].st # "none" /\ Open(a) /\ src[s].acct # a
      /\ src' = [src EXCEPT ![s].acct = a, ![s].decided = src[s].decided \/ mode = "account_max"]
      /\ event' = [event EXCEPT ![s] = Superseded(event[s])]
      /\ UNCHANGED <<acct, row, queue, mode, now, cutover>> /\ edits' \in 0 .. MaxEdits
  BY AccountsAssumption DEF Reassign, Edit, StructInv, TypesInv
<1>2. /\ src' \in [Src -> SourceType]
      /\ src'[s].st = src[s].st /\ src'[s].acct = a
      /\ \A q \in Src \ {s} : src'[q] = src[q]
  <2>1. a \in 0 .. MaxAccount /\ src[s] \in SourceType /\ src \in [Src -> SourceType]
    BY AccountsAssumption DEF Account, StructInv, TypesInv
  <2>2. /\ src'[s] = [src[s] EXCEPT !.acct = a, !.decided = src[s].decided \/ mode = "account_max"]
        /\ \A q \in Src \ {s} : src'[q] = src[q]
        /\ DOMAIN src' = Src /\ src' = [q \in Src |-> src'[q]]
    BY <1>1, <2>1
  <2>3. (src[s].decided \/ mode = "account_max") \in BOOLEAN
    OBVIOUS
  <2>4. src'[s] \in SourceType /\ src'[s].st = src[s].st /\ src'[s].acct = a
    BY <2>1, <2>2, <2>3 DEF SourceType
  <2> QED
    BY <2>1, <2>2, <2>4
<1>3. /\ event' \in [Src -> EventType] /\ event'[s].st # "active"
      /\ \A q \in Src \ {s} : event'[q] = event[q]
  BY <1>1, SupersededType DEF StructInv, TypesInv
<1>4. TypesInv'
  BY <1>1, <1>2, <1>3 DEF StructInv, TypesInv
<1>5. Respects
  <2>1. \A q \in Src : src'[q].st = "none" <=> src'[q].acct = 0
    BY <1>1, <1>2, Rows DEF StructInv, HomesInv
  <2>2. \A q \in Src : src'[q].acct # 0 => acct'[src'[q].acct].live /\ acct'[src'[q].acct].into = 0
    BY <1>1, <1>2, Rows DEF Open
  <2>3. \A b \in Account : acct'[b].into # 0 => acct'[b].live /\ acct'[acct'[b].into].live
    BY <1>1 DEF StructInv, HomesInv
  <2>4. \A q \in Src : src'[q].st = "none" => row'[q] = NoRows
    BY <1>1, <1>2 DEF StructInv, BareInv
  <2>5. ASSUME NEW q \in Src, event'[q].st = "active"
        PROVE  /\ event'[q] = event[q] /\ src'[q].acct = src[q].acct /\ src'[q].decided
               /\ acct'[event[q].prev] = acct[event[q].prev]
               /\ acct'[event[q].target] = acct[event[q].target]
    <3>1. q # s /\ event'[q] = event[q] /\ src'[q] = src[q]
      BY <1>2, <1>3, <2>5
    <3> QED
      BY <1>1, <2>5, <3>1, ActiveIsMapped
  <2> QED
    BY <2>1, <2>2, <2>3, <2>4, <2>5 DEF Respects
<1> QED
  BY <1>4, <1>5, RespectsKeeps

(* Undoing a merge reopens the account the source came from, which no      *)
(* other merge has left.                                                   *)
LEMMA UndoStep ==
  ASSUME StructInv, NEW s \in Src, Undo(s)
  PROVE  StructInv'
<1> DEFINE e == event[s]
<1>1. e.st = "active"
  BY DEF Undo
<1>2. /\ src[s].acct = e.target /\ e.prev \in Account /\ e.target \in Account
      /\ acct[e.prev] = [live |-> TRUE, into |-> e.target]
      /\ Open(e.target) /\ e.prev # e.target /\ src[s].acct # 0
  BY <1>1, ActiveIsMapped
<1>3. /\ event' = [event EXCEPT ![s].st = "undone"]
      /\ src' = [src EXCEPT ![s].acct = e.prev]
      /\ acct' = [acct EXCEPT ![e.prev].into = 0]
      /\ UNCHANGED <<row, queue, mode, now, cutover>> /\ edits' \in 0 .. MaxEdits
  <2>1. src[s].acct = e.target /\ acct[e.prev].into = e.target
    BY <1>2
  <2> QED
    BY <2>1, AccountsAssumption DEF Undo, Edit, StructInv, TypesInv
<1>4. /\ event' \in [Src -> EventType] /\ event'[s].st = "undone"
      /\ \A q \in Src \ {s} : event'[q] = event[q]
  <2>1. /\ event \in [Src -> EventType] /\ event[s] \in EventType
        /\ event'[s] = [event[s] EXCEPT !.st = "undone"]
    BY <1>3 DEF StructInv, TypesInv
  <2>2. event'[s] \in EventType /\ event'[s].st = "undone"
    BY <2>1 DEF EventType
  <2> QED
    BY <1>3, <2>1, <2>2
<1>5. /\ src' \in [Src -> SourceType] /\ src'[s].acct = e.prev /\ src'[s].st = src[s].st
      /\ \A q \in Src \ {s} : src'[q] = src[q]
  <2>1. /\ src \in [Src -> SourceType] /\ src[s] \in SourceType /\ e.prev \in 0 .. MaxAccount
        /\ src'[s] = [src[s] EXCEPT !.acct = e.prev]
    BY <1>2, <1>3, AccountsAssumption DEF StructInv, TypesInv, Account
  <2>2. src'[s] \in SourceType /\ src'[s].acct = e.prev /\ src'[s].st = src[s].st
    BY <2>1 DEF SourceType
  <2> QED
    BY <1>3, <2>1, <2>2
<1>6. /\ acct' \in [Account -> AccountType] /\ acct'[e.prev] = [live |-> TRUE, into |-> 0]
      /\ \A b \in Account \ {e.prev} : acct'[b] = acct[b]
  <2>1. /\ acct \in [Account -> AccountType] /\ 0 \in 0 .. MaxAccount
        /\ acct'[e.prev] = [acct[e.prev] EXCEPT !.into = 0]
    BY <1>2, <1>3, AccountsAssumption DEF StructInv, TypesInv
  <2>2. acct'[e.prev] = [live |-> TRUE, into |-> 0]
    <3>1. acct[e.prev] \in AccountType /\ acct[e.prev].live = TRUE
      BY <1>2, <2>1
    <3> QED
      BY <2>1, <3>1 DEF AccountType
  <2> QED
    BY <1>2, <1>3, <2>1, <2>2 DEF AccountType
<1>7. TypesInv'
  BY <1>3, <1>4, <1>5, <1>6 DEF StructInv, TypesInv
<1>8. Respects
  <2>1. \A q \in Src : src'[q].st = "none" <=> src'[q].acct = 0
    BY <1>2, <1>5, Rows DEF StructInv, HomesInv
  <2>2. \A q \in Src : src'[q].acct # 0 => acct'[src'[q].acct].live /\ acct'[src'[q].acct].into = 0
    BY <1>2, <1>5, <1>6, Rows
  <2>3. \A b \in Account : acct'[b].into # 0 => acct'[b].live /\ acct'[acct'[b].into].live
    BY <1>6, Rows DEF StructInv, HomesInv
  <2>4. \A q \in Src : src'[q].st = "none" => row'[q] = NoRows
    BY <1>3, <1>5 DEF StructInv, BareInv
  <2>5. ASSUME NEW q \in Src, event'[q].st = "active"
        PROVE  /\ event'[q] = event[q] /\ src'[q].acct = src[q].acct /\ src'[q].decided
               /\ acct'[event[q].prev] = acct[event[q].prev]
               /\ acct'[event[q].target] = acct[event[q].target]
    <3>1. q # s /\ event'[q] = event[q] /\ src'[q] = src[q] /\ event[q].st = "active"
      BY <1>4, <1>5, <2>5
    <3>2. event[q].prev # e.prev
      BY <1>1, <3>1 DEF StructInv, PrevInv
    <3>3. event[q].target # e.prev
      <4>1. acct[event[q].target].into = 0 /\ acct[e.prev].into # 0
        <5>1. acct[e.prev].into = e.target /\ e.target # 0
          BY <1>2, Rows
        <5>2. acct[event[q].target].into = 0
          BY <3>1, ActiveIsMapped DEF Open
        <5> QED
          BY <5>1, <5>2
      <4> QED
        BY <4>1
    <3>4. event[q].prev \in Account /\ event[q].target \in Account /\ src[q].decided
      BY <3>1, ActiveIsMapped
    <3> QED
      BY <1>6, <3>1, <3>2, <3>3, <3>4
  <2> QED
    BY <2>1, <2>2, <2>3, <2>4, <2>5 DEF Respects
<1> QED
  BY <1>7, <1>8, RespectsKeeps

(* A set of accounts that goes with an account: it holds the account, and  *)
(* what was merged into one of its members.  Only the account itself may   *)
(* be fed.                                                                 *)
LEMMA CascadeClosed ==
  ASSUME StructInv, NEW a \in Account
  PROVE  /\ Cascade(a) \subseteq Account /\ a \in Cascade(a)
         /\ \A c \in Account : acct[c].into \in Cascade(a) => c \in Cascade(a)
         /\ UNION {Owned(b) : b \in Cascade(a)} = Owned(a)
<1>1. Cascade(a) \subseteq Account /\ a \in Cascade(a)
  BY DEF Cascade
<1>2. ASSUME NEW c \in Account, acct[c].into \in Cascade(a)
      PROVE  c \in Cascade(a)
  BY <1>2 DEF Cascade
<1>3. ASSUME NEW b \in Cascade(a), b # a
      PROVE  Owned(b) = {}
  <2> DEFINE G == {c \in Account : c = a \/ acct[c].into # 0}
  <2>1. G \in SUBSET Account /\ a \in G
    OBVIOUS
  <2>2. \A c \in Account : acct[c].into \in G => c \in G
    <3>1. 0 \notin G
      BY Rows
    <3> QED
      BY <3>1
  <2>3. b \in G
    BY <2>1, <2>2 DEF Cascade
  <2> QED
    BY <1>3, <2>3 DEF StructInv, MergesAreReversible
<1> QED
  BY <1>1, <1>2, <1>3

(* Deleting closed sets of accounts with their sources, and sources, leaves *)
(* nothing behind that refers to them.                                     *)
LEMMA RemoveStep ==
  ASSUME StructInv, NEW G \in SUBSET Account, NEW lost \in SUBSET Src, Remove(G, lost),
         \A c \in Account : acct[c].into \in G => c \in G,
         \A q \in Src : src[q].acct \in G => q \in lost,
         UNCHANGED <<mode, now, cutover>>, edits' \in 0 .. MaxEdits
  PROVE  StructInv'
<1>1. /\ \A q \in Src : /\ q \in lost => src'[q] = NoSrc /\ row'[q] = NoRows /\ event'[q] = NoEvent
                        /\ q \notin lost => src'[q] = src[q] /\ row'[q] = row[q]
      /\ \A q \in Src : event'[q] \in {NoEvent, event[q]}
      /\ \A q \in Src : event'[q] = event[q] /\ event[q] # NoEvent =>
                           q \notin lost /\ event[q].prev \notin G /\ event[q].target \notin G
      /\ \A b \in Account : acct'[b] = IF b \in G THEN [live |-> FALSE, into |-> 0] ELSE acct[b]
  BY DEF Remove
<1>2. NoEvent.st # "active" /\ NoSrc.st = "none" /\ NoSrc.acct = 0
  BY DEF NoEvent, NoSrc
<1>3. TypesInv'
  <2>1. src' \in [Src -> SourceType] /\ row' \in [Src -> [Days -> RowType]]
    BY Rows DEF Remove
  <2>2. event' \in [Src -> EventType]
    BY Rows DEF Remove
  <2>3. queue' \in [Src -> Seq(Payload)]
    BY Rows DEF Remove
  <2>4. [live |-> FALSE, into |-> 0] \in AccountType
    BY AccountsAssumption DEF AccountType
  <2>5. acct' \in [Account -> AccountType]
    BY <2>4, Rows DEF Remove
  <2> QED
    BY <2>1, <2>2, <2>3, <2>5 DEF StructInv, TypesInv
<1>4. Respects
  <2>1. \A q \in Src : src'[q].st = "none" <=> src'[q].acct = 0
    BY <1>1, <1>2 DEF StructInv, HomesInv
  <2>2. \A q \in Src : src'[q].acct # 0 => acct'[src'[q].acct].live /\ acct'[src'[q].acct].into = 0
    BY <1>1, <1>2, Rows
  <2>3. ASSUME NEW b \in Account, acct'[b].into # 0
        PROVE  acct'[b].live /\ acct'[acct'[b].into].live
    <3>1. b \notin G /\ acct'[b] = acct[b]
      BY <1>1, <2>3
    <3>2. acct[b].into \in Account /\ acct[b].into \notin G
      BY <2>3, <3>1, Rows
    <3> QED
      BY <1>1, <2>3, <3>1, <3>2 DEF StructInv, HomesInv
  <2>4. \A q \in Src : src'[q].st = "none" => row'[q] = NoRows
    BY <1>1 DEF StructInv, BareInv
  <2>5. ASSUME NEW q \in Src, event'[q].st = "active"
        PROVE  /\ event'[q] = event[q] /\ src'[q].acct = src[q].acct /\ src'[q].decided
               /\ acct'[event[q].prev] = acct[event[q].prev]
               /\ acct'[event[q].target] = acct[event[q].target]
    <3>1. /\ event'[q] = event[q] /\ event[q].st = "active" /\ event[q] # NoEvent
          /\ q \notin lost /\ event[q].prev \notin G /\ event[q].target \notin G
      BY <1>1, <1>2, <2>5
    <3>2. event[q].prev \in Account /\ event[q].target \in Account /\ src[q].decided
      BY <3>1, ActiveIsMapped
    <3> QED
      BY <1>1, <3>1, <3>2
  <2> QED
    BY <2>1, <2>2, <2>3, <2>4, <2>5 DEF Respects
<1> QED
  BY <1>3, <1>4, RespectsKeeps

(* Deleting or cleaning up an account takes everything with it that was    *)
(* merged into it.                                                         *)
LEMMA DeleteStep ==
  ASSUME StructInv, NEW a \in Account, DeleteAccount(a) \/ CleanAccount(a)
  PROVE  StructInv'
<1> DEFINE G == Cascade(a)
           lost == UNION {Owned(b) : b \in Cascade(a)}
<1>1. /\ Remove(G, lost) /\ UNCHANGED <<mode, now, cutover>> /\ edits' \in 0 .. MaxEdits
  BY AccountsAssumption DEF DeleteAccount, CleanAccount, Edit, StructInv, TypesInv
<1>2. G \in SUBSET Account /\ \A c \in Account : acct[c].into \in G => c \in G
  BY CascadeClosed
<1>3. lost \in SUBSET Src /\ \A q \in Src : src[q].acct \in G => q \in lost
  BY DEF Owned
<1> HIDE DEF G, lost
<1> QED
  BY <1>1, <1>2, <1>3, RemoveStep

(* A computer that is cleaned up takes its sources with it.                *)
LEMMA CleanComputerStep ==
  ASSUME StructInv, NEW S \in SUBSET Src, CleanComputer(S)
  PROVE  StructInv'
<1>1. /\ Remove({}, S) /\ UNCHANGED <<mode, now, cutover>> /\ edits' \in 0 .. MaxEdits
  BY AccountsAssumption DEF CleanComputer, Edit, StructInv, TypesInv
<1> QED
  BY <1>1, RemoveStep

(* Sources that are disconnected, or lose their rows and their merges.     *)
LEMMA LeaveStep ==
  ASSUME StructInv, LeaveLeaderboard
  PROVE  StructInv'
<1>1. /\ src' = [s \in Src |-> IF src[s].st = "none" THEN src[s]
                               ELSE [src[s] EXCEPT !.st = "disconnected"]]
      /\ event' = [s \in Src |-> Superseded(event[s])]
      /\ row' = [s \in Src |-> NoRows]
      /\ UNCHANGED <<acct, queue, mode, now, cutover>> /\ edits' \in 0 .. MaxEdits
  BY AccountsAssumption DEF LeaveLeaderboard, Edit, StructInv, TypesInv
<1>2. \A q \in Src : /\ src'[q] \in SourceType /\ src'[q].acct = src[q].acct
                     /\ src'[q].st = "none" <=> src[q].st = "none"
  <2>1. ASSUME NEW q \in Src, src[q].st # "none"
        PROVE  /\ src'[q] \in SourceType /\ src'[q].acct = src[q].acct
               /\ src'[q].st = "disconnected"
    <3>1. src[q] \in SourceType /\ src'[q] = [src[q] EXCEPT !.st = "disconnected"]
      BY <1>1, <2>1, Rows
    <3> QED
      BY <3>1 DEF SourceType
  <2>2. ASSUME NEW q \in Src, src[q].st = "none"
        PROVE  src'[q] = src[q]
    BY <1>1, <2>2
  <2> QED
    BY <2>1, <2>2, Rows
<1>3. \A q \in Src : event'[q] \in EventType /\ event'[q].st # "active"
  BY <1>1, SupersededType, Rows
<1>4. TypesInv'
  <2>1. src' \in [Src -> SourceType]
    BY <1>1, <1>2
  <2>2. event' \in [Src -> EventType]
    BY <1>1, <1>3
  <2>3. row' \in [Src -> [Days -> RowType]]
    BY <1>1, Rows
  <2> QED
    BY <1>1, <2>1, <2>2, <2>3 DEF StructInv, TypesInv
<1>5. Respects
  <2>1. \A q \in Src : src'[q].st = "none" <=> src'[q].acct = 0
    BY <1>2 DEF StructInv, HomesInv
  <2>2. \A q \in Src : src'[q].acct # 0 => acct'[src'[q].acct].live /\ acct'[src'[q].acct].into = 0
    BY <1>1, <1>2, Rows
  <2>3. \A b \in Account : acct'[b].into # 0 => acct'[b].live /\ acct'[acct'[b].into].live
    BY <1>1 DEF StructInv, HomesInv
  <2> QED
    BY <1>1, <1>3, <2>1, <2>2, <2>3 DEF Respects
<1> QED
  BY <1>4, <1>5, RespectsKeeps

(* Disconnected sources stay where they are.                               *)
LEMMA DisconnectStep ==
  ASSUME StructInv, NEW S \in SUBSET Src, DisconnectSources(S)
  PROVE  StructInv'
<1>1. /\ src' = [s \in Src |-> IF s \in S THEN [src[s] EXCEPT !.st = "disconnected"] ELSE src[s]]
      /\ \A s \in S : src[s].st = "active"
      /\ UNCHANGED <<acct, event, row, queue, mode, now, cutover>> /\ edits' \in 0 .. MaxEdits
  BY AccountsAssumption DEF DisconnectSources, Edit, StructInv, TypesInv
<1>2. \A q \in Src : /\ src'[q] \in SourceType /\ src'[q].acct = src[q].acct
                     /\ src'[q].decided = src[q].decided
                     /\ src'[q].st = "none" <=> src[q].st = "none"
  <2>1. ASSUME NEW q \in S
        PROVE  /\ src'[q] \in SourceType /\ src'[q].acct = src[q].acct
               /\ src'[q].decided = src[q].decided /\ src'[q].st = "disconnected"
    <3>1. src[q] \in SourceType /\ src'[q] = [src[q] EXCEPT !.st = "disconnected"]
      BY <1>1, <2>1, Rows
    <3> QED
      BY <3>1 DEF SourceType
  <2>2. ASSUME NEW q \in Src \ S
        PROVE  src'[q] = src[q]
    BY <1>1, <2>2
  <2> QED
    BY <1>1, <2>1, <2>2, Rows
<1>3. TypesInv'
  <2>1. src' \in [Src -> SourceType]
    BY <1>1, <1>2
  <2> QED
    BY <1>1, <2>1 DEF StructInv, TypesInv
<1>4. Respects
  <2>1. \A q \in Src : src'[q].st = "none" <=> src'[q].acct = 0
    BY <1>2 DEF StructInv, HomesInv
  <2>2. \A q \in Src : src'[q].acct # 0 => acct'[src'[q].acct].live /\ acct'[src'[q].acct].into = 0
    BY <1>1, <1>2, Rows
  <2>3. \A b \in Account : acct'[b].into # 0 => acct'[b].live /\ acct'[acct'[b].into].live
    BY <1>1 DEF StructInv, HomesInv
  <2>4. \A q \in Src : src'[q].st = "none" => row'[q] = NoRows
    BY <1>1, <1>2 DEF StructInv, BareInv
  <2>5. \A q \in Src : event'[q].st = "active" => src'[q].decided
    BY <1>1, <1>2, ActiveIsMapped
  <2> QED
    BY <1>1, <1>2, <2>1, <2>2, <2>3, <2>4, <2>5 DEF Respects
<1> QED
  BY <1>3, <1>4, RespectsKeeps

(* A collection only queues a payload.                                     *)
LEMMA CollectStep ==
  ASSUME StructInv, NEW s \in Src, NEW x \in Snaps, NEW t \in {0, now, now + 1},
         CollectSnapshot(s, x, t)
  PROVE  StructInv'
<1>1. /\ UNCHANGED <<mode, src, acct, event, row, edits>>
      /\ queue' = [queue EXCEPT ![s] = Append(queue[s], [at |-> t, snap |-> x])]
      /\ (now' = t \/ now' = now) /\ cutover' \in {cutover, t}
  BY DEF CollectSnapshot
<1>2. t \in Nat /\ now' \in Nat /\ cutover' \in Nat
  BY <1>1 DEF StructInv, TypesInv
<1>3. queue' \in [Src -> Seq(Payload)]
  <2>1. [at |-> t, snap |-> x] \in Payload /\ queue[s] \in Seq(Payload)
    BY <1>2, Rows DEF Payload
  <2>2. Append(queue[s], [at |-> t, snap |-> x]) \in Seq(Payload)
    BY <2>1
  <2> QED
    BY <1>1, <2>2 DEF StructInv, TypesInv
<1>4. TypesInv'
  BY <1>1, <1>2, <1>3 DEF StructInv, TypesInv
<1>5. Respects
  <2>1. \A q \in Src : event'[q].st = "active" => src'[q].decided
    BY <1>1, ActiveIsMapped
  <2>2. \A q \in Src : src'[q].acct # 0 => acct'[src'[q].acct].live /\ acct'[src'[q].acct].into = 0
    BY <1>1, Rows
  <2> QED
    BY <1>1, <2>1, <2>2 DEF Respects, StructInv, HomesInv, BareInv
<1> QED
  BY <1>4, <1>5, RespectsKeeps

(* A merge moves a source nobody has decided about, alone on its account,  *)
(* to another open account.                                                *)
LEMMA MergesAre ==
  ASSUME StructInv, NEW s \in Src, NEW rows, NEW m \in Merges(rows, s)
  PROVE  /\ m[1] \in Src /\ m[2] \in Account /\ Open(m[2])
         /\ src[m[1]].acct \in Account /\ Open(src[m[1]].acct) /\ src[m[1]].acct # m[2]
         /\ Owned(src[m[1]].acct) = {m[1]} /\ Undecided(m[1])
<1> DEFINE C == Candidates(rows, s)
           days(c) == Cardinality(Matched(rows, s, c))
           best == {c \in C : \A q \in C : \/ days(c) > days(q)
                                           \/ days(c) = days(q) /\ src[c].acct <= src[q].acct}
           stays(c) == Cardinality(Owned(src[s].acct)) > 1 \/ src[s].acct < src[c].acct
<1>1. mode = "account_max" /\ Open(src[s].acct) /\ Undecided(s)
  BY DEF Merges
<1>2. m \in {<<IF stays(c) THEN c ELSE s, IF stays(c) THEN src[s].acct ELSE src[c].acct>> :
               c \in best}
  BY <1>1 DEF Merges
<1>3. PICK c \in best :
        m = <<IF stays(c) THEN c ELSE s, IF stays(c) THEN src[s].acct ELSE src[c].acct>>
  BY <1>2
<1>4. /\ c \in Src /\ src[c].acct # src[s].acct /\ Open(src[c].acct)
      /\ Undecided(c) /\ Owned(src[c].acct) = {c}
  BY <1>3 DEF Candidates
<1>5. CASE stays(c)
  <2>1. m[1] = c /\ m[2] = src[s].acct
    BY <1>3, <1>5
  <2> QED
    BY <1>1, <1>4, <2>1 DEF Open
<1>6. CASE ~stays(c)
  <2>1. m[1] = s /\ m[2] = src[c].acct
    BY <1>3, <1>6
  <2>2. Owned(src[s].acct) = {s}
    <3> DEFINE O == Owned(src[s].acct)
    <3>1. s \in O /\ O \in SUBSET Src /\ IsFiniteSet(Src)
      BY AccountsAssumption DEF Owned
    <3>2. IsFiniteSet(O)
      BY <3>1, FS_Subset
    <3>3. Cardinality(O) \in Nat /\ Cardinality(O) # 0 /\ ~(Cardinality(O) > 1)
      BY <1>6, <3>1, <3>2, FS_CardinalityType, FS_EmptySet
    <3>4. Cardinality(O) = 1
      BY <3>3
    <3> HIDE DEF O
    <3>5. \E q : O = {q}
      BY <3>2, <3>4, FS_Singleton
    <3>6. O = {s}
      BY <3>1, <3>5
    <3> QED
      BY <3>6 DEF O
  <2> QED
    BY <1>1, <1>4, <2>1, <2>2 DEF Open
<1> QED
  BY <1>5, <1>6

(* What an upload writes is a row.                                         *)
LEMMA StoredType ==
  ASSUME NEW old \in RowType, NEW x \in Snapshot, NEW d \in Days, NEW t \in 0 .. MaxTickets + 1
  PROVE  Stored(old, x.entry[d], x, t) \in RowType
<1> DEFINE e == x.entry[d]
<1>1. e \in Entry \cup {Nil}
  BY DEF Snapshot
<1>2. NoRow \in RowType
  BY AccountsAssumption DEF NoRow, RowType
<1>3. CASE e # Nil
  <2>1. [n |-> e.n, full |-> e.full, at |-> t] \in RowType
    BY <1>1, <1>3 DEF Entry, RowType
  <2> QED
    BY <1>3, <2>1 DEF Stored
<1>4. CASE e = Nil
  BY <1>2, <1>4 DEF Stored
<1> QED
  BY <1>3, <1>4

(* The payload that is uploaded, and what becomes of the rows.             *)
LEMMA UploadRows ==
  ASSUME StructInv, NEW s \in Src, NEW answered \in BOOLEAN, Upload(s, answered)
  PROVE  LET p == Head(queue[s])
         IN  /\ queue[s] # <<>> /\ p \in Payload /\ p.snap \in Snapshot
             /\ ObservedAt(p) \in 0 .. MaxTickets + 1
             /\ row' \in [Src -> [Days -> RowType]]
             /\ \A q \in Src \ {s} : row'[q] = row[q]
             /\ \A d \in Days :
                  row'[s][d] = Stored(row[s][d], p.snap.entry[d], p.snap, ObservedAt(p))
             /\ now' \in Nat /\ queue' \in [Src -> Seq(Payload)]
             /\ UNCHANGED <<mode, cutover, edits>>
<1> DEFINE p == Head(queue[s])
           x == p.snap
           t == ObservedAt(p)
<1>1. queue[s] # <<>> /\ t <= MaxTickets + 1 /\ UNCHANGED <<mode, cutover, edits>>
  BY DEF Upload
<1>2. queue[s] \in Seq(Payload) /\ p \in Payload
  BY <1>1, Rows
<1>3. x \in Snapshot /\ p.at \in Nat
  BY <1>2, AccountsAssumption DEF Payload
<1>4. t \in 0 .. MaxTickets + 1
  <2>1. t \in Nat
    BY <1>3 DEF ObservedAt, StructInv, TypesInv
  <2> QED
    BY <1>1, <2>1, AccountsAssumption
<1>5. row' = [row EXCEPT ![s] = [d \in Days |-> Stored(row[s][d], x.entry[d], x, t)]]
  BY DEF Upload
<1>6. [d \in Days |-> Stored(row[s][d], x.entry[d], x, t)] \in [Days -> RowType]
  <2>1. \A d \in Days : row[s][d] \in RowType
    BY Rows
  <2> QED
    BY <1>3, <1>4, <2>1, StoredType
<1>7. row \in [Src -> [Days -> RowType]]
  BY DEF StructInv, TypesInv
<1>8. now' \in Nat
  <2>1. now' = IF t > now THEN t ELSE now
    BY DEF Upload
  <2> QED
    BY <1>4, <2>1, AccountsAssumption DEF StructInv, TypesInv
<1>9. queue' \in [Src -> Seq(Payload)]
  <2>1. queue' = IF answered THEN [queue EXCEPT ![s] = Tail(queue[s])] ELSE queue
    BY DEF Upload
  <2>2. Tail(queue[s]) \in Seq(Payload)
    BY <1>1, <1>2
  <2> QED
    BY <2>1, <2>2 DEF StructInv, TypesInv
<1> HIDE DEF t, x
<1>10. \A q \in Src \ {s} : row'[q] = row[q]
  BY <1>5, <1>7
<1>11. \A d \in Days : row'[s][d] = Stored(row[s][d], x.entry[d], x, t)
  BY <1>5, <1>7
<1>12. row' \in [Src -> [Days -> RowType]]
  BY <1>5, <1>6, <1>7
<1> QED
  BY <1>1, <1>2, <1>3, <1>4, <1>8, <1>9, <1>10, <1>11, <1>12 DEF x, t

(* What the merge of a source does.                                        *)
LEMMA MergeFields ==
  ASSUME StructInv, NEW s \in Src, NEW rows, NEW m \in Merges(rows, s), Merge(m[1], m[2])
  PROVE  LET prev == src[m[1]].acct
         IN  /\ src' \in [Src -> SourceType] /\ acct' \in [Account -> AccountType]
             /\ event' \in [Src -> EventType]
             /\ src'[m[1]].acct = m[2] /\ src'[m[1]].decided /\ src'[m[1]].st = src[m[1]].st
             /\ \A q \in Src \ {m[1]} : src'[q] = src[q] /\ event'[q] = event[q]
             /\ event'[m[1]] = [st |-> "active", prev |-> prev, target |-> m[2]]
             /\ acct'[prev] = [live |-> TRUE, into |-> m[2]]
             /\ \A b \in Account \ {prev} : acct'[b] = acct[b]
<1> DEFINE prev == src[m[1]].acct
           moving == m[1]
           target == m[2]
<1>1. /\ moving \in Src /\ target \in Account /\ prev \in Account
      /\ prev \in 0 .. MaxAccount /\ target \in 0 .. MaxAccount
      /\ acct[prev].live /\ acct[prev].into = 0
  BY MergesAre, AccountsAssumption DEF Open, Account
<1>2. /\ src \in [Src -> SourceType] /\ acct \in [Account -> AccountType]
      /\ event \in [Src -> EventType]
      /\ src[moving] \in SourceType /\ acct[prev] \in AccountType
  BY <1>1 DEF StructInv, TypesInv
<1>3. /\ src' = [src EXCEPT ![moving].acct = target, ![moving].decided = TRUE]
      /\ acct' = [acct EXCEPT ![prev].into = target]
      /\ event' = [event EXCEPT ![moving] = [st |-> "active", prev |-> prev, target |-> target]]
  BY DEF Merge
<1> HIDE DEF prev, moving, target
<1>4. src'[moving] = [src[moving] EXCEPT !.acct = target, !.decided = TRUE]
  BY <1>1, <1>2, <1>3
<1>5. src'[moving] \in SourceType /\ src'[moving].acct = target /\ src'[moving].decided
      /\ src'[moving].st = src[moving].st
  BY <1>1, <1>2, <1>4 DEF SourceType
<1>6. acct'[prev] = [acct[prev] EXCEPT !.into = target]
  BY <1>1, <1>2, <1>3
<1>7. acct'[prev] \in AccountType /\ acct'[prev] = [live |-> TRUE, into |-> target]
  BY <1>1, <1>2, <1>6 DEF AccountType
<1>8. [st |-> "active", prev |-> prev, target |-> target] \in EventType
  BY <1>1 DEF EventType
<1>9. /\ src' \in [Src -> SourceType] /\ acct' \in [Account -> AccountType]
      /\ event' \in [Src -> EventType]
  BY <1>1, <1>2, <1>3, <1>5, <1>7, <1>8
<1>10. /\ \A q \in Src \ {moving} : src'[q] = src[q] /\ event'[q] = event[q]
       /\ event'[moving] = [st |-> "active", prev |-> prev, target |-> target]
       /\ \A b \in Account \ {prev} : acct'[b] = acct[b]
  BY <1>1, <1>2, <1>3
<1> QED
  BY <1>5, <1>7, <1>9, <1>10 DEF prev, moving, target

(* An upload may merge: the account that is left was open and fed by       *)
(* nobody else, so no merge that stands came from it or went to it.        *)
LEMMA UploadStep ==
  ASSUME StructInv, NEW s \in Src, NEW answered \in BOOLEAN, Upload(s, answered)
  PROVE  StructInv'
<1>1. /\ row' \in [Src -> [Days -> RowType]] /\ \A q \in Src \ {s} : row'[q] = row[q]
      /\ now' \in Nat /\ queue' \in [Src -> Seq(Payload)] /\ UNCHANGED <<mode, cutover, edits>>
      /\ src[s].st = "active"
  BY UploadRows DEF Upload
<1>2. \/ UNCHANGED <<src, acct, event>>
      \/ \E m \in Merges(row', s) : Merge(m[1], m[2])
  BY DEF Upload
<1>3. CASE UNCHANGED <<src, acct, event>>
  <2>1. TypesInv'
    BY <1>1, <1>3 DEF StructInv, TypesInv
  <2>2. \A q \in Src : event'[q].st = "active" => src'[q].decided
    BY <1>3, ActiveIsMapped
  <2>3. \A q \in Src : src'[q].acct # 0 => acct'[src'[q].acct].live /\ acct'[src'[q].acct].into = 0
    BY <1>3, Rows
  <2>4. \A q \in Src : src'[q].st = "none" => row'[q] = NoRows
    BY <1>1, <1>3 DEF StructInv, BareInv
  <2>5. Respects
    BY <1>3, <2>2, <2>3, <2>4 DEF Respects, StructInv, HomesInv
  <2> QED
    BY <2>1, <2>5, RespectsKeeps
<1>4. ASSUME NEW m \in Merges(row', s), Merge(m[1], m[2])
      PROVE  StructInv'
  <2> DEFINE prev == src[m[1]].acct
             moving == m[1]
             target == m[2]
  <2>1. /\ moving \in Src /\ target \in Account /\ Open(target)
        /\ prev \in Account /\ Open(prev) /\ prev # target
        /\ Owned(prev) = {moving}
    BY <1>4, MergesAre
  <2>2. /\ src' \in [Src -> SourceType] /\ acct' \in [Account -> AccountType]
        /\ event' \in [Src -> EventType]
        /\ src'[moving].acct = target /\ src'[moving].decided /\ src'[moving].st = src[moving].st
        /\ \A q \in Src \ {moving} : src'[q] = src[q] /\ event'[q] = event[q]
        /\ event'[moving] = [st |-> "active", prev |-> prev, target |-> target]
        /\ acct'[prev] = [live |-> TRUE, into |-> target]
        /\ \A b \in Account \ {prev} : acct'[b] = acct[b]
    BY <1>4, MergeFields
  <2> HIDE DEF prev, moving, target
  <2>3. TypesInv'
    BY <1>1, <2>2 DEF StructInv, TypesInv
  <2>4. /\ acct[target].live /\ acct[target].into = 0 /\ acct[prev].live /\ acct[prev].into = 0
        /\ target # 0 /\ prev # 0 /\ src[moving].acct = prev
        /\ \A q \in Src \ {moving} : src[q].acct # prev
    BY <2>1, Rows DEF Open, Owned, prev
  <2>5. HomesInv'
    <3>1. src[moving].st # "none"
      BY <2>1, <2>4 DEF StructInv, HomesInv
    <3>2. \A q \in Src : src'[q].st = "none" <=> src'[q].acct = 0
      BY <2>2, <2>4, <3>1 DEF StructInv, HomesInv
    <3>3. \A b \in Account : acct[b].live => acct'[b].live
      BY <2>2
    <3>4. \A q \in Src : src'[q].acct # 0 => acct'[src'[q].acct].live
      BY <2>1, <2>2, <2>4, <3>3, Rows
    <3>5. \A b \in Account : acct'[b].into # 0 => acct'[b].live /\ acct'[acct'[b].into].live
      BY <2>1, <2>2, <2>4, <3>3, Rows DEF StructInv, HomesInv
    <3> QED
      BY <3>2, <3>4, <3>5 DEF HomesInv
  <2>6. BareInv'
    <3>1. \A q \in Src : src'[q].st = "none" => q # s /\ src[q].st = "none"
      BY <1>1, <2>2
    <3> QED
      BY <1>1, <3>1 DEF StructInv, BareInv
  <2>7. \A q \in Src \ {moving} : event'[q].st = "active" =>
           event[q].st = "active" /\ event[q].prev # prev /\ event[q].target # prev
           /\ event[q].prev \in Account /\ event[q].target \in Account
    <3>1. ASSUME NEW q \in Src \ {moving}, event'[q].st = "active"
          PROVE  event[q].st = "active" /\ event[q].prev # prev /\ event[q].target # prev
                 /\ event[q].prev \in Account /\ event[q].target \in Account
      <4>1. event[q].st = "active"
        BY <2>2, <3>1
      <4>2. /\ acct[event[q].prev] = [live |-> TRUE, into |-> event[q].target]
            /\ event[q].target # 0 /\ src[q].acct = event[q].target
            /\ event[q].prev \in Account /\ event[q].target \in Account
        BY <4>1, ActiveIsMapped
      <4> QED
        BY <2>4, <4>1, <4>2
    <3> QED
      BY <3>1
  <2>8. PrevInv'
    BY <2>1, <2>2, <2>7 DEF StructInv, PrevInv
  <2>9. MergesAreReversible'
    <3>1. ASSUME NEW q \in Src, event'[q].st = "active"
          PROVE  /\ src'[q].acct = event'[q].target /\ src'[q].decided
                 /\ acct'[event'[q].prev] = [live |-> TRUE, into |-> event'[q].target]
                 /\ event'[q].target \in Account /\ acct'[event'[q].target].live
                 /\ acct'[event'[q].target].into = 0
      <4>1. CASE q = moving
        <5>1. event'[q] = [st |-> "active", prev |-> prev, target |-> target]
          BY <2>2, <4>1
        <5>2. event'[q].prev = prev /\ event'[q].target = target
          BY <5>1
        <5>3. acct'[target] = acct[target]
          BY <2>1, <2>2
        <5> QED
          BY <2>1, <2>2, <2>4, <4>1, <5>2, <5>3
      <4>2. CASE q # moving
        <5>1. /\ event'[q] = event[q] /\ src'[q] = src[q] /\ event[q].st = "active"
              /\ event[q].prev # prev /\ event[q].target # prev
              /\ event[q].prev \in Account /\ event[q].target \in Account
          BY <2>2, <2>7, <3>1, <4>2
        <5> QED
          BY <2>2, <5>1, ActiveIsMapped DEF Open
      <4> QED
        BY <4>1, <4>2
    <3>2. ASSUME NEW b \in Account, acct'[b].into # 0, NEW q \in Src, src'[q].acct = b
          PROVE  FALSE
      <4>1. CASE q = moving
        BY <2>1, <2>2, <2>4, <3>2, <4>1
      <4>2. CASE q # moving
        <5>1. src[q].acct = b /\ b # prev
          BY <2>2, <2>4, <3>2, <4>2
        <5>2. acct[b].into # 0
          BY <2>2, <3>2, <5>1
        <5> QED
          BY <5>1, <5>2, Rows
      <4> QED
        BY <4>1, <4>2
    <3> QED
      BY <3>1, <3>2 DEF MergesAreReversible, Open, Owned
  <2> QED
    BY <2>3, <2>5, <2>6, <2>8, <2>9 DEF StructInv
<1> QED
  BY <1>2, <1>3, <1>4

(* The structure holds at first, and every step keeps it.                  *)
LEMMA StructNext ==
  ASSUME StructInv, AccountsNext
  PROVE  StructInv'
<1>1. ASSUME NEW s \in Src, NEW a \in Mappable(s), NEW D \in SUBSET {q \in Src \ {s} :
                            ComputerOf[q] = ComputerOf[s] /\ src[q].st = "active"},
             ApproveSource(s, a, D)
      PROVE  StructInv'
  BY <1>1, ApproveStep
<1>2. ASSUME NEW s \in Src, NEW p \in Src, Register(s, p)
      PROVE  StructInv'
  BY <1>2, RegisterStep
<1>3. ASSUME NEW s \in Src, NEW a \in Account, Reassign(s, a)
      PROVE  StructInv'
  BY <1>3, ReassignStep
<1>4. ASSUME NEW s \in Src, Undo(s)
      PROVE  StructInv'
  BY <1>4, UndoStep
<1>5. ASSUME NEW s \in Src, NEW x \in Snaps, NEW t \in {0, now, now + 1}, CollectSnapshot(s, x, t)
      PROVE  StructInv'
  BY <1>5, CollectStep
<1>6. ASSUME NEW s \in Src, NEW answered \in BOOLEAN, Upload(s, answered)
      PROVE  StructInv'
  BY <1>6, UploadStep
<1>7. ASSUME NEW a \in Account, DeleteAccount(a) \/ CleanAccount(a)
      PROVE  StructInv'
  BY <1>7, DeleteStep
<1>8. ASSUME NEW S \in SUBSET Src, DisconnectSources(S)
      PROVE  StructInv'
  BY <1>8, DisconnectStep
<1>9. ASSUME NEW k \in Range(ComputerOf), CleanComputer({s \in Src : ComputerOf[s] = k})
      PROVE  StructInv'
  <2>1. {s \in Src : ComputerOf[s] = k} \in SUBSET Src
    OBVIOUS
  <2> QED
    BY <1>9, <2>1, CleanComputerStep
<1>10. CASE LeaveLeaderboard
  BY <1>10, LeaveStep
<1> QED
  BY <1>1, <1>2, <1>3, <1>4, <1>5, <1>6, <1>7, <1>8, <1>9, <1>10 DEF AccountsNext

(* Nothing is mapped at first.                                             *)
LEMMA StructInit ==
  AccountsInit => StructInv
<1> SUFFICES ASSUME AccountsInit
             PROVE  StructInv
  OBVIOUS
<1>1. /\ NoSrc \in SourceType /\ NoEvent \in EventType /\ NoRows \in [Days -> RowType]
      /\ [live |-> FALSE, into |-> 0] \in AccountType /\ <<>> \in Seq(Payload)
      /\ 0 \in 0 .. MaxEdits /\ 0 \notin Account
  BY AccountsAssumption DEF NoSrc, SourceType, NoEvent, EventType, NoRows, NoRow, RowType,
     AccountType, Account
<1>2. TypesInv
  BY <1>1 DEF AccountsInit, TypesInv
<1>3. HomesInv /\ BareInv
  BY <1>1 DEF AccountsInit, HomesInv, BareInv, NoSrc
<1>4. PrevInv /\ MergesAreReversible
  BY <1>1 DEF AccountsInit, PrevInv, MergesAreReversible, NoEvent, NoSrc, Owned
<1> QED
  BY <1>2, <1>3, <1>4 DEF StructInv

(* A step that changes nothing keeps the structure.                        *)
LEMMA StructStutter ==
  StructInv /\ UNCHANGED acctVars => StructInv'
BY DEF StructInv, acctVars, TypesInv, HomesInv, BareInv, PrevInv, MergesAreReversible, Open, Owned

(* The structure of accounts, sources and merges always holds.             *)
THEOREM Structure ==
  AccountsSpec => []StructInv
BY StructInit, StructNext, StructStutter, PTL DEF AccountsSpec

(* Every merge that stands can be undone (Accounts.MergesAreReversible).   *)
THEOREM Reversible ==
  AccountsSpec => []MergesAreReversible
<1>1. StructInv => MergesAreReversible
  BY DEF StructInv
<1> QED
  BY <1>1, Structure, PTL

-----------------------------------------------------------------------------
(* The summary *)

(* Contributions of a day are all that its total depends on: when no row   *)
(* of the day changes, and none moves to another account, the total stays. *)
LEMMA SameDay ==
  ASSUME NEW d \in Days, mode' = mode,
         \A q \in Src : \/ row'[q][d].at > 0 /\ row'[q][d] = row[q][d] /\ src'[q].acct = src[q].acct
                        \/ ~(row'[q][d].at > 0) /\ ~(row[q][d].at > 0)
  PROVE  (DayTotal(src, row, d))' = DayTotal(src, row, d)
<1>1. \A a : /\ (Contributors(src, row, a, d))' = Contributors(src, row, a, d)
             /\ \A q \in Contributors(src, row, a, d) : row'[q][d] = row[q][d]
  BY DEF Contributors
<1>2. ASSUME NEW a
      PROVE  (AccountDay(src, row, a, d))' = AccountDay(src, row, a, d)
  <2> DEFINE C == Contributors(src, row, a, d)
             R == {row[q][d] : q \in C}
  <2>1. C' = C /\ {row'[q][d] : q \in C} = R
    BY <1>1
  <2>2. [q \in C |-> row'[q][d].n] = [q \in C |-> row[q][d].n]
    BY <1>1
  <2> QED
    BY <2>1, <2>2 DEF AccountDay, Eligible, LatestComplete
<1>3. {a \in Account : (Contributors(src, row, a, d))' # {}}
      = {a \in Account : Contributors(src, row, a, d) # {}}
  BY <1>1
<1> QED
  BY <1>2, <1>3 DEF DayTotal

(* No account has a row of the day: there is no total.                     *)
LEMMA NoDay ==
  ASSUME NEW d \in Days, \A q \in Src : row[q][d].at = 0
  PROVE  DayTotal(src, row, d) = Nil
<1>1. \A a : Contributors(src, row, a, d) = {}
  BY DEF Contributors
<1> QED
  BY <1>1 DEF DayTotal

(* A step that summarises nothing changes nothing that would have to be.   *)
LEMMA UnsummarisedKeeps ==
  ASSUME SummaryMatches, UNCHANGED <<mode, summary, signals>>,
         \A d \in Days, q \in Src :
            \/ row'[q][d].at > 0 /\ row'[q][d] = row[q][d] /\ src'[q].acct = src[q].acct
            \/ ~(row'[q][d].at > 0) /\ ~(row[q][d].at > 0)
  PROVE  SummaryMatches'
<1>1. \A d \in Days : (DayTotal(src, row, d))' = DayTotal(src, row, d)
  BY SameDay
<1>2. (Totals(src, row))' = Totals(src, row)
  BY <1>1 DEF Totals
<1> QED
  BY <1>2 DEF SummaryMatches, Signals

(* The mode is fixed: totals of the rows after a step are those the step   *)
(* computes.                                                               *)
LEMMA TotalsAfter ==
  ASSUME mode' = mode
  PROVE  /\ \A d \in Days : (DayTotal(src, row, d))' = DayTotal(src', row', d)
         /\ (Totals(src, row))' = Totals(src', row')
<1>1. \A a, d : (Contributors(src, row, a, d))' = Contributors(src', row', a, d)
  BY DEF Contributors
<1>2. \A a, d : (AccountDay(src, row, a, d))' = AccountDay(src', row', a, d)
  BY <1>1 DEF AccountDay, Eligible, LatestComplete
<1>3. \A d \in Days : (DayTotal(src, row, d))' = DayTotal(src', row', d)
  BY <1>1, <1>2 DEF DayTotal
<1> QED
  BY <1>3 DEF Totals

(* A rebuild makes the summary true.                                       *)
LEMMA RebuildKeeps ==
  ASSUME Rebuild, mode' = mode
  PROVE  SummaryMatches'
BY TotalsAfter DEF Rebuild, SummaryMatches, Signals

(* Rows of before, where they count, and mappings are kept.                *)
LEMMA SameRows ==
  ASSUME StructInv, StructInv',
         \A q \in Src : row[q] # NoRows \/ row'[q] # NoRows =>
                          row'[q] = row[q] /\ src'[q].acct = src[q].acct
  PROVE  \A d \in Days, q \in Src :
            \/ row'[q][d].at > 0 /\ row'[q][d] = row[q][d] /\ src'[q].acct = src[q].acct
            \/ ~(row'[q][d].at > 0) /\ ~(row[q][d].at > 0)
<1> TAKE d \in Days, q \in Src
<1>1. CASE row[q] # NoRows \/ row'[q] # NoRows
  BY <1>1
<1>2. CASE row[q] = NoRows /\ row'[q] = NoRows
  BY <1>2 DEF NoRows, NoRow
<1> QED
  BY <1>1, <1>2

(* The uploads: a day that is not summarised again has no new row, and the *)
(* source of a merge takes all its days with it.                           *)
LEMMA UploadSummary ==
  ASSUME StructInv, SummaryMatches, NEW s \in Src, NEW answered \in BOOLEAN, Upload(s, answered)
  PROVE  SummaryMatches'
<1> DEFINE p == Head(queue[s])
           x == p.snap
           t == ObservedAt(p)
<1>1. /\ x \in Snapshot /\ UNCHANGED <<mode, cutover, edits>>
      /\ row \in [Src -> [Days -> RowType]] /\ row' \in [Src -> [Days -> RowType]]
      /\ \A q \in Src \ {s} : row'[q] = row[q]
      /\ \A d \in Days : row'[s][d] = Stored(row[s][d], x.entry[d], x, t)
  BY UploadRows DEF StructInv, TypesInv
<1>2. signals' = Signals(summary')
  BY DEF Upload
<1>3. \/ summary' = Totals(src', row')
      \/ /\ UNCHANGED src
         /\ summary' = [d \in Days |-> IF d \in Affected(x) THEN DayTotal(src, row', d)
                                       ELSE summary[d]]
  BY DEF Upload
<1> HIDE DEF p, x, t
<1>4. CASE summary' = Totals(src', row')
  BY <1>1, <1>2, <1>4, TotalsAfter DEF SummaryMatches, Signals
<1>5. CASE /\ UNCHANGED src
           /\ summary' = [d \in Days |-> IF d \in Affected(x) THEN DayTotal(src, row', d)
                                         ELSE summary[d]]
  <2>1. ASSUME NEW d \in Days \ Affected(x)
        PROVE  summary[d] = (DayTotal(src, row, d))'
    <3>1. x.entry[d] = Nil /\ ~Complete(x)
      BY <2>1 DEF Affected
    <3>2. row'[s][d] = row[s][d]
      BY <1>1, <3>1 DEF Stored
    <3>3. \A q \in Src : row'[q][d] = row[q][d] /\ row[q][d].at \in 0 .. MaxTickets + 1
      BY <1>1, <3>2 DEF RowType
    <3>4. (DayTotal(src, row, d))' = DayTotal(src, row, d)
      BY <1>1, <1>5, <3>3, SameDay
    <3>5. summary[d] = DayTotal(src, row, d)
      BY DEF SummaryMatches, Totals
    <3> QED
      BY <3>4, <3>5
  <2>2. \A d \in Affected(x) : d \in Days
    BY DEF Affected
  <2>3. \A d \in Days : summary'[d] = (DayTotal(src, row, d))'
    <3>1. \A d \in Days : (DayTotal(src, row, d))' = DayTotal(src', row', d)
      BY <1>1, TotalsAfter
    <3> QED
      BY <1>5, <2>1, <3>1
  <2>4. summary' = (Totals(src, row))'
    BY <1>5, <2>3 DEF Totals
  <2> QED
    BY <1>2, <2>4 DEF SummaryMatches, Signals
<1> QED
  BY <1>3, <1>4, <1>5

(* Every handler that does not rebuild the summary leaves rows and         *)
(* mappings as they count.                                                 *)
LEMMA SummaryNext ==
  ASSUME StructInv, SummaryMatches, AccountsNext
  PROVE  SummaryMatches'
<1> USE DEF Unsummarised
<1>0. StructInv'
  BY StructNext
<1>1. ASSUME NEW s \in Src, NEW a \in Mappable(s), NEW D \in SUBSET {q \in Src \ {s} :
                            ComputerOf[q] = ComputerOf[s] /\ src[q].st = "active"},
             ApproveSource(s, a, D)
      PROVE  SummaryMatches'
  <2> DEFINE moved == src[s].acct # 0 /\ src[s].acct # a
  <2>1. mode' = mode
    BY <1>1 DEF ApproveSource, Unedited, Edit
  <2>2. CASE moved \/ D # {}
    BY <1>1, <2>1, <2>2, RebuildKeeps DEF ApproveSource
  <2>3. CASE ~moved /\ D = {}
    <3>1. /\ row' = [q \in Src |-> row[q]] /\ UNCHANGED <<summary, signals>>
          /\ src'[s].acct = a \/ src[s] \notin SourceType
          /\ \A q \in Src \ {s} : src'[q] = src[q]
      BY <1>1, <2>3 DEF ApproveSource, SourceType
    <3>2. src[s].acct # 0 => src'[s].acct = src[s].acct
      BY <2>3, <3>1, Rows
    <3>3. src[s].acct = 0 => row[s] = NoRows
      BY DEF StructInv, HomesInv, BareInv
    <3>4. \A q \in Src : row[q] # NoRows \/ row'[q] # NoRows =>
                           row'[q] = row[q] /\ src'[q].acct = src[q].acct
      BY <3>1, <3>2, <3>3
    <3> QED
      BY <1>0, <2>1, <3>1, <3>4, SameRows, UnsummarisedKeeps
  <2> QED
    BY <2>2, <2>3
<1>2. ASSUME NEW s \in Src, NEW p \in Src, Register(s, p)
      PROVE  SummaryMatches'
  <2>1. /\ UNCHANGED <<row, mode, summary, signals>>
        /\ \A q \in Src \ {s} : src'[q] = src[q]
        /\ row[s] = NoRows
    BY <1>2 DEF Register, Unedited, StructInv, BareInv
  <2>2. \A q \in Src : row[q] # NoRows \/ row'[q] # NoRows =>
                           row'[q] = row[q] /\ src'[q].acct = src[q].acct
    BY <2>1
  <2> QED
    BY <1>0, <2>1, <2>2, SameRows, UnsummarisedKeeps
<1>3. ASSUME NEW s \in Src, NEW a \in Account, Reassign(s, a)
      PROVE  SummaryMatches'
  BY <1>3, RebuildKeeps DEF Reassign, Edit
<1>4. ASSUME NEW s \in Src, Undo(s)
      PROVE  SummaryMatches'
  <2>1. CASE Rebuild
    BY <1>4, <2>1, RebuildKeeps DEF Undo, Edit
  <2>2. CASE UNCHANGED <<src, row, mode, summary, signals>>
    <3>1. \A q \in Src : row[q] # NoRows \/ row'[q] # NoRows =>
                             row'[q] = row[q] /\ src'[q].acct = src[q].acct
      BY <2>2
    <3> QED
      BY <1>0, <2>2, <3>1, SameRows, UnsummarisedKeeps
  <2> QED
    BY <1>4, <2>1, <2>2 DEF Undo, Edit
<1>5. ASSUME NEW s \in Src, NEW x \in Snaps, NEW t \in {0, now, now + 1}, CollectSnapshot(s, x, t)
      PROVE  SummaryMatches'
  <2>1. UNCHANGED <<src, row, mode, summary, signals>>
    BY <1>5 DEF CollectSnapshot
  <2>2. \A q \in Src : row[q] # NoRows \/ row'[q] # NoRows =>
                           row'[q] = row[q] /\ src'[q].acct = src[q].acct
    BY <2>1
  <2> QED
    BY <1>0, <2>1, <2>2, SameRows, UnsummarisedKeeps
<1>6. ASSUME NEW s \in Src, NEW answered \in BOOLEAN, Upload(s, answered)
      PROVE  SummaryMatches'
  BY <1>6, UploadSummary
<1>7. ASSUME NEW a \in Account, DeleteAccount(a)
      PROVE  SummaryMatches'
  BY <1>7, RebuildKeeps DEF DeleteAccount, Edit
<1>8. ASSUME NEW a \in Account, CleanAccount(a)
      PROVE  SummaryMatches'
  <2>1. UNION {Owned(b) : b \in Cascade(a)} = {}
    BY <1>8, CascadeClosed DEF CleanAccount, Orphan
  <2>2. \A q \in Src : src'[q] = src[q] /\ row'[q] = row[q]
    BY <1>8, <2>1 DEF CleanAccount, Remove
  <2>3. UNCHANGED <<mode, summary, signals>>
    BY <1>8 DEF CleanAccount, Edit
  <2> QED
    BY <1>0, <2>2, <2>3, SameRows, UnsummarisedKeeps
<1>9. ASSUME NEW S \in SUBSET Src, DisconnectSources(S)
      PROVE  SummaryMatches'
  <2>1. /\ UNCHANGED <<row, mode, summary, signals>>
        /\ src' = [q \in Src |-> IF q \in S THEN [src[q] EXCEPT !.st = "disconnected"] ELSE src[q]]
    BY <1>9 DEF DisconnectSources, Edit
  <2>2. \A q \in Src : src'[q].acct = src[q].acct
    <3>1. ASSUME NEW q \in Src
          PROVE  src'[q].acct = src[q].acct
      <4>1. src[q] \in SourceType /\ src'[q] \in {[src[q] EXCEPT !.st = "disconnected"], src[q]}
        BY <2>1, Rows
      <4> QED
        BY <4>1 DEF SourceType
    <3> QED
      BY <3>1
  <2> QED
    BY <1>0, <2>1, <2>2, SameRows, UnsummarisedKeeps
<1>10. ASSUME NEW k \in Range(ComputerOf), CleanComputer({s \in Src : ComputerOf[s] = k})
       PROVE  SummaryMatches'
  <2> DEFINE S == {s \in Src : ComputerOf[s] = k}
  <2>1. /\ UNCHANGED <<mode, summary, signals>> /\ \A q \in S : row[q] = NoRows
        /\ \A q \in Src : /\ q \in S => row'[q] = NoRows
                          /\ q \notin S => row'[q] = row[q] /\ src'[q] = src[q]
    BY <1>10 DEF CleanComputer, Edit, Remove
  <2>2. \A q \in Src : row[q] # NoRows \/ row'[q] # NoRows =>
                           row'[q] = row[q] /\ src'[q].acct = src[q].acct
    BY <2>1
  <2> QED
    BY <1>0, <2>1, <2>2, SameRows, UnsummarisedKeeps
<1>11. CASE LeaveLeaderboard
  <2>1. /\ row' = [q \in Src |-> NoRows] /\ summary' = [d \in Days |-> Nil] /\ signals' = {}
        /\ mode' = mode
    BY <1>11 DEF LeaveLeaderboard, Edit
  <2>2. \A d \in Days, q \in Src : row'[q][d].at = 0
    BY <2>1 DEF NoRows, NoRow
  <2>3. \A d \in Days : (DayTotal(src, row, d))' = Nil
    <3>1. ASSUME NEW d \in Days
          PROVE  (DayTotal(src, row, d))' = Nil
      <4>1. \A a : (Contributors(src, row, a, d))' = {}
        BY <2>2 DEF Contributors
      <4> QED
        BY <4>1 DEF DayTotal
    <3> QED
      BY <3>1
  <2>4. (Totals(src, row))' = summary'
    BY <2>1, <2>3 DEF Totals
  <2>5. (Signals(summary))' = {}
    BY <2>1 DEF Signals
  <2> QED
    BY <2>1, <2>4, <2>5 DEF SummaryMatches
<1> QED
  BY <1>1, <1>2, <1>3, <1>4, <1>5, <1>6, <1>7, <1>8, <1>9, <1>10, <1>11 DEF AccountsNext

(* There are no rows at first, and no summary.                             *)
LEMMA SummaryInit ==
  AccountsInit => SummaryMatches
<1> SUFFICES ASSUME AccountsInit
             PROVE  SummaryMatches
  OBVIOUS
<1>1. \A d \in Days : DayTotal(src, row, d) = Nil
  BY NoDay DEF AccountsInit, NoRows, NoRow
<1>2. Totals(src, row) = summary
  BY <1>1 DEF Totals, AccountsInit
<1>3. Signals(summary) = {}
  BY DEF AccountsInit, Signals
<1> QED
  BY <1>2, <1>3 DEF SummaryMatches, AccountsInit

(* The public summary is what the rows and the mapping say, although few   *)
(* handlers compute all of it (Accounts.SummaryMatches).                   *)
THEOREM SummaryIsTrue ==
  AccountsSpec => []SummaryMatches
<1>1. StructInv /\ SummaryMatches /\ [AccountsNext]_acctVars => SummaryMatches'
  <2>1. ASSUME StructInv, SummaryMatches, UNCHANGED acctVars
        PROVE  SummaryMatches'
    <3>1. UNCHANGED <<src, row, mode, summary, signals>>
      BY <2>1 DEF acctVars
    <3> QED
      BY <2>1, <3>1, TotalsAfter DEF SummaryMatches, Signals
  <2> QED
    BY <2>1, SummaryNext
<1> QED
  BY <1>1, Structure, SummaryInit, PTL DEF AccountsSpec

-----------------------------------------------------------------------------
(* Decisions *)

(* Only an upload moves a source without an edit, and it moves one that    *)
(* nobody has decided about, off an account it has for itself.             *)
LEMMA DecisionStep ==
  ASSUME StructInv, AccountsNext, edits' = edits, NEW s \in Src,
         src[s].acct \notin {0, src'[s].acct}
  PROVE  Undecided(s) /\ Owned(src[s].acct) = {s}
<1>1. ~Edit
  BY AccountsAssumption DEF Edit, StructInv, TypesInv
<1>2. ASSUME NEW q \in Src, NEW a \in Mappable(q), NEW D \in SUBSET {r \in Src \ {q} :
                            ComputerOf[r] = ComputerOf[q] /\ src[r].st = "active"},
             ApproveSource(q, a, D)
      PROVE  FALSE
  <2>1. src[q].st = "none" /\ D = {}
    BY <1>1, <1>2 DEF ApproveSource
  <2>2. src[q].acct = 0
    BY <2>1 DEF StructInv, HomesInv
  <2>3. s # q /\ src'[s] = src[s]
    BY <1>2, <2>1, <2>2 DEF ApproveSource
  <2> QED
    BY <2>3
<1>3. ASSUME NEW q \in Src, NEW p \in Src, Register(q, p)
      PROVE  FALSE
  <2>1. src[q].acct = 0
    BY <1>3 DEF Register, StructInv, HomesInv
  <2>2. s # q /\ src'[s] = src[s]
    BY <1>3, <2>1 DEF Register
  <2> QED
    BY <2>2
<1>4. ASSUME NEW q \in Src, NEW x \in Snaps, NEW t \in {0, now, now + 1}, CollectSnapshot(q, x, t)
      PROVE  FALSE
  BY <1>4 DEF CollectSnapshot
<1>5. ASSUME NEW q \in Src, NEW answered \in BOOLEAN, Upload(q, answered)
      PROVE  Undecided(s) /\ Owned(src[s].acct) = {s}
  <2>1. \/ UNCHANGED src
        \/ \E m \in Merges(row', q) : Merge(m[1], m[2])
    BY <1>5 DEF Upload
  <2>2. PICK m \in Merges(row', q) : Merge(m[1], m[2])
    BY <2>1
  <2>3. \A r \in Src \ {m[1]} : src'[r] = src[r]
    BY <2>2 DEF Merge, StructInv, TypesInv
  <2>4. s = m[1]
    BY <2>3
  <2> QED
    BY <2>2, <2>4, MergesAre
<1> QED
  BY <1>1, <1>2, <1>3, <1>4, <1>5 DEF AccountsNext, Reassign, Undo, DeleteAccount, CleanAccount,
     DisconnectSources, CleanComputer, LeaveLeaderboard

(* Uploads never overrule the user (Accounts.DecisionsStand).              *)
THEOREM DecisionsKept ==
  AccountsSpec => DecisionsStand
<1>1. ASSUME StructInv, [AccountsNext]_acctVars
      PROVE  [\A s \in Src : edits' = edits /\ src[s].acct \notin {0, src'[s].acct} =>
                 Undecided(s) /\ Owned(src[s].acct) = {s}]_acctVars
  <2>1. CASE AccountsNext
    BY <1>1, <2>1, DecisionStep
  <2>2. CASE UNCHANGED acctVars
    BY <2>2
  <2> QED
    BY <1>1, <2>1, <2>2
<1> QED
  BY <1>1, Structure, PTL DEF AccountsSpec, DecisionsStand

-----------------------------------------------------------------------------
(* Totals are numbers *)

(* A finite nonempty set of naturals has a greatest element: by induction  *)
(* over its subsets.                                                       *)
LEMMA FiniteMax ==
  ASSUME NEW T, T \subseteq Nat, IsFiniteSet(T), T # {}
  PROVE  Max(T) \in T /\ \A y \in T : y <= Max(T)
<1> DEFINE HasMax(U) == \E m \in U : \A y \in U : y <= m
           Bad == {n \in Nat : \E U \in SUBSET T : U # {} /\ Cardinality(U) = n /\ ~HasMax(U)}
<1>1. ASSUME NEW U \in SUBSET T
      PROVE  /\ IsFiniteSet(U) /\ Cardinality(U) \in Nat
             /\ \A x \in U : Cardinality(U \ {x}) = Cardinality(U) - 1
  <2>1. IsFiniteSet(U)
    BY FS_Subset
  <2> QED
    BY <2>1, FS_CardinalityType, FS_RemoveElement
<1>2. Bad = {}
  <2>1. SUFFICES ASSUME Bad # {}
                 PROVE  FALSE
    OBVIOUS
  <2>2. PICK b \in Bad : \A n \in Bad : b <= n
    BY <2>1, Least
  <2>3. PICK U \in SUBSET T : U # {} /\ Cardinality(U) = b /\ ~HasMax(U)
    BY <2>2
  <2>4. PICK x \in U : TRUE
    BY <2>3
  <2>5. U \ {x} # {}
    <3>1. ASSUME U \ {x} = {}
          PROVE  FALSE
      <4>1. U = {x} /\ x \in Nat
        BY <2>4, <3>1
      <4>2. HasMax(U)
        BY <4>1
      <4> QED
        BY <2>3, <4>2
    <3> QED
      BY <3>1
  <2>6. HasMax(U \ {x})
    <3>1. Cardinality(U \ {x}) = b - 1 /\ Cardinality(U \ {x}) \in Nat /\ U \ {x} \in SUBSET T
      BY <1>1, <2>3, <2>4
    <3>2. b \in Nat /\ b - 1 \in Nat /\ ~(b <= b - 1)
      BY <2>2, <3>1
    <3>3. b - 1 \notin Bad
      BY <2>2, <3>2
    <3> QED
      BY <2>5, <3>1, <3>2, <3>3
  <2>7. PICK m \in U \ {x} : \A y \in U \ {x} : y <= m
    BY <2>6
  <2>8. m \in Nat /\ x \in Nat /\ \A y \in U : y \in Nat
    BY <2>4, <2>7
  <2>9. CASE m <= x
    <3>1. \A y \in U : y <= x
      BY <2>7, <2>8, <2>9
    <3> QED
      BY <2>3, <2>4, <3>1
  <2>10. CASE x <= m
    <3>1. \A y \in U : y <= m
      BY <2>7, <2>8, <2>10
    <3> QED
      BY <2>3, <2>7, <3>1
  <2> QED
    BY <2>8, <2>9, <2>10
<1>3. HasMax(T)
  <2>1. Cardinality(T) \in Nat /\ T \in SUBSET T
    BY FS_CardinalityType
  <2> QED
    BY <1>2, <2>1
<1>4. PICK m \in T : \A y \in T : y <= m
  BY <1>3
<1>5. m \in T /\ \A y \in T : m >= y
  BY <1>4
<1>6. Max(T) = CHOOSE n \in T : \A y \in T : n >= y
  BY DEF Max
<1>7. Max(T) \in T /\ \A y \in T : Max(T) >= y
  BY <1>5, <1>6
<1> QED
  BY <1>7

(* With rows that count, some of them are eligible: the newest complete    *)
(* ones, or all.  So the total of an account is a number.                  *)
LEMMA DayType ==
  ASSUME StructInv, NEW a \in Account, NEW d \in Days, Contributors(src, row, a, d) # {}
  PROVE  AccountDay(src, row, a, d) \in Nat
<1> DEFINE C == Contributors(src, row, a, d)
           R == {row[q][d] : q \in C}
           t == LatestComplete(R)
           E == {r \in R : Eligible(t, r)}
           N == {r.n : r \in E}
<1>1. C \in SUBSET Src /\ IsFiniteSet(C) /\ \A q \in C : row[q][d] \in RowType
  <2>1. C \in SUBSET Src
    BY DEF Contributors
  <2>2. \A q \in C : row[q][d] \in RowType
    BY <2>1, Rows
  <2> QED
    BY <2>1, <2>2, FS_Subset, AccountsAssumption
<1>2. IsFiniteSet(R) /\ R # {} /\ \A r \in R : r \in RowType
  <2> DEFINE g == [q \in C |-> row[q][d]]
  <2>1. R = {g[q] : q \in C}
    OBVIOUS
  <2>2. g \in Surjection(C, R)
    BY <2>1 DEF Surjection
  <2>3. IsFiniteSet(R)
    BY <1>1, <2>2, FS_Surjection
  <2> QED
    BY <1>1, <2>3
<1> HIDE DEF R
<1>3. /\ IsFiniteSet(E) /\ N \subseteq Nat
  BY <1>2, FS_Subset DEF RowType
<1>4. IsFiniteSet(N)
  <2> DEFINE g == [r \in E |-> r.n]
  <2>1. g \in Surjection(E, N)
    BY DEF Surjection
  <2> QED
    BY <1>3, <2>1, FS_Surjection
<1>5. N # {}
  <2> DEFINE F == {0} \cup {r.at : r \in {q \in R : q.full}}
  <2>1. F \subseteq 0 .. MaxTickets + 1 /\ F # {} /\ MaxTickets + 1 \in Nat
    BY <1>2, AccountsAssumption DEF RowType
  <2>2. t \in F
    BY <2>1, MaxOf DEF LatestComplete
  <2>3. \E r \in R : Eligible(t, r)
    <3>1. CASE t = 0
      BY <1>2, <3>1 DEF Eligible
    <3>2. CASE t # 0
      BY <2>2, <3>2 DEF Eligible
    <3> QED
      BY <3>1, <3>2
  <2> QED
    BY <2>3
<1>6. Max(N) \in Nat
  BY <1>3, <1>4, <1>5, FiniteMax
<1>7. SumFunction([q \in C |-> row[q][d].n]) \in Nat
  <2>1. [q \in C |-> row[q][d].n] \in [C -> Nat]
    BY <1>1 DEF RowType
  <2> QED
    BY <1>1, <2>1, SumType
<1> HIDE DEF N
<1>8. AccountDay(src, row, a, d) = IF mode = "account_max" THEN Max(N)
                                   ELSE SumFunction([q \in C |-> row[q][d].n])
  BY DEF AccountDay, N, R
<1> QED
  BY <1>6, <1>7, <1>8

(* The total of a day is a number, or there is none.                       *)
LEMMA TotalsType ==
  ASSUME StructInv, NEW d \in Days
  PROVE  DayTotal(src, row, d) \in Nat \cup {Nil}
<1> DEFINE used == {a \in Account : Contributors(src, row, a, d) # {}}
           f == [a \in used |-> AccountDay(src, row, a, d)]
<1>1. IsFiniteSet(used)
  <2>1. IsFiniteSet(1 .. MaxAccount)
    BY FS_Interval, AccountsAssumption
  <2> QED
    BY <2>1, FS_Subset DEF Account
<1>2. f \in [used -> Nat]
  BY DayType
<1>3. SumFunction(f) \in Nat
  BY <1>1, <1>2, SumType
<1> QED
  BY <1>3 DEF DayTotal

(* So every variable has its type, the totals and signals included.        *)
LEMMA AccountsTypes ==
  ASSUME StructInv, SummaryMatches
  PROVE  AccountsTypeOK
<1>1. summary \in [Days -> Nat \cup {Nil}]
  BY TotalsType DEF SummaryMatches, Totals
<1>2. signals \subseteq Days \X {"daily_total", "daily_jump"}
  BY DEF SummaryMatches, Signals
<1>3. row \in [Src -> [Days -> [n : Nat, full : BOOLEAN, at : Nat]]]
  <2>1. RowType \subseteq [n : Nat, full : BOOLEAN, at : Nat]
    BY AccountsAssumption DEF RowType
  <2> QED
    BY <2>1 DEF StructInv, TypesInv
<1> QED
  BY <1>1, <1>2, <1>3 DEF AccountsTypeOK, StructInv, TypesInv, HomesInv, SourceType,
     AccountType, EventType

(* Every variable keeps its type (Accounts.AccountsTypeOK), the totals and *)
(* signals of the summary included.                                        *)
THEOREM AccountsTyped ==
  AccountsSpec => []AccountsTypeOK
BY AccountsTypes, Structure, SummaryIsTrue, PTL

-----------------------------------------------------------------------------
(* Late observations *)

(* The rows of one day, when only one source's row changes, from one older *)
(* than the newest complete observation to another such row.               *)
LEMMA MaskedDay ==
  ASSUME StructInv, NEW s \in Src, NEW d \in Days, NEW a, mode = "account_max",
         row' \in [Src -> [Days -> RowType]], \A q \in Src \ {s} : row'[q] = row[q],
         NEW t \in Nat,
         LatestComplete({row[q][d] : q \in Contributors(src, row, a, d)}) > t,
         row'[s][d] = row[s][d] \/ (row[s][d].at <= t /\ row'[s][d].at <= t)
  PROVE  AccountDay(src, row', a, d) = AccountDay(src, row, a, d)
<1> DEFINE C  == Contributors(src, row, a, d)
           Cp == Contributors(src, row', a, d)
           R  == {row[q][d] : q \in C}
           Rp == {row'[q][d] : q \in Cp}
           F  == {0} \cup {r.at : r \in {q \in R : q.full}}
           Fp == {0} \cup {r.at : r \in {q \in Rp : q.full}}
           L  == LatestComplete(R)
<1>1. CASE row'[s][d] = row[s][d]
  <2>1. \A q \in Src : row'[q][d] = row[q][d]
    BY <1>1
  <2>2. Cp = C
    BY <2>1 DEF Contributors
  <2>3. Rp = R /\ [q \in Cp |-> row'[q][d].n] = [q \in C |-> row[q][d].n]
    BY <2>1, <2>2 DEF Contributors
  <2> QED
    BY <2>2, <2>3 DEF AccountDay
<1>2. CASE row[s][d].at <= t /\ row'[s][d].at <= t
  <2>1. /\ \A q \in Src : row[q][d] \in RowType /\ row'[q][d] \in RowType
        /\ C \subseteq Src /\ Cp \subseteq Src
        /\ \A q \in Src \ {s} : row'[q][d] = row[q][d] /\ (q \in C <=> q \in Cp)
    BY Rows DEF Contributors
  <2>2. F \subseteq 0 .. MaxTickets + 1 /\ Fp \subseteq 0 .. MaxTickets + 1
        /\ 0 \in F /\ 0 \in Fp /\ MaxTickets + 1 \in Nat
    BY <2>1, AccountsAssumption DEF RowType
  <2>3. L = Max(F) /\ LatestComplete(Rp) = Max(Fp) /\ L > t
    BY DEF LatestComplete
  <2>4. /\ L \in F /\ \A y \in F : y <= L
        /\ Max(Fp) \in Fp /\ \A y \in Fp : y <= Max(Fp)
    BY <2>2, <2>3, MaxOf
  <2>5. L \in Nat /\ L # 0 /\ Max(Fp) \in Nat
    BY <2>2, <2>3, <2>4
  <2>6. PICK w \in C : row[w][d].full /\ row[w][d].at = L
    BY <2>4, <2>5
  <2>7. w # s
    BY <1>2, <2>1, <2>3, <2>5, <2>6 DEF RowType
  <2>8. w \in Cp /\ row'[w][d] = row[w][d] /\ L \in Fp
    BY <2>1, <2>6, <2>7
  <2>9. \A y \in Fp : y <= L
    <3>1. ASSUME NEW q \in Cp, row'[q][d].full
          PROVE  row'[q][d].at <= L
      <4>1. CASE q = s
        BY <1>2, <2>1, <2>3, <2>5, <4>1 DEF RowType
      <4>2. CASE q # s
        BY <2>1, <2>4, <3>1, <4>2
      <4> QED
        BY <4>1, <4>2
    <3> QED
      BY <2>5, <3>1
  <2>10. LatestComplete(Rp) = L
    BY <2>3, <2>4, <2>5, <2>8, <2>9
  <2>11. ~Eligible(L, row[s][d]) /\ ~Eligible(L, row'[s][d])
    <3>1. ASSUME NEW r \in RowType, r.at <= t
          PROVE  ~Eligible(L, r)
      <4>1. r.at \in Nat /\ r.at # L /\ ~(r.at > L)
        BY <2>3, <2>5, <3>1, AccountsAssumption DEF RowType
      <4> QED
        BY <2>5, <4>1 DEF Eligible
    <3> QED
      BY <1>2, <2>1, <3>1
  <2>12. {r \in Rp : Eligible(L, r)} = {r \in R : Eligible(L, r)}
    <3>1. ASSUME NEW q \in Cp, Eligible(L, row'[q][d])
          PROVE  row'[q][d] \in R
      BY <2>1, <2>11, <3>1
    <3>2. ASSUME NEW q \in C, Eligible(L, row[q][d])
          PROVE  row[q][d] \in Rp
      <4>1. q # s
        BY <2>11, <3>2
      <4>2. q \in Cp /\ row'[q][d] = row[q][d]
        BY <2>1, <4>1
      <4> QED
        BY <4>2
    <3> QED
      BY <3>1, <3>2
  <2>13. AccountDay(src, row, a, d) = Max({r.n : r \in {q \in R : Eligible(L, q)}})
    BY <2>6 DEF AccountDay
  <2>14. AccountDay(src, row', a, d) = Max({r.n : r \in {q \in Rp : Eligible(L, q)}})
    BY <2>8, <2>10 DEF AccountDay
  <2> QED
    BY <2>12, <2>13, <2>14
<1> QED
  BY <1>1, <1>2

(* Only an upload changes the rows of a source that stays, and it          *)
(* replaces rows that are not newer by the observation it carries.         *)
LEMMA LateStep ==
  ASSUME StructInv, AccountsNext, NEW s \in Src, NEW d \in Days,
         mode = "account_max", queue[s] # <<>>, src' = src, edits' = edits, row'[s] # row[s],
         LatestComplete({row[q][d] : q \in Contributors(src, row, src[s].acct, d)})
           > ObservedAt(Head(queue[s]))
  PROVE  AccountDay(src', row', src[s].acct, d) = AccountDay(src, row, src[s].acct, d)
<1>1. ~Edit
  BY AccountsAssumption DEF Edit, StructInv, TypesInv
<1>2. row \in [Src -> [Days -> RowType]]
  BY DEF StructInv, TypesInv
<1>3. \E q \in Src, answered \in BOOLEAN : Upload(q, answered)
  <2>1. ASSUME NEW q \in Src, NEW a \in Mappable(q), NEW D \in SUBSET {r \in Src \ {q} :
                            ComputerOf[r] = ComputerOf[q] /\ src[r].st = "active"},
               ApproveSource(q, a, D)
        PROVE  FALSE
    <3>1. D = {}
      BY <1>1, <2>1 DEF ApproveSource
    <3> QED
      BY <2>1, <3>1 DEF ApproveSource
  <2> QED
    BY <1>1, <2>1 DEF AccountsNext, Register, Reassign, Undo, CollectSnapshot, DeleteAccount,
       CleanAccount, DisconnectSources, CleanComputer, LeaveLeaderboard
<1>4. PICK q \in Src, answered \in BOOLEAN : Upload(q, answered)
  BY <1>3
<1>5. q = s
  BY <1>4, UploadRows
<1> DEFINE p == Head(queue[s])
           t == ObservedAt(p)
<1>6. /\ t \in 0 .. MaxTickets + 1 /\ p.snap \in Snapshot
      /\ row' \in [Src -> [Days -> RowType]]
      /\ \A r \in Src \ {s} : row'[r] = row[r]
      /\ row'[s][d] = Stored(row[s][d], p.snap.entry[d], p.snap, t)
  BY <1>4, <1>5, UploadRows
<1> HIDE DEF t
<1>7. row'[s][d] = row[s][d] \/ (row[s][d].at <= t /\ row'[s][d].at <= t)
  <2>1. row[s][d].at \in Nat /\ t \in Nat /\ row[s][d] \in RowType
    BY <1>2, <1>6, AccountsAssumption DEF RowType
  <2>2. row'[s][d] \in {row[s][d], NoRow}
        \/ row'[s][d] = [n |-> p.snap.entry[d].n, full |-> p.snap.entry[d].full, at |-> t]
    BY <1>6 DEF Stored
  <2>3. CASE row[s][d].at > t
    BY <1>6, <2>3 DEF Stored
  <2>4. CASE row[s][d].at <= t
    BY <2>1, <2>2, <2>4 DEF NoRow
  <2> QED
    BY <2>1, <2>3, <2>4
<1>8. t \in Nat
  BY <1>6, AccountsAssumption
<1> QED
  BY <1>6, <1>7, <1>8, MaskedDay DEF t

(* A late observation of a computer that was offline changes no total that *)
(* a newer complete observation decides (Accounts.LateIsMasked).           *)
THEOREM LateMasked ==
  AccountsSpec => LateIsMasked
<1>1. ASSUME StructInv, [AccountsNext]_acctVars
      PROVE  [\A s \in Src, d \in Days :
                LET a == src[s].acct
                    R == {row[q][d] : q \in Contributors(src, row, a, d)}
                IN  /\ mode = "account_max" /\ queue[s] # <<>> /\ src' = src
                    /\ edits' = edits /\ row'[s] # row[s]
                    /\ LatestComplete(R) > ObservedAt(Head(queue[s]))
                    => AccountDay(src', row', a, d) = AccountDay(src, row, a, d)]_acctVars
  <2>1. CASE AccountsNext
    BY <1>1, <2>1, LateStep
  <2>2. CASE UNCHANGED acctVars
    BY <2>2
  <2> QED
    BY <1>1, <2>1, <2>2
<1> QED
  BY <1>1, Structure, PTL DEF AccountsSpec, LateIsMasked

-----------------------------------------------------------------------------
(* The connection and the accounts together (MCWeb)                        *)

(* What a step of the web does, the two halves can do.                     *)
LEMMA WebSteps ==
  ASSUME WebNext
  PROVE  [PairingNext]_pairVars /\ [AccountsNext]_acctVars
<1>1. CASE PairingPart
  BY <1>1 DEF PairingPart, PairingNext
<1>2. CASE AccountsPart
  <2>1. UNCHANGED pairVars /\ (OrderPart \/ MergePart)
    BY <1>2 DEF AccountsPart
  <2>2. CASE OrderPart
    <3>1. PICK s \in Few :
            \/ src[s].st = "none" /\ \E a \in Mappable(s) : ApproveSource(s, a, {})
            \/ \E x \in OrderSnaps, t \in {0, now, now + 1} : CollectSnapshot(s, x, t)
            \/ \E answered \in BOOLEAN : Upload(s, answered)
      BY <2>2 DEF OrderPart
    <3>2. s \in Src /\ OrderSnaps \subseteq Snaps
      BY WebAssumption DEF Few, MCSnaps
    <3>3. \/ \E a \in Mappable(s), D \in SUBSET {q \in Src \ {s} :
                 ComputerOf[q] = ComputerOf[s] /\ src[q].st = "active"} : ApproveSource(s, a, D)
          \/ \E x \in Snaps, t \in {0, now, now + 1} : CollectSnapshot(s, x, t)
          \/ \E answered \in BOOLEAN : Upload(s, answered)
      <4>1. \A C : {} \in SUBSET C
        OBVIOUS
      <4>2. CASE \E a \in Mappable(s) : ApproveSource(s, a, {})
        BY <4>1, <4>2, Zenon
      <4>3. CASE \E x \in OrderSnaps, t \in {0, now, now + 1} : CollectSnapshot(s, x, t)
        BY <3>2, <4>3, Zenon
      <4> QED
        BY <3>1, <4>2, <4>3, Zenon
    <3> QED
      BY <2>1, <3>2, <3>3, Zenon DEF AccountsNext
  <2>3. CASE MergePart
    <3>1. ASSUME NEW s \in Few,
                 \/ \E a \in Mappable(s), D \in SUBSET {q \in Src \ {s} :
                       ComputerOf[q] = ComputerOf[s] /\ src[q].st = "active"} : ApproveSource(s, a, D)
                 \/ \E p \in Src : Register(s, p)
                 \/ \E a \in Account : Reassign(s, a)
                 \/ Undo(s)
                 \/ \E x \in MergeSnaps : CollectSnapshot(s, x, IF cutover = 0 THEN now + 1 ELSE 0)
                 \/ Upload(s, TRUE)
          PROVE  AccountsNext
      <4>1. s \in Src /\ MergeSnaps \subseteq Snaps
        BY WebAssumption DEF Few, MCSnaps
      <4>2. \A x \in MergeSnaps : CollectSnapshot(s, x, IF cutover = 0 THEN now + 1 ELSE 0) =>
              \E y \in Snaps, t \in {0, now, now + 1} : CollectSnapshot(s, y, t)
        BY <4>1
      <4> QED
        BY <3>1, <4>1, <4>2 DEF AccountsNext
    <3>2. ASSUME NEW a \in Account, DeleteAccount(a) \/ CleanAccount(a)
          PROVE  AccountsNext
      BY <3>2 DEF AccountsNext
    <3>3. ASSUME NEW k \in Range(ComputerOf),
                 LET S == {s \in Src : ComputerOf[s] = k} IN DisconnectSources(S) \/ CleanComputer(S)
          PROVE  AccountsNext
      <4>1. {s \in Src : ComputerOf[s] = k} \in SUBSET Src
        OBVIOUS
      <4> QED
        BY <3>3, <4>1 DEF AccountsNext
    <3>4. LeaveLeaderboard => AccountsNext
      BY DEF AccountsNext
    <3> QED
      BY <2>1, <2>3, <3>1, <3>2, <3>3, <3>4 DEF MergePart
  <2> QED
    BY <2>1, <2>2, <2>3
<1> QED
  BY <1>1, <1>2 DEF WebNext

(* Both halves keep their types, whichever of them runs (MCWeb.WebTypeOK). *)
THEOREM WebTyped ==
  WebSpec => []WebTypeOK
<1> DEFINE WebInv == IInv /\ StructInv /\ SummaryMatches
<1>1. WebInit => WebInv
  BY InitInv, StructInit, SummaryInit DEF WebInit
<1>2. WebInv /\ [WebNext]_webVars => WebInv'
  <2> SUFFICES ASSUME IInv, StructInv, SummaryMatches, [WebNext]_webVars
               PROVE  IInv' /\ StructInv' /\ SummaryMatches'
    OBVIOUS
  <2>1. [PairingNext]_pairVars /\ [AccountsNext]_acctVars
    BY WebSteps DEF webVars
  <2>2. IInv'
    BY <2>1, NextInv, StutterInv
  <2>3. StructInv'
    BY <2>1, StructNext, StructStutter
  <2>4. SummaryMatches'
    <3>1. CASE UNCHANGED acctVars
      <4>1. UNCHANGED <<src, row, mode, summary, signals>>
        BY <3>1 DEF acctVars
      <4> QED
        BY <4>1, TotalsAfter DEF SummaryMatches, Signals
    <3> QED
      BY <2>1, <3>1, SummaryNext
  <2> QED
    BY <2>2, <2>3, <2>4
<1>3. WebInv => WebTypeOK
  <2>1. IInv => PairingTypeOK
    BY DEF IInv
  <2>2. StructInv /\ SummaryMatches => AccountsTypeOK
    BY AccountsTypes
  <2> QED
    BY <2>1, <2>2 DEF WebTypeOK
<1> HIDE DEF WebInv
<1> QED
  BY <1>1, <1>2, <1>3, PTL DEF WebSpec

=============================================================================
