--------------------------- MODULE Admission_proofs ---------------------------
(***************************************************************************)
(* Proofs about Admission: the slots of the limiter are accounted for      *)
(* whatever its jobs do, no client and no endpoint exceeds its budget in a *)
(* window, and a rejected request stays rejected until its window is over. *)
(***************************************************************************)
EXTENDS Admission, TLAPS, FiniteSetTheorems, SequenceTheorems, NaturalsInduction

(* A queue without duplicates stays one at every change of it, and holds    *)
(* the expected jobs.                                                       *)
LEMMA AppendDistinct ==
  ASSUME NEW S, NEW s \in Seq(S), NEW e \in S, IsInjective(s), e \notin Range(s)
  PROVE  /\ IsInjective(Append(s, e))
         /\ Range(Append(s, e)) = Range(s) \cup {e}
<1> DEFINE n == Len(s)
           t == Append(s, e)
<1>1. n \in Nat /\ DOMAIN s = 1 .. n /\ DOMAIN t = 1 .. n + 1 /\ t[n + 1] = e
        /\ \A i \in 1 .. n : t[i] = s[i]
  OBVIOUS
<1>2. \A i \in 1 .. n : s[i] # e
  BY <1>1 DEF Range
<1>3. \A i, k \in 1 .. n : s[i] = s[k] => i = k
  BY <1>1 DEF IsInjective
<1> HIDE DEF n, t
<1>4. \A i, k \in 1 .. n + 1 : t[i] = t[k] => i = k
  BY <1>1, <1>2, <1>3
<1>5. IsInjective(t)
  BY <1>1, <1>4 DEF IsInjective
<1>6. Range(t) = Range(s) \cup {e}
  <2>1. 1 .. n + 1 = (1 .. n) \cup {n + 1}
    BY <1>1
  <2> QED  BY <1>1, <2>1 DEF Range
<1> QED  BY <1>5, <1>6 DEF t

(* What is left of a queue when its head is taken. *)
LEMMA TailDistinct ==
  ASSUME NEW S, NEW s \in Seq(S), IsInjective(s), s # <<>>
  PROVE  /\ Tail(s) \in Seq(S) /\ IsInjective(Tail(s))
         /\ Head(s) \in Range(s) /\ Head(s) \in S
         /\ Range(Tail(s)) = Range(s) \ {Head(s)}
<1> DEFINE n == Len(s)
           t == Tail(s)
<1>1. n \in Nat \ {0} /\ DOMAIN s = 1 .. n /\ t \in Seq(S) /\ DOMAIN t = 1 .. n - 1
        /\ Head(s) = s[1] /\ Head(s) \in S /\ \A i \in 1 .. n - 1 : t[i] = s[i + 1]
  OBVIOUS
<1>2. \A i, k \in 1 .. n : s[i] = s[k] => i = k
  BY <1>1 DEF IsInjective
<1> HIDE DEF n, t
<1>3. IsInjective(t)
  <2>1. \A i \in 1 .. n - 1 : i + 1 \in 1 .. n  BY <1>1
  <2>2. \A i, k \in 1 .. n - 1 : t[i] = t[k] => i = k
    BY <1>1, <1>2, <2>1
  <2> QED  BY <1>1, <2>2 DEF IsInjective
<1>4. Range(t) = Range(s) \ {s[1]}
  <2>1. ASSUME NEW i \in 1 .. n - 1 PROVE i + 1 \in 1 .. n /\ s[i + 1] # s[1]
    BY <1>1, <1>2
  <2>2. ASSUME NEW i \in 1 .. n, s[i] # s[1] PROVE i - 1 \in 1 .. n - 1 /\ t[i - 1] = s[i]
    BY <1>1, <2>2
  <2> QED  BY <1>1, <2>1, <2>2 DEF Range
<1>5. s[1] \in Range(s)
  BY <1>1 DEF Range
<1> QED  BY <1>1, <1>3, <1>4, <1>5 DEF t

(* What is left of a queue when one of its jobs gives up. *)
LEMMA RemoveAtDistinct ==
  ASSUME NEW S, NEW s \in Seq(S), IsInjective(s), NEW p \in DOMAIN s
  PROVE  /\ RemoveAt(s, p) \in Seq(S) /\ IsInjective(RemoveAt(s, p))
         /\ Range(RemoveAt(s, p)) = Range(s) \ {s[p]}
<1> DEFINE n == Len(s)
           a == SubSeq(s, 1, p - 1)
           b == SubSeq(s, p + 1, n)
           t == a \o b
<1>1. n \in Nat /\ DOMAIN s = 1 .. n /\ p \in 1 .. n /\ \A i \in 1 .. n : s[i] \in S
  OBVIOUS
<1>2. a \in Seq(S) /\ Len(a) = p - 1 /\ \A i \in 1 .. p - 1 : a[i] = s[i]
  <2>1. \A i \in 1 .. p - 1 : s[i] \in S  BY <1>1
  <2> QED  BY <1>1, <2>1, SubSeqProperties
<1>3. b \in Seq(S) /\ Len(b) = n - p /\ \A i \in 1 .. n - p : b[i] = s[p + i]
  <2>1. \A i \in p + 1 .. n : s[i] \in S  BY <1>1
  <2>2. p + 1 \in Int /\ n \in Int /\ n - (p + 1) + 1 = n - p  BY <1>1
  <2>3. b \in Seq(S) /\ Len(b) = (IF p + 1 <= n THEN n - p ELSE 0)
          /\ \A i \in 1 .. n - p : b[i] = s[(p + 1) + i - 1]
    BY <2>1, <2>2, SubSeqProperties
  <2> QED  BY <1>1, <2>3
<1> HIDE DEF a, b
<1>4. t \in Seq(S) /\ DOMAIN t = 1 .. n - 1
        /\ \A i \in 1 .. n - 1 : t[i] = IF i < p THEN s[i] ELSE s[i + 1]
  <2>1. t \in Seq(S) /\ Len(t) = Len(a) + Len(b)
          /\ \A i \in 1 .. Len(a) + Len(b) : t[i] = IF i <= Len(a) THEN a[i] ELSE b[i - Len(a)]
    BY <1>2, <1>3, ConcatProperties
  <2>a. (p - 1) + (n - p) = n - 1  BY <1>1
  <2>2. Len(t) = n - 1 /\ DOMAIN t = 1 .. n - 1  BY <1>2, <1>3, <2>1, <2>a, LenProperties
  <2>3. ASSUME NEW i \in 1 .. n - 1 PROVE t[i] = IF i < p THEN s[i] ELSE s[i + 1]
    <3>1. CASE i < p  BY <1>1, <1>2, <1>3, <2>1, <3>1
    <3>2. CASE ~(i < p)
      <4>1. i - (p - 1) \in 1 .. n - p /\ p + (i - (p - 1)) = i + 1  BY <1>1, <3>2
      <4>2. t[i] = b[i - (p - 1)]  BY <1>1, <1>2, <1>3, <2>1, <3>2
      <4> QED  BY <1>3, <3>2, <4>1, <4>2
    <3> QED  BY <3>1, <3>2
  <2> QED  BY <2>1, <2>2, <2>3
<1>5. \A i, k \in 1 .. n : s[i] = s[k] => i = k
  BY <1>1 DEF IsInjective
<1> HIDE DEF n, t
<1>6. IsInjective(t)
  <2>1. \A i, k \in 1 .. n - 1 : t[i] = t[k] => i = k
    BY <1>1, <1>4, <1>5
  <2> QED  BY <1>4, <2>1 DEF IsInjective
<1>7. Range(t) = Range(s) \ {s[p]}
  <2>1. ASSUME NEW i \in 1 .. n - 1
        PROVE  t[i] # s[p] /\ \E k \in 1 .. n : t[i] = s[k]
    <3>1. CASE i < p  BY <1>1, <1>4, <1>5, <3>1
    <3>2. CASE ~(i < p)
      <4>1. i + 1 \in 1 .. n /\ i + 1 # p  BY <1>1, <3>2
      <4> QED  BY <1>1, <1>4, <1>5, <3>2, <4>1
    <3> QED  BY <3>1, <3>2
  <2>2. ASSUME NEW i \in 1 .. n, s[i] # s[p]
        PROVE  \E k \in 1 .. n - 1 : t[k] = s[i]
    <3>1. CASE i < p
      <4>1. i \in 1 .. n - 1 /\ t[i] = s[i]  BY <1>1, <1>4, <3>1
      <4> QED  BY <4>1
    <3>2. CASE i > p
      <4>1. i - 1 \in 1 .. n - 1 /\ ~(i - 1 < p) /\ (i - 1) + 1 = i  BY <1>1, <3>2
      <4>2. t[i - 1] = s[i]  BY <1>4, <4>1
      <4> QED  BY <4>1, <4>2
    <3> QED  BY <1>1, <2>2, <3>1, <3>2
  <2>3. ASSUME NEW x \in Range(t) PROVE x \in Range(s) \ {s[p]}
    <3>1. PICK i \in 1 .. n - 1 : x = t[i]  BY <1>4 DEF Range
    <3> QED  BY <1>1, <2>1, <3>1 DEF Range
  <2>4. ASSUME NEW x \in Range(s) \ {s[p]} PROVE x \in Range(t)
    <3>1. PICK i \in 1 .. n : x = s[i]  BY <1>1 DEF Range
    <3>2. PICK k \in 1 .. n - 1 : t[k] = x  BY <2>2, <3>1
    <3> QED  BY <1>4, <3>2 DEF Range
  <2> QED  BY <2>3, <2>4
<1>8. t = RemoveAt(s, p)
  BY DEF t, a, b, n, RemoveAt
<1> QED  BY <1>4, <1>6, <1>7, <1>8

----------------------------------------------------------------------------
(* The limiter *)

(* The jobs a limiter knows: those that hold a slot and those in its queue. *)
Known(p) == p.working \cup Range(p.waiting)

(* What holds of a limiter between any two calls. *)
Sound(p) ==
  /\ p.working \in SUBSET Job /\ p.waiting \in Seq(Job)
  /\ IsFiniteSet(p.working) /\ p.active = Cardinality(p.working) /\ p.active <= MaxActive
  /\ p.waiting # <<>> => p.active = MaxActive
  /\ IsInjective(p.waiting)
  /\ p.working \cap Range(p.waiting) = {}

Limiter(a, w, q) == [active |-> a, working |-> w, waiting |-> q]

(* The parts of a limiter, and what it is for one to be sound. *)
LEMMA LimiterIs ==
  ASSUME NEW a, NEW w, NEW q
  PROVE  /\ Limiter(a, w, q).active = a /\ Limiter(a, w, q).working = w
         /\ Limiter(a, w, q).waiting = q
         /\ Known(Limiter(a, w, q)) = w \cup Range(q)
         /\ Sound(Limiter(a, w, q)) <=>
              /\ w \in SUBSET Job /\ q \in Seq(Job)
              /\ IsFiniteSet(w) /\ a = Cardinality(w) /\ a <= MaxActive
              /\ q # <<>> => a = MaxActive
              /\ IsInjective(q)
              /\ w \cap Range(q) = {}
BY DEF Limiter, Known, Sound

(* Giving the job a slot, taking one from it, queueing it. *)
LEMMA SlotTaken ==
  ASSUME NEW w \in SUBSET Job, IsFiniteSet(w), NEW j \in Job, j \notin w
  PROVE  /\ w \cup {j} \in SUBSET Job /\ IsFiniteSet(w \cup {j})
         /\ Cardinality(w) \in Nat /\ Cardinality(w \cup {j}) = Cardinality(w) + 1
BY FS_AddElement, FS_CardinalityType

(* A job that ends leaves one slot fewer in use. *)
LEMMA SlotGiven ==
  ASSUME NEW w \in SUBSET Job, IsFiniteSet(w), NEW j \in w
  PROVE  /\ w \ {j} \in SUBSET Job /\ IsFiniteSet(w \ {j})
         /\ Cardinality(w) \in Nat /\ Cardinality(w \ {j}) = Cardinality(w) - 1
BY FS_RemoveElement, FS_CardinalityType

(* A call of run keeps the limiter sound, and makes the job known to it     *)
(* unless the queue is full.                                                *)
LEMMA EnteredSound ==
  ASSUME NEW a, NEW w, NEW q, Sound(Limiter(a, w, q)), NEW j \in Job,
         j \notin w, j \notin Range(q)
  PROVE  LET p == Limiter(a, w, q)
             e == Entered(p, j)
         IN  /\ e = Limiter(e.active, e.working, e.waiting)
             /\ Sound(e)
             /\ w \subseteq e.working
             /\ Known(e) = IF Full(p) THEN Known(p) ELSE Known(p) \cup {j}
<1> DEFINE p == Limiter(a, w, q)
           e == Entered(p, j)
<1> USE AdmissionAssumption
<1>1. /\ w \in SUBSET Job /\ q \in Seq(Job)
      /\ IsFiniteSet(w) /\ a = Cardinality(w) /\ a <= MaxActive
      /\ q # <<>> => a = MaxActive
      /\ IsInjective(q)
      /\ w \cap Range(q) = {}
      /\ Known(p) = w \cup Range(q)
  BY LimiterIs
<1>2. a \in Nat
  BY <1>1, FS_CardinalityType
<1>3. Full(p) <=> a >= MaxActive /\ Len(q) >= MaxWaiting
  BY DEF Full, Limiter
<1>4. CASE a < MaxActive
  <2>1. e = Limiter(a + 1, w \cup {j}, q)
    BY <1>4 DEF Entered, Limiter
  <2>2. q = <<>> /\ Range(q) = {}
    BY <1>1, <1>2, <1>4 DEF Range
  <2>3. a + 1 <= MaxActive /\ ~Full(p)
    BY <1>2, <1>3, <1>4
  <2>4. Sound(e)
    <3>1. w \cup {j} \in SUBSET Job /\ IsFiniteSet(w \cup {j}) /\ Cardinality(w \cup {j}) = a + 1
      BY <1>1, SlotTaken
    <3>2. (w \cup {j}) \cap Range(q) = {}
      BY <2>2
    <3>3. Sound(Limiter(a + 1, w \cup {j}, q))
      BY <1>1, <2>2, <2>3, <3>1, <3>2, LimiterIs
    <3> QED  BY <2>1, <3>3
  <2>5. Known(e) = w \cup {j} \cup Range(q)
    BY <2>1, LimiterIs
  <2>6. e = Limiter(e.active, e.working, e.waiting) /\ w \subseteq e.working
    BY <2>1, LimiterIs
  <2>7. Known(e) = Known(p) \cup {j}
    BY <1>1, <2>5
  <2> QED  BY <2>3, <2>4, <2>6, <2>7
<1>5. CASE Full(p)
  <2>1. e = p
    BY <1>2, <1>3, <1>5 DEF Entered, Limiter
  <2> QED  BY <1>5, <2>1 DEF Limiter
<1>6. CASE ~(a < MaxActive) /\ ~Full(p)
  <2>1. e = Limiter(a, w, Append(q, j))
    BY <1>6 DEF Entered, Limiter
  <2>2. a = MaxActive
    BY <1>1, <1>2, <1>6
  <2>3. Append(q, j) \in Seq(Job) /\ IsInjective(Append(q, j))
          /\ Range(Append(q, j)) = Range(q) \cup {j}
    BY <1>1, AppendDistinct
  <2>4. w \cap Range(Append(q, j)) = {}
    BY <1>1, <2>3
  <2>5. Sound(Limiter(a, w, Append(q, j)))
    <3> DEFINE t == Append(q, j)
    <3>1. t \in Seq(Job) /\ IsInjective(t) /\ w \cap Range(t) = {} /\ (t # <<>> => a = MaxActive)
      BY <2>2, <2>3, <2>4
    <3> HIDE DEF t
    <3>2. Sound(Limiter(a, w, t))
      BY <1>1, <3>1, LimiterIs
    <3> QED  BY <3>2 DEF t
  <2>6. Known(e) = Known(p) \cup {j} /\ w \subseteq e.working
          /\ e = Limiter(e.active, e.working, e.waiting)
    BY <1>1, <2>1, <2>3, LimiterIs
  <2> QED  BY <1>6, <2>1, <2>5, <2>6
<1> QED  BY <1>4, <1>5, <1>6

(* A job that ends gives its slot up or hands it to the first in the queue. *)
LEMMA LeftSound ==
  ASSUME NEW a, NEW w, NEW q, Sound(Limiter(a, w, q)), NEW j \in w
  PROVE  LET p == Limiter(a, w, q)
             e == Left(p, j)
         IN  /\ Sound(e)
             /\ w \ {j} \subseteq e.working
             /\ Known(e) = Known(p) \ {j}
<1> DEFINE p == Limiter(a, w, q)
           e == Left(p, j)
<1> USE AdmissionAssumption
<1>1. /\ w \in SUBSET Job /\ q \in Seq(Job)
      /\ IsFiniteSet(w) /\ a = Cardinality(w) /\ a <= MaxActive
      /\ q # <<>> => a = MaxActive
      /\ IsInjective(q)
      /\ w \cap Range(q) = {}
      /\ Known(p) = w \cup Range(q)
  BY LimiterIs
<1>2. a \in Nat
  BY <1>1, FS_CardinalityType
<1>3. CASE q = <<>>
  <2>1. e = Limiter(a - 1, w \ {j}, q)
    BY <1>3 DEF Left, Limiter
  <2>2. Range(q) = {}
    BY <1>3 DEF Range
  <2>3. a - 1 <= MaxActive
    BY <1>1, <1>2
  <2>4. w \ {j} \in SUBSET Job /\ IsFiniteSet(w \ {j}) /\ Cardinality(w \ {j}) = a - 1
    BY <1>1, SlotGiven
  <2>5. Sound(Limiter(a - 1, w \ {j}, q))
    BY <1>1, <1>3, <2>2, <2>3, <2>4, LimiterIs
  <2>6. Known(e) = Known(p) \ {j} /\ w \ {j} \subseteq e.working
    BY <1>1, <2>1, <2>2, LimiterIs
  <2> QED  BY <2>1, <2>5, <2>6
<1>4. CASE q # <<>>
  <2> DEFINE h == Head(q)
  <2>1. e = Limiter((a - 1) + 1, (w \ {j}) \cup {h}, Tail(q))
    BY <1>4 DEF Left, Limiter
  <2>2. /\ Tail(q) \in Seq(Job) /\ IsInjective(Tail(q))
        /\ h \in Range(q) /\ h \in Job
        /\ Range(Tail(q)) = Range(q) \ {h}
    BY <1>1, <1>4, TailDistinct
  <2>3. h \notin w
    BY <1>1, <2>2
  <2>4. /\ (w \ {j}) \cup {h} \in SUBSET Job /\ IsFiniteSet((w \ {j}) \cup {h})
        /\ Cardinality((w \ {j}) \cup {h}) = (a - 1) + 1
    <3>1. w \ {j} \in SUBSET Job /\ IsFiniteSet(w \ {j}) /\ Cardinality(w \ {j}) = a - 1
      BY <1>1, SlotGiven
    <3>2. h \notin w \ {j}
      BY <2>3
    <3> HIDE DEF h
    <3> QED  BY <2>2, <3>1, <3>2, SlotTaken
  <2>5. (a - 1) + 1 = a /\ a = MaxActive
    BY <1>1, <1>2, <1>4
  <2> HIDE DEF h
  <2>6. ((w \ {j}) \cup {h}) \cap Range(Tail(q)) = {}
    BY <1>1, <2>2
  <2>7. Sound(Limiter((a - 1) + 1, (w \ {j}) \cup {h}, Tail(q)))
    <3> DEFINE t == Tail(q)
               v == (w \ {j}) \cup {h}
    <3>1. t \in Seq(Job) /\ IsInjective(t) /\ v \cap Range(t) = {} /\ v \in SUBSET Job
            /\ IsFiniteSet(v) /\ a = Cardinality(v)
      BY <2>2, <2>4, <2>5, <2>6
    <3> HIDE DEF t, v
    <3>2. Sound(Limiter(a, v, t))
      BY <1>1, <2>5, <3>1, LimiterIs
    <3> QED  BY <2>5, <3>2 DEF t, v
  <2>8. ((w \ {j}) \cup {h}) \cup Range(Tail(q)) = (w \cup Range(q)) \ {j}
    BY <1>1, <2>2
  <2>9. Known(e) = Known(p) \ {j} /\ w \ {j} \subseteq e.working
    BY <1>1, <2>1, <2>8, LimiterIs
  <2> QED  BY <2>1, <2>7, <2>9
<1> QED  BY <1>3, <1>4

----------------------------------------------------------------------------
(* The inductive invariant: the limiter is sound, it knows only jobs that   *)
(* asked, and only a job that holds a slot has begun its transaction.       *)

AskedKnown == \A j \in Known(Slots) : stage[j] = "asked"
BegunWorks == \A j \in Job : began[j] # NotBegun => j \in working

AdmissionInv ==
  /\ stage \in [Job -> {"idle", "asked", "decided"}]
  /\ began \in [Job -> 0 .. NotBegun]
  /\ now \in 0 .. MaxTime
  /\ Sound(Slots)
  /\ AskedKnown
  /\ BegunWorks

(* The limiter of the state. *)
LEMMA SlotsIs ==
  /\ Slots = Limiter(active, working, waiting)
  /\ Known(Slots) = working \cup Range(waiting)
BY LimiterIs DEF Slots, Limiter, Known

(* The limiter is sound when no request has been made. *)
LEMMA AdmissionInitInv ==
  ASSUME AdmissionInit
  PROVE  AdmissionInv
<1> USE AdmissionAssumption DEF AdmissionInit
<1>1. NotBegun \in 0 .. NotBegun /\ 0 \in 0 .. MaxTime
  BY DEF NotBegun
<1>2. Range(waiting) = {} /\ IsInjective(waiting) /\ waiting \in Seq(Job)
  BY DEF Range, IsInjective
<1>3. Sound(Slots)
  BY <1>2, FS_EmptySet DEF Sound, Slots
<1>4. AskedKnown
  BY <1>2, SlotsIs DEF AskedKnown
<1> QED  BY <1>1, <1>3, <1>4 DEF AdmissionInv, BegunWorks

(* The slot of a job that ends is accounted for, whatever it ends with.     *)
LEMMA EndsInv ==
  ASSUME AdmissionInv, NEW j \in Job, j \in working, NEW to \in {"idle", "decided"},
         stage' = [stage EXCEPT ![j] = to],
         began' = [began EXCEPT ![j] = NotBegun],
         SlotsBecome(Left(Slots, j)),
         UNCHANGED now
  PROVE  AdmissionInv'
<1> USE AdmissionAssumption
<1> DEFINE e == Left(Slots, j)
<1>1. Sound(e) /\ working \ {j} \subseteq e.working /\ Known(e) = Known(Slots) \ {j}
  BY LeftSound, SlotsIs DEF AdmissionInv
<1>2. Slots' = Limiter(e.active, e.working, e.waiting) /\ working' = e.working
  BY DEF SlotsBecome, Slots, Limiter
<1>3. Sound(Slots)' /\ Known(Slots)' = Known(e)
  BY <1>1, <1>2 DEF Sound, Known, Limiter
<1> HIDE DEF e
<1>4. stage' \in [Job -> {"idle", "asked", "decided"}] /\ began' \in [Job -> 0 .. NotBegun]
  BY DEF AdmissionInv, NotBegun
<1>5. AskedKnown'
  BY <1>1, <1>3 DEF AdmissionInv, AskedKnown
<1>6. BegunWorks'
  BY <1>1, <1>2 DEF AdmissionInv, BegunWorks
<1> QED  BY <1>3, <1>4, <1>5, <1>6 DEF AdmissionInv

(* Every step keeps the limiter sound and every job known to it. *)
LEMMA AdmissionStepInv ==
  ASSUME AdmissionInv, [AdmissionNext]_admVars
  PROVE  AdmissionInv'
<1> USE AdmissionAssumption
<1>0. CASE UNCHANGED admVars
  BY <1>0 DEF admVars, AdmissionInv, Sound, Slots, Known, AskedKnown, BegunWorks
<1>1. ASSUME NEW r \in Request, Ask(r) PROVE AdmissionInv'
  <2>0. r \in Job /\ Cleaner \in Job /\ r # Cleaner
    BY DEF Job
  <2>1. PICK due \in BOOLEAN :
          LET p == IF due THEN Entered(Slots, Cleaner) ELSE Slots
              asks == (IF due /\ ~Full(Slots) THEN {Cleaner} ELSE {})
                      \cup (IF ~Full(p) THEN {r} ELSE {})
          IN  /\ due => stage[Cleaner] = "idle"
              /\ SlotsBecome(Entered(p, r))
              /\ stage' = [j \in Job |-> IF j \in asks THEN "asked" ELSE stage[j]]
    BY <1>1 DEF Ask
  <2> DEFINE p == IF due THEN Entered(Slots, Cleaner) ELSE Slots
             asks == (IF due /\ ~Full(Slots) THEN {Cleaner} ELSE {})
                     \cup (IF ~Full(p) THEN {r} ELSE {})
             e == Entered(p, r)
  <2>2. r \notin Known(Slots) /\ (due => Cleaner \notin Known(Slots))
    BY <1>1, <2>1 DEF Ask, AdmissionInv, AskedKnown
  <2>3. /\ p = Limiter(p.active, p.working, p.waiting)
        /\ Sound(p) /\ working \subseteq p.working
        /\ Known(p) = IF due /\ ~Full(Slots) THEN Known(Slots) \cup {Cleaner} ELSE Known(Slots)
    <3>1. CASE due
      BY <2>0, <2>2, <3>1, SlotsIs, EnteredSound DEF AdmissionInv
    <3>2. CASE ~due
      BY <3>2, SlotsIs, LimiterIs DEF AdmissionInv
    <3> QED  BY <3>1, <3>2
  <2>4. r \notin Known(p)
    BY <2>0, <2>2, <2>3
  <2>5. SlotsBecome(e) /\ stage' = [j \in Job |-> IF j \in asks THEN "asked" ELSE stage[j]]
    BY <2>1
  <2> HIDE DEF p
  <2>6. Sound(e) /\ p.working \subseteq e.working /\ Known(e) = IF Full(p) THEN Known(p) ELSE Known(p) \cup {r}
    <3>1. r \notin p.working /\ r \notin Range(p.waiting)
      BY <2>4 DEF Known
    <3> QED  BY <2>0, <2>3, <3>1, EnteredSound
  <2>7. Slots' = Limiter(e.active, e.working, e.waiting) /\ working' = e.working
    BY <2>5 DEF SlotsBecome, Slots, Limiter
  <2>8. Sound(Slots)' /\ Known(Slots)' = Known(e)
    BY <2>6, <2>7 DEF Sound, Known, Limiter
  <2>9. AskedKnown'
    <3>1. ASSUME NEW j \in Known(e) PROVE j \in Job /\ (j \in asks \/ j \in Known(Slots))
      <4>1. j \in Job
        BY <2>6 DEF Sound, Known, Range
      <4> QED  BY <2>3, <2>6, <4>1
    <3> HIDE DEF asks, e
    <3> QED  BY <2>5, <2>8, <3>1 DEF AdmissionInv, AskedKnown
  <2>10. stage' \in [Job -> {"idle", "asked", "decided"}]
    <3> HIDE DEF asks
    <3> QED  BY <2>5 DEF AdmissionInv
  <2>11. BegunWorks' /\ began' = began /\ now' = now
    BY <1>1, <2>3, <2>6, <2>7 DEF AdmissionInv, BegunWorks, Ask
  <2> QED  BY <2>8, <2>9, <2>10, <2>11 DEF AdmissionInv
<1>2. ASSUME NEW r \in Request, Decide(r) PROVE AdmissionInv'
  <2>1. r \in Job /\ r \in working
    BY <1>2 DEF Decide, Job, AdmissionInv, BegunWorks
  <2> QED  BY <1>2, <2>1, EndsInv DEF Decide
<1>3. ASSUME NEW r \in Request, Answer(r) PROVE AdmissionInv'
  <2>1. r \in Job /\ r \notin Known(Slots)
    BY <1>3 DEF Answer, Job, AdmissionInv, AskedKnown
  <2>2. Sound(Slots)' /\ Known(Slots)' = Known(Slots)
    BY <1>3 DEF Answer, AdmissionInv, Sound, Slots, Known
  <2>3. stage' \in [Job -> {"idle", "asked", "decided"}] /\ AskedKnown'
    BY <1>3, <2>1, <2>2 DEF Answer, AdmissionInv, AskedKnown
  <2> QED  BY <1>3, <2>2, <2>3 DEF Answer, AdmissionInv, BegunWorks
<1>4. ASSUME NEW j \in Job, WaitExpires(j) PROVE AdmissionInv'
  <2>1. PICK i \in DOMAIN waiting : waiting[i] = j /\ waiting' = RemoveAt(waiting, i)
    BY <1>4 DEF WaitExpires
  <2>2. waiting \in Seq(Job) /\ IsInjective(waiting) /\ working \cap Range(waiting) = {}
    BY DEF AdmissionInv, Sound, Slots
  <2>3. waiting' \in Seq(Job) /\ IsInjective(waiting') /\ Range(waiting') = Range(waiting) \ {j}
    BY <2>1, <2>2, RemoveAtDistinct
  <2>4. waiting # <<>> /\ j \in Range(waiting)
    BY <2>1 DEF Range
  <2>5. Sound(Slots)'
    BY <1>4, <2>2, <2>3, <2>4 DEF WaitExpires, AdmissionInv, Sound, Slots
  <2>6. Known(Slots)' = Known(Slots) \ {j}
    BY <1>4, <2>2, <2>3, <2>4 DEF WaitExpires, Known, Slots
  <2>7. stage' \in [Job -> {"idle", "asked", "decided"}] /\ AskedKnown'
    BY <1>4, <2>6 DEF WaitExpires, AdmissionInv, AskedKnown
  <2> QED  BY <1>4, <2>5, <2>7 DEF WaitExpires, AdmissionInv, BegunWorks
<1>5. ASSUME NEW j \in Job, BeginWork(j) PROVE AdmissionInv'
  <2>1. Sound(Slots)' /\ AskedKnown'
    BY <1>5 DEF BeginWork, AdmissionInv, Sound, Slots, Known, AskedKnown
  <2>2. now \in 0 .. NotBegun
    BY DEF AdmissionInv, NotBegun
  <2> QED  BY <1>5, <2>1, <2>2 DEF BeginWork, AdmissionInv, BegunWorks
<1>6. ASSUME NEW j \in Job, Fails(j) PROVE AdmissionInv'
  BY <1>6, EndsInv DEF Fails
<1>7. CASE Clean
  <2>1. Cleaner \in Job /\ Cleaner \in working
    BY <1>7 DEF Clean, Job, AdmissionInv, BegunWorks
  <2> QED  BY <1>7, <2>1, EndsInv DEF Clean
<1>8. CASE Tick
  <2>1. Sound(Slots)' /\ AskedKnown'
    BY <1>8 DEF Tick, AdmissionInv, Sound, Slots, Known, AskedKnown
  <2>2. now' \in 0 .. MaxTime
    BY <1>8 DEF Tick, AdmissionInv
  <2> QED  BY <1>8, <2>1, <2>2 DEF Tick, AdmissionInv, BegunWorks
<1> QED
  BY <1>0, <1>1, <1>2, <1>3, <1>4, <1>5, <1>6, <1>7, <1>8 DEF AdmissionNext

(* Every slot is accounted for, and nobody waits while one is free, however *)
(* jobs end, fail or give up waiting.                                       *)
THEOREM SlotsKept == AdmissionSpec => []SlotsAccounted
<1>1. AdmissionInv => SlotsAccounted
  BY DEF AdmissionInv, Sound, Slots, SlotsAccounted
<1>2. AdmissionInv /\ [AdmissionNext]_admVars => AdmissionInv'
  BY AdmissionStepInv
<1> QED  BY <1>1, <1>2, AdmissionInitInv, PTL DEF AdmissionSpec

----------------------------------------------------------------------------
(* The budget of a client *)

(* A later time is in the same window or a later one. *)
LEMMA WindowsOrdered ==
  ASSUME NEW a \in Nat, NEW b \in Nat, a <= b
  PROVE  WindowAt(a) \in Nat /\ WindowAt(b) \in Nat /\ WindowAt(a) <= WindowAt(b)
<1> USE AdmissionAssumption
<1> DEFINE W == WindowSize
           x == a \div W
           y == b \div W
<1>1. W \in Nat \ {0}
  OBVIOUS
<1> HIDE DEF W
<1>2. x \in Nat /\ y \in Nat /\ x * W <= a /\ b < (y + 1) * W
  BY <1>1, SMT
<1> HIDE DEF x, y
<1>3. CASE x > y
  <2>1. x >= y + 1
    BY <1>2, <1>3
  <2>2. x * W >= (y + 1) * W
    BY <1>1, <1>2, <2>1, SMT
  <2>3. x * W \in Nat /\ (y + 1) * W \in Nat
    BY <1>1, <1>2, SMT
  <2> DEFINE u == x * W
             v == (y + 1) * W
  <2>4. u <= a /\ b < v /\ u >= v /\ u \in Nat /\ v \in Nat
    BY <1>2, <2>2, <2>3
  <2> HIDE DEF u, v
  <2> QED  BY <2>4
<1> QED  BY <1>2, <1>3 DEF x, y, W, WindowAt

(* Every non-empty set of numbers has a least one. *)
LEMMA LeastNumber ==
  ASSUME NEW T \in SUBSET Nat, T # {}
  PROVE  \E x \in T : \A y \in T : x <= y
<1> DEFINE R == OpToRel(<, Nat)
<1>1. \A x, y \in Nat : y < x => <<y, x>> \in R
  BY DEF OpToRel
<1>2. IsWellFoundedOn(R, Nat)
  BY NatLessThanWellFounded
<1> HIDE DEF R
<1>3. PICK x \in T : \A y \in T : ~ (<<y, x>> \in R)
  BY <1>2, WFMin
<1>4. ASSUME NEW y \in T PROVE x <= y
  <2>1. ~ (y < x)
    BY <1>1, <1>3
  <2> QED  BY <2>1
<1> QED  BY <1>4

(* No transaction began later than now. *)
BegunBefore == \A j \in Job : began[j] # NotBegun => began[j] <= now

Remembering == [key : Caller \cup {"endpoint"}, until : Nat]

(* The clients' buckets and the cache are well formed. *)
BudgetTypes ==
  /\ count \in [Bucket -> [Windows -> Nat]]
  /\ admitted \in [Caller -> [Windows -> Nat]]
  /\ backoff \in Seq(Remembering)

(* What a client was admitted in a window that is not over is what its      *)
(* bucket counts, and no more than its limit.                               *)
ClientShare ==
  \A c \in Caller : \A w \in Windows :
    w >= WindowAt(now) => count[c][w] = admitted[c][w] /\ admitted[c][w] <= ClientLimit

(* The endpoint's bucket and the public one never differ, nor exceed their  *)
(* limits.                                                                  *)
EndpointShare ==
  \A w \in Windows :
    w >= WindowAt(now) =>
      /\ count["public"][w] = count["endpoint"][w]
      /\ count["public"][w] <= PublicLimit /\ count["endpoint"][w] <= GlobalLimit

BudgetInv == AdmissionInv /\ BegunBefore /\ BudgetTypes /\ ClientShare /\ EndpointShare

(* No bucket has spent anything when no request has been made. *)
LEMMA BudgetInit ==
  ASSUME AdmissionInit
  PROVE  BudgetInv
<1> USE AdmissionAssumption DEF AdmissionInit
<1>1. AdmissionInv
  BY AdmissionInitInv
<1>2. Caller \subseteq Bucket /\ "public" \in Bucket /\ "endpoint" \in Bucket
  BY DEF Bucket
<1>3. BudgetTypes
  BY DEF BudgetTypes
<1>4. ClientShare /\ EndpointShare /\ BegunBefore
  BY <1>2 DEF ClientShare, EndpointShare, BegunBefore
<1> QED  BY <1>1, <1>3, <1>4 DEF BudgetInv

(* A step that leaves the buckets alone, and does not turn time back.       *)
LEMMA BudgetUntouched ==
  ASSUME BudgetInv, AdmissionInv', now' >= now, UNCHANGED <<count, admitted>>
  PROVE  ClientShare' /\ EndpointShare'
<1>1. now \in Nat /\ now' \in Nat /\ WindowAt(now) \in Nat /\ WindowAt(now') \in Nat
        /\ WindowAt(now) <= WindowAt(now')
  BY AdmissionAssumption, WindowsOrdered DEF BudgetInv, AdmissionInv
<1>2. \A w \in Windows : w \in Int /\ (w >= WindowAt(now') => w >= WindowAt(now))
  BY <1>1 DEF Windows
<1> QED  BY <1>2 DEF BudgetInv, ClientShare, EndpointShare, WindowAt

(* Pruning leaves a well-formed cache. *)
LEMMA PrunedType ==
  ASSUME BudgetInv
  PROVE  Pruned \in Seq(Remembering)
<1> DEFINE alive == {i \in DOMAIN backoff : backoff[i].until > now}
<1>1. backoff \in Seq(Remembering)
  BY DEF BudgetInv, BudgetTypes
<1>2. CASE alive = {}
  BY <1>2 DEF Pruned
<1>3. CASE alive # {}
  <2>1. alive \in SUBSET Nat /\ alive \subseteq 1 .. Len(backoff)
    BY <1>1
  <2>2. PICK i \in alive : \A j \in alive : i <= j
    BY <1>3, <2>1, LeastNumber
  <2> DEFINE m == CHOOSE k \in alive : \A j \in alive : k <= j
  <2>3. m \in alive
    BY <2>2
  <2>4. Pruned = SubSeq(backoff, m, Len(backoff))
    BY <1>3 DEF Pruned
  <2> HIDE DEF m, alive
  <2>5. m \in 1 .. Len(backoff)
    BY <2>1, <2>3
  <2>6. \A k \in m .. Len(backoff) : backoff[k] \in Remembering
    BY <1>1, <2>5
  <2>7. m \in Int /\ Len(backoff) \in Int
    BY <1>1, <2>5
  <2>8. SubSeq(backoff, m, Len(backoff)) \in Seq(Remembering)
    BY <2>6, <2>7, SubSeqProperties
  <2> QED  BY <2>4, <2>8
<1> QED  BY <1>2, <1>3

(* The cache is well formed whatever is added. *)
LEMMA AddedType ==
  ASSUME BudgetInv, NEW key \in Caller \cup {"endpoint"}
  PROVE  Added(key) \in Seq(Remembering)
<1> USE AdmissionAssumption
<1>1. now \in Nat /\ now <= now
  BY DEF BudgetInv, AdmissionInv
<1>2. WindowAt(now) \in Nat
  BY <1>1, WindowsOrdered
<1>3. WindowSize \in Nat /\ WindowAt(now) + 1 \in Nat
  BY <1>2
<1>4. NextWindow \in Nat
  BY <1>3, SMT DEF NextWindow
<1>5. now + TTL \in Nat
  BY <1>1
<1>6. Entry(key) \in Remembering
  BY <1>4, <1>5 DEF Entry, Remembering
<1>7. Append(Pruned, Entry(key)) \in Seq(Remembering)
  BY <1>6, PrunedType
<1> QED  BY <1>7, PrunedType DEF Added

(* What is decided is counted in every bucket or in none. *)
LEMMA DecideBudget ==
  ASSUME BudgetInv, AdmissionInv', NEW r \in Request, Decide(r)
  PROVE  BudgetInv'
<1> USE AdmissionAssumption
<1> DEFINE c == ClientOf[r]
           v == WindowAt(began[r])
           ok == Verdict(c, v) = "admitted"
<1>1. r \in Job /\ c \in Caller /\ c # "public" /\ c # "endpoint"
  BY DEF Job, Caller, Range
<1>2. began[r] \in 0 .. MaxTime /\ now \in 0 .. MaxTime
  BY <1>1 DEF Decide, BudgetInv, AdmissionInv, NotBegun
<1>3. v \in Windows
  <2>1. WindowAt(began[r]) \in Nat /\ WindowAt(MaxTime) \in Nat
          /\ WindowAt(began[r]) <= WindowAt(MaxTime)
    BY <1>2, WindowsOrdered
  <2> QED  BY <2>1 DEF Windows
<1>4. {"public", "endpoint", c} \subseteq Bucket /\ Caller \subseteq Bucket
  BY <1>1 DEF Bucket
<1>5. ok => /\ count["public"][v] < PublicLimit /\ count["endpoint"][v] < GlobalLimit
            /\ count[c][v] < ClientLimit
  <2>1. count["public"][v] \in Nat /\ count["endpoint"][v] \in Nat /\ count[c][v] \in Nat
    BY <1>3, <1>4 DEF BudgetInv, BudgetTypes
  <2> QED  BY <2>1 DEF Verdict
<1>6. count' = [b \in Bucket |-> IF b \in {"public", "endpoint", c} /\ ok
                                 THEN [count[b] EXCEPT ![v] = @ + 1] ELSE count[b]]
  BY DEF Decide, Counted
<1>7. admitted' = IF ok THEN [admitted EXCEPT ![c][v] = @ + 1] ELSE admitted
  BY DEF Decide
<1>8. UNCHANGED <<now, backoff>> /\ began' = [began EXCEPT ![r] = NotBegun]
  BY DEF Decide
<1>9. /\ count \in [Bucket -> [Windows -> Nat]] /\ admitted \in [Caller -> [Windows -> Nat]]
      /\ backoff \in Seq(Remembering)
  BY DEF BudgetInv, BudgetTypes
<1> HIDE DEF c, v, ok
<1>10. BudgetTypes'
  <2>1. count' \in [Bucket -> [Windows -> Nat]]
    <3>1. ASSUME NEW b \in Bucket PROVE [count[b] EXCEPT ![v] = @ + 1] \in [Windows -> Nat]
      BY <1>3, <1>9
    <3> QED  BY <1>6, <1>9, <3>1
  <2>2. admitted' \in [Caller -> [Windows -> Nat]]
    <3>1. [admitted[c] EXCEPT ![v] = @ + 1] \in [Windows -> Nat]
      BY <1>1, <1>3, <1>9
    <3> QED  BY <1>1, <1>7, <1>9, <3>1
  <2> QED  BY <1>8, <1>9, <2>1, <2>2 DEF BudgetTypes
<1>11. ClientShare'
  <2> SUFFICES ASSUME NEW d \in Caller, NEW w \in Windows, w >= WindowAt(now)
               PROVE  count'[d][w] = admitted'[d][w] /\ admitted'[d][w] <= ClientLimit
    BY <1>8 DEF ClientShare, WindowAt
  <2>1. count[d][w] = admitted[d][w] /\ admitted[d][w] <= ClientLimit
    BY DEF BudgetInv, ClientShare
  <2>2. d \in Bucket /\ d # "public" /\ d # "endpoint"
    BY <1>4 DEF Caller
  <2>3. CASE ok /\ d = c /\ w = v
    <3>1. count'[d][w] = count[d][w] + 1 /\ admitted'[d][w] = admitted[d][w] + 1
      BY <1>1, <1>3, <1>6, <1>7, <1>9, <2>2, <2>3
    <3>2. count[d][w] \in Nat /\ ClientLimit \in Nat
      BY <1>9, <2>2
    <3> QED  BY <1>5, <2>1, <2>3, <3>1, <3>2
  <2>4. CASE ~(ok /\ d = c /\ w = v)
    <3>1. count'[d][w] = count[d][w] /\ admitted'[d][w] = admitted[d][w]
      BY <1>1, <1>3, <1>6, <1>7, <1>9, <2>2, <2>4
    <3> QED  BY <2>1, <3>1
  <2> QED  BY <2>3, <2>4
<1>12. EndpointShare'
  <2> SUFFICES ASSUME NEW w \in Windows, w >= WindowAt(now)
               PROVE  /\ count'["public"][w] = count'["endpoint"][w]
                      /\ count'["public"][w] <= PublicLimit /\ count'["endpoint"][w] <= GlobalLimit
    BY <1>8 DEF EndpointShare, WindowAt
  <2>1. /\ count["public"][w] = count["endpoint"][w]
        /\ count["public"][w] <= PublicLimit /\ count["endpoint"][w] <= GlobalLimit
    BY DEF BudgetInv, EndpointShare
  <2>2. CASE ok /\ w = v
    <3>1. count'["public"][w] = count["public"][w] + 1 /\ count'["endpoint"][w] = count["endpoint"][w] + 1
      BY <1>3, <1>4, <1>6, <1>9, <2>2
    <3>2. count["public"][w] \in Nat /\ count["endpoint"][w] \in Nat
            /\ PublicLimit \in Nat /\ GlobalLimit \in Nat
      BY <1>4, <1>9
    <3> QED  BY <1>5, <2>1, <2>2, <3>1, <3>2
  <2>3. CASE ~(ok /\ w = v)
    <3>1. count'["public"][w] = count["public"][w] /\ count'["endpoint"][w] = count["endpoint"][w]
      BY <1>3, <1>4, <1>6, <1>9, <2>3
    <3> QED  BY <2>1, <3>1
  <2> QED  BY <2>2, <2>3
<1>13. BegunBefore'
  BY <1>8 DEF BudgetInv, AdmissionInv, BegunBefore
<1> QED  BY <1>10, <1>11, <1>12, <1>13 DEF BudgetInv

(* The cleanup empties only the buckets of windows that are over. *)
LEMMA CleanBudget ==
  ASSUME BudgetInv, AdmissionInv', Clean
  PROVE  BudgetInv'
<1> USE AdmissionAssumption
<1> DEFINE v == WindowAt(began[Cleaner])
<1>1. Cleaner \in Job /\ began[Cleaner] \in 0 .. MaxTime /\ now \in 0 .. MaxTime
        /\ began[Cleaner] <= now
  BY DEF Job, Clean, BudgetInv, AdmissionInv, NotBegun, BegunBefore
<1>2. v \in Nat /\ WindowAt(now) \in Nat /\ v <= WindowAt(now)
  BY <1>1, WindowsOrdered
<1>3. count' = [b \in Bucket |-> [w \in Windows |-> IF w < v THEN 0 ELSE count[b][w]]]
        /\ UNCHANGED <<now, backoff, admitted>> /\ began' = [began EXCEPT ![Cleaner] = NotBegun]
  BY DEF Clean
<1>4. count \in [Bucket -> [Windows -> Nat]]
  BY DEF BudgetInv, BudgetTypes
<1> HIDE DEF v
<1>5. BudgetTypes'
  BY <1>3, <1>4 DEF BudgetInv, BudgetTypes
<1>6. ASSUME NEW b \in Bucket, NEW w \in Windows, w >= WindowAt(now)
      PROVE  count'[b][w] = count[b][w]
  <2>1. ~(w < v)
    BY <1>2, <1>6 DEF Windows
  <2> QED  BY <1>3, <2>1
<1>7. Caller \subseteq Bucket /\ "public" \in Bucket /\ "endpoint" \in Bucket
  BY DEF Bucket
<1>8. ClientShare' /\ EndpointShare'
  BY <1>3, <1>6, <1>7 DEF BudgetInv, ClientShare, EndpointShare, WindowAt
<1>9. BegunBefore'
  BY <1>3 DEF BudgetInv, AdmissionInv, BegunBefore
<1> QED  BY <1>5, <1>8, <1>9 DEF BudgetInv

(* Every step keeps every bucket within its budget. *)
LEMMA BudgetStep ==
  ASSUME BudgetInv, [AdmissionNext]_admVars
  PROVE  BudgetInv'
<1> USE AdmissionAssumption
<1>0. AdmissionInv /\ AdmissionInv'
  BY AdmissionStepInv DEF BudgetInv
<1>a. now \in Nat /\ now' \in Nat /\ began \in [Job -> 0 .. NotBegun]
  BY <1>0 DEF AdmissionInv
<1>1. ASSUME now' >= now, UNCHANGED <<count, admitted, backoff>>, BegunBefore' PROVE BudgetInv'
  BY <1>0, <1>1, BudgetUntouched DEF BudgetInv, BudgetTypes
<1>2. CASE UNCHANGED admVars
  BY <1>1, <1>2, <1>a DEF admVars, BudgetInv, BegunBefore
<1>3. ASSUME NEW r \in Request, Ask(r) PROVE BudgetInv'
  BY <1>1, <1>3, <1>a DEF Ask, BudgetInv, BegunBefore
<1>4. ASSUME NEW r \in Request, Decide(r) PROVE BudgetInv'
  BY <1>0, <1>4, DecideBudget
<1>5. ASSUME NEW r \in Request, Answer(r) PROVE BudgetInv'
  <2>1. now' = now /\ UNCHANGED <<count, admitted, began>>
    BY <1>5 DEF Answer
  <2>2. ClientOf[r] \in Caller \cup {"endpoint"} /\ "endpoint" \in Caller \cup {"endpoint"}
    BY DEF Caller, Range
  <2>3. backoff' \in Seq(Remembering)
    <3>1. CASE verdict[r] = "admitted"
      BY <1>5, <3>1 DEF Answer, BudgetInv, BudgetTypes
    <3>2. CASE verdict[r] # "admitted"
      <4> DEFINE k == IF verdict[r] = "client" THEN ClientOf[r] ELSE "endpoint"
      <4>1. backoff' = Added(k)
        BY <1>5, <3>2 DEF Answer
      <4>2. k \in Caller \cup {"endpoint"}
        BY <2>2
      <4> QED  BY <4>1, <4>2, AddedType
    <3> QED  BY <3>1, <3>2
  <2>4. ClientShare' /\ EndpointShare'
    BY <1>0, <1>a, <2>1, BudgetUntouched
  <2> QED  BY <1>0, <2>1, <2>3, <2>4 DEF BudgetInv, BudgetTypes, BegunBefore
<1>6. ASSUME NEW j \in Job, WaitExpires(j) PROVE BudgetInv'
  BY <1>1, <1>6, <1>a DEF WaitExpires, BudgetInv, BegunBefore
<1>7. ASSUME NEW j \in Job, BeginWork(j) PROVE BudgetInv'
  BY <1>1, <1>7, <1>a DEF BeginWork, BudgetInv, BegunBefore
<1>8. ASSUME NEW j \in Job, Fails(j) PROVE BudgetInv'
  BY <1>1, <1>8, <1>a DEF Fails, BudgetInv, BegunBefore
<1>9. CASE Clean
  BY <1>0, <1>9, CleanBudget
<1>10. CASE Tick
  <2>1. BegunBefore'
    BY <1>10, <1>a DEF Tick, BudgetInv, BegunBefore
  <2> QED  BY <1>1, <1>10, <1>a, <2>1 DEF Tick
<1> QED
  BY <1>2, <1>3, <1>4, <1>5, <1>6, <1>7, <1>8, <1>9, <1>10 DEF AdmissionNext

(* Nobody is admitted beyond a limit, and a client that is rejected, or     *)
(* whose transaction fails, uses nothing of its budget nor of the others'.  *)
THEOREM BudgetKept == AdmissionSpec => [](ClientShare /\ EndpointShare)
<1>1. BudgetInv => ClientShare /\ EndpointShare
  BY DEF BudgetInv
<1>2. BudgetInv /\ [AdmissionNext]_admVars => BudgetInv'
  BY BudgetStep
<1> QED  BY <1>1, <1>2, BudgetInit, PTL DEF AdmissionSpec

----------------------------------------------------------------------------
(* The negative cache *)

(* An entry that is alive is among those that pruning leaves. *)
LEMMA PrunedKeepsLive ==
  ASSUME BudgetInv, NEW i \in DOMAIN backoff, backoff[i].until > now
  PROVE  \E j \in DOMAIN Pruned : Pruned[j] = backoff[i]
<1> DEFINE S == Remembering
           alive == {k \in DOMAIN backoff : backoff[k].until > now}
           m == CHOOSE k \in alive : \A j \in alive : k <= j
<1>1. backoff \in Seq(S)
  BY DEF BudgetInv, BudgetTypes
<1>2. i \in alive /\ alive \in SUBSET Nat /\ alive \subseteq 1 .. Len(backoff)
  BY <1>1
<1>3. PICK l \in alive : \A j \in alive : l <= j
  BY <1>2, LeastNumber
<1>4. m \in alive /\ \A j \in alive : m <= j
  BY <1>3
<1>5. Pruned = SubSeq(backoff, m, Len(backoff))
  BY <1>2 DEF Pruned
<1> HIDE DEF m, alive, S
<1>6. m \in 1 .. Len(backoff) /\ i \in 1 .. Len(backoff) /\ m <= i /\ Len(backoff) \in Nat
  BY <1>1, <1>2, <1>4
<1>7. \A k \in m .. Len(backoff) : backoff[k] \in S
  BY <1>1, <1>6
<1>8. m \in Int /\ Len(backoff) \in Int
  BY <1>6
<1>9. /\ Pruned \in Seq(S)
      /\ Len(Pruned) = IF m <= Len(backoff) THEN Len(backoff) - m + 1 ELSE 0
      /\ \A k \in 1 .. Len(backoff) - m + 1 : Pruned[k] = backoff[m + k - 1]
  BY <1>5, <1>7, <1>8, SubSeqProperties
<1>10. i - m + 1 \in 1 .. Len(backoff) - m + 1 /\ m + (i - m + 1) - 1 = i
  BY <1>6
<1>11. i - m + 1 \in DOMAIN Pruned
  <2>1. Len(Pruned) = Len(backoff) - m + 1
    BY <1>6, <1>9
  <2> QED  BY <1>9, <1>10, <2>1, LenProperties
<1> QED  BY <1>9, <1>10, <1>11

(* A rejection is remembered until its time is over, whatever is added.     *)
THEOREM RejectionsKept == AdmissionSpec => RejectionsFade
<1> DEFINE Fades == \A i \in DOMAIN backoff : backoff[i].until > now' =>
                      \E j \in DOMAIN backoff' : backoff'[j] = backoff[i]
<1>1. ASSUME BudgetInv, BudgetInv', [AdmissionNext]_admVars PROVE Fades \/ UNCHANGED admVars
  <2>1. CASE \E r \in Request : Answer(r) /\ verdict[r] # "admitted"
    <3>1. PICK r \in Request : Answer(r) /\ verdict[r] # "admitted"
      BY <2>1
    <3>2. PICK k : k \in Caller \cup {"endpoint"} /\ backoff' = Added(k) /\ now' = now
      <4>1. ClientOf[r] \in Caller \cup {"endpoint"} /\ "endpoint" \in Caller \cup {"endpoint"}
        BY AdmissionAssumption DEF Caller, Range
      <4> QED  BY <3>1, <4>1 DEF Answer
    <3>3. ASSUME NEW i \in DOMAIN backoff, backoff[i].until > now'
          PROVE  \E j \in DOMAIN backoff' : backoff'[j] = backoff[i]
      <4>1. PICK j \in DOMAIN Pruned : Pruned[j] = backoff[i]
        BY <1>1, <3>2, <3>3, PrunedKeepsLive
      <4>2. CASE backoff' = Pruned
        BY <4>1, <4>2
      <4>3. CASE backoff' = Append(Pruned, Entry(k))
        <5>1. Pruned \in Seq(Remembering)
          BY <1>1, PrunedType
        <5>2. j \in DOMAIN Append(Pruned, Entry(k)) /\ Append(Pruned, Entry(k))[j] = Pruned[j]
          BY <5>1
        <5> QED  BY <4>1, <4>3, <5>2
      <4> QED  BY <3>2, <4>2, <4>3 DEF Added
    <3> QED  BY <3>3
  <2>2. CASE ~ \E r \in Request : Answer(r) /\ verdict[r] # "admitted"
    <3>1. backoff' = backoff
      BY <1>1, <2>2 DEF AdmissionNext, admVars, Ask, Decide, Answer, WaitExpires,
         BeginWork, Fails, Clean, Tick
    <3> QED  BY <3>1
  <2> QED  BY <2>1, <2>2
<1>2. BudgetInv /\ [AdmissionNext]_admVars => BudgetInv'
  BY BudgetStep
<1>3. BudgetInv /\ BudgetInv' /\ [AdmissionNext]_admVars => [Fades]_admVars
  BY <1>1
<1> QED  BY <1>2, <1>3, BudgetInit, PTL DEF AdmissionSpec, RejectionsFade
=============================================================================
