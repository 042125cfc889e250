------------------------------- MODULE MCWeb -------------------------------
(***************************************************************************)
(* The connection of a computer and the accounts its usage counts for, in  *)
(* one run: a behaviour takes steps of one part, the other stays as it     *)
(* begins.                                                                 *)
(*   "connects"  two processes connect the one agent of a computer;        *)
(*   "commands"  two other commands or decisions come between the connects *)
(*               of one process;                                           *)
(*   "crashes"   one of them, and processes may die;                       *)
(*   "sources"   the same with two agents and one pairing;                 *)
(*   "restarts"  a second pairing follows with other agents;               *)
(*   "order"     usage of two computers arrives out of order;              *)
(*   "merge"     two computers' accounts are merged, undone, moved;        *)
(*   "linked"    a third source shares a computer or an account.           *)
(***************************************************************************)
EXTENDS Pairing, Accounts, TLC

CONSTANTS
  s1,           \* the client source of the parts with one
  a1, b1, b2,   \* sources: of the computer compA, and of compB
  compA, compB, c1, c2

MCComputerOf == a1 :> compA @@ b1 :> compB @@ b2 :> compB
MCClientOf == a1 :> c1 @@ b1 :> c2 @@ b2 :> c1

Seen(number, full) == [n |-> number, full |-> full]
Snap(full, rolling, first, second) ==
  [full |-> full, rolling |-> rolling, entry |-> <<first, second>>]

(* What a collection finds of two days. *)
MergeSnaps == {Snap(TRUE, TRUE, Seen(n, TRUE), Nil) : n \in {1, 2}}
OrderSnaps ==
  {Snap(TRUE, TRUE, Seen(1, TRUE), Seen(1, FALSE)),
   Snap(FALSE, TRUE, Seen(2, FALSE), Seen(1, TRUE)),
   Snap(TRUE, TRUE, Nil, Seen(2, TRUE))}
MCSnaps == MergeSnaps \cup OrderSnaps

ASSUME WebAssumption == {a1, b1} \subseteq Src /\ MCSnaps \subseteq Snaps

VARIABLE part

webVars == <<part, pairVars, acctVars>>

Pairings == {"connects", "commands", "crashes", "sources", "restarts"}

WebInit ==
  /\ part \in Pairings \cup {"order", "merge", "linked"}
  /\ PairingInit /\ AccountsInit
  /\ part # "order" => mode = "account_max"

-----------------------------------------------------------------------------
Running == {p \in Conn : pc[p] # "off"}

OnlyFirstClient ==
  /\ registry' \subseteq {s1}
  /\ \A p \in Proc : my'[p].local \subseteq {s1} /\ my'[p].which \in {s1, None}

PairingPart ==
  /\ UNCHANGED acctVars
  /\ IF part = "commands" THEN PairingStep ELSE PairingNext
  /\ part # "connects" => Cardinality(Running') <= 1
  /\ part \in {"connects", "restarts"} => cmds' = 0
  /\ part \in {"crashes", "sources"} => cmds' <= 1
  /\ part = "sources" => Cardinality(drawn') <= 1
  /\ part \notin {"sources", "restarts"} => OnlyFirstClient

-----------------------------------------------------------------------------
Few == IF part = "linked" THEN Src ELSE {a1, b1}

OrderPart ==
  \E s \in Few :
    \/ src[s].st = "none" /\ \E a \in Mappable(s) : ApproveSource(s, a, {})
    \/ \E x \in OrderSnaps, t \in {0, now, now + 1} : CollectSnapshot(s, x, t)
    \/ \E answered \in BOOLEAN : Upload(s, answered)

MergePart ==
  \/ \E s \in Few :
       \/ \E a \in Mappable(s), D \in SUBSET {q \in Src \ {s} :
             ComputerOf[q] = ComputerOf[s] /\ src[q].st = "active"} : ApproveSource(s, a, D)
       \/ \E p \in Src : Register(s, p)
       \/ \E a \in Account : Reassign(s, a)
       \/ Undo(s)
       \/ /\ \A q \in Src : queue[q] = <<>>
          /\ \E x \in MergeSnaps : /\ part = "linked" => x.entry[1].n = 1
                                   /\ CollectSnapshot(s, x, IF cutover = 0 THEN now + 1 ELSE 0)
       \/ Upload(s, TRUE)
  \/ \E a \in Account : DeleteAccount(a) \/ CleanAccount(a)
  \/ \E k \in Range(ComputerOf) :
       LET S == {s \in Src : ComputerOf[s] = k} IN DisconnectSources(S) \/ CleanComputer(S)
  \/ LeaveLeaderboard

AccountsPart ==
  /\ UNCHANGED pairVars
  /\ IF part = "order" THEN OrderPart ELSE MergePart
  /\ part = "linked" => edits' <= 1

WebNext ==
  /\ part' = part
  /\ \/ part \in Pairings /\ PairingPart
     \/ part \notin Pairings /\ AccountsPart

WebSpec == WebInit /\ [][WebNext]_webVars

Symmetry == Permutations(Inst) \cup Permutations(Token) \cup Permutations(Conn)

-----------------------------------------------------------------------------
(* The rows of both halves are well typed. *)
WebTypeOK == (part \in Pairings => PairingTypeOK) /\ (part \notin Pairings => AccountsTypeOK)

=============================================================================
